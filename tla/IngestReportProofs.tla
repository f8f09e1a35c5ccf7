-------------------------- MODULE IngestReportProofs --------------------------
(***************************************************************************)
(* What holds of the ingestion (IngestReport) for any browses, reports,    *)
(* strategies, configurations and faults: how much harm a fault can do,    *)
(* what a failure leaves behind, and that IngestService is implemented.    *)
(*                                                                         *)
(* The inductive invariant follows the browse that is being ingested: what *)
(* the open transactions have that is not committed, which images there    *)
(* are copies of, and what would become of the browse should the next step *)
(* fail.                                                                   *)
(***************************************************************************)
EXTENDS IngestReport, SequenceTheorems, FiniteSetTheorems, TLAPS

-----------------------------------------------------------------------------
(* The inductive invariant *)

Place == {"storage", "deleted", "success", "failure"}

TypeOK ==
  /\ config \in Configs
  /\ db \in [Id -> Record \cup {None}] /\ tx \in [Id -> Record \cup {None}]
  /\ times \in [Id -> Image \cup {None}] /\ txTimes \in [Id -> Image \cup {None}]
  /\ images \subseteq Image /\ local \subseteq Image /\ backup \subseteq Image
  /\ pc \in {"idle", "decide", "retrieve", "remove", "enter", "process", "upload", "create",
             "leave", "delete", "input", "result", "commit", "commit_mapcache", "log", "rollback"}
  /\ report.items \in Seq(Id) /\ report.date \in Nat
  /\ pc # "idle" => /\ report.date \in Date /\ report.items # <<>>
                    /\ input \in [1 .. Len(report.items) -> Place]
  /\ result \in Seq([browse : Nat, outcome : {"success", "skipped", "failure"}])
  /\ pos \in Nat /\ old \in Record \cup {None} /\ made \in 0 .. Images
  /\ mode \in {"create", "merge", "replace", "skip"}
  /\ faults \in Seq(Faults)

\* A browse is being ingested.
Handling == pc \notin {"idle", "decide"}

\* Its new image is being made, or made and not committed yet.
Making == pc \in {"retrieve", "remove", "enter", "process", "upload", "create", "leave", "delete", "input"}

\* Its new record and time span are about to be committed: from here on the old ones are not
\* restored.
Committing ==
  \/ pc \in {"delete", "input"}
  \/ pc \in {"result", "commit", "commit_mapcache"} /\ mode # "skip"

\* Which browse that is, and what is done about it; there are images for all of them.
ProgressInv ==
  /\ pc = "idle" => report = NoReport /\ result = <<>> /\ pos = 1
  /\ pc = "decide" => pos \in 1 .. Len(report.items) + 1 /\ made + Len(report.items) + 1 - pos =< Images
  /\ Handling => pos \in 1 .. Len(report.items) /\ made + Len(report.items) - pos =< Images
  /\ Handling => mode = ModeFor(old)
  /\ Handling /\ mode # "skip" => made \in Image
  /\ Making => mode # "skip"
  /\ pc = "remove" => mode # "create"
  /\ pc = "upload" => Remote

\* What is committed, and what the open transactions change of that: the browse that is being
\* ingested, no other.
RecordsInv ==
  /\ \A id \in Id : db[id] # None => db[id].image =< made
  /\ \A id1, id2 \in Id : db[id1] # None /\ db[id2] # None /\ id1 # id2 => db[id1].image # db[id2].image
  /\ Making \/ (pc \in {"result", "commit"} /\ mode # "skip") =>
       \A id \in Id : db[id] # None => db[id].image # made
  /\ Making \/ pc \in {"result", "commit"} => old = db[Current]
  /\ pc = "rollback" /\ Only({"step"}) => old = db[Current]
  /\ ~Handling \/ pc = "log" => tx = db /\ txTimes = times
  /\ Handling => \A id \in Id : id # Current => tx[id] = db[id] /\ txTimes[id] = times[id]
  /\ pc \in {"result", "commit", "commit_mapcache"} /\ mode = "skip" => tx = db /\ txTimes = times
  /\ pc = "leave" \/ Committing => tx[Current] = New /\ txTimes[Current] = made
  /\ pc = "commit_mapcache" => tx = db

\* Only the image of the record found is removed, and there is a copy of it until the
\* new one is made.
FilesInv ==
  /\ \A image \in backup : ~Remote /\ old # None /\ image = old.image
  /\ backup # {} => pc \in {"process", "upload", "create", "leave"}
  /\ pc = "process" /\ ~Remote /\ mode = "merge" /\ old.image \in images => old.image \in backup
  /\ pc \in {"create", "leave"} \/ Committing => made \in images

\* Record, time span and image fit, or will again when the copies are restored.
Kept(id) == IF db[id] = None THEN times[id] = None
                             ELSE times[id] = db[id].image /\ db[id].image \in images \cup backup

Damaged == { id \in Id : ~Kept(id) /\ ~(Committing /\ id = Current) }
Harmful == { k \in DOMAIN faults : faults[k] \notin {"step", "log"} }

DamageInv == Cardinality(Damaged) =< Cardinality(Harmful)

\* Without Swift every image is one of a record, but for the one that is being made.
Owned == { db[id].image : id \in { id \in Id : db[id] # None } }
OldImage == IF old = None THEN {} ELSE {old.image}
HasNew == pc \in {"create", "leave"} \/ (Committing /\ pc # "commit_mapcache")
StrayInv ==
  ~Remote =>
    /\ local = {}
    /\ Only({"step", "log"}) =>
         /\ pc = "process" /\ mode = "replace" => old.image \notin images
         /\ images \subseteq IF HasNew THEN (Owned \ OldImage) \cup {made} ELSE Owned

\* Results are about the browses handled so far, one for each, and input images are
\* disposed of in turn.
Finished == IF pc \in {"commit", "commit_mapcache", "log"} THEN pos ELSE pos - 1
ResultInv ==
  /\ \A k \in DOMAIN result : result[k].browse \in 1 .. pos
  /\ pc \notin {"commit", "commit_mapcache", "log", "rollback"} =>
       \A k \in DOMAIN result : result[k].browse < pos
  /\ pc = "decide" \/ Making => \A k \in DOMAIN input : k >= pos => input[k] = "storage"
  /\ \A k \in DOMAIN input : k > pos => input[k] = "storage"
  /\ pc = "rollback" /\ Only({"step", "input"}) => input[pos] \in {"storage", "failure"}
  /\ Only({"step", "input", "crash"}) => Len(result) = Finished
  /\ pc = "commit" => /\ result # <<>>
                      /\ result[Len(result)] = Outcome(IF mode = "skip" THEN "skipped" ELSE "success")

-----------------------------------------------------------------------------
(* Faults *)

\* A fault is recorded as one.
LEMMA FaultLemma ==
  ASSUME faults \in Seq(Faults), NEW kind, Fault(kind)
  PROVE  /\ faults' \in Seq(Faults) /\ Range(faults') = Range(faults) \cup {kind}
         /\ Len(faults') = Len(faults) + 1 /\ faults'[Len(faults')] = kind
         /\ \A k \in DOMAIN faults : faults'[k] = faults[k]
<1> USE DEF Fault
<1>1. /\ faults' \in Seq(Faults) /\ Len(faults') = Len(faults) + 1
      /\ faults'[Len(faults')] = kind
      /\ \A k \in 1 .. Len(faults) : faults'[k] = faults[k]
  OBVIOUS
<1>2. DOMAIN faults = 1 .. Len(faults) /\ DOMAIN faults' = (1 .. Len(faults)) \cup {Len(faults')}
  BY <1>1
<1>3. Range(faults') = Range(faults) \cup {kind}
  BY <1>1, <1>2 DEF Range
<1>4. QED
  BY <1>1, <1>2, <1>3

Kinds == {"step", "input", "commit", "log", "crash"}

LEMMA FaultsStep ==
  ASSUME [Next]_vars
  PROVE  UNCHANGED faults \/ \E kind \in Kinds : Fault(kind)
BY DEF Next, vars, Exception, Submit, Wait, Decide, Retrieve, Remove, EnterFileTransactions, Process,
       Upload, Create, LeaveFileTransactions, DeleteRemote, DisposeInput, AddResult, Commit,
       CommitMapCache, Log, RollBack, Answer, RetrieveFails, RemoveFails, IngestFails, UploadFails,
       DisposeFails, CommitFails, LogFails, Crash, Kinds

\* What happened is not forgotten.
LEMMA OnlyBefore ==
  ASSUME TypeOK, [Next]_vars, NEW kinds, Only(kinds)'
  PROVE  Only(kinds)
<1>1. CASE UNCHANGED faults
  BY <1>1 DEF Only
<1>2. ASSUME NEW kind, Fault(kind) PROVE Only(kinds)
  BY <1>2, FaultLemma DEF TypeOK, Only
<1>3. QED
  BY <1>1, <1>2, FaultsStep

-----------------------------------------------------------------------------
(* Types, and where the ingestion is *)

TypeInv == TypeOK /\ ProgressInv

\* Reports are sequences of browses.
LEMMA ReportType ==
  ASSUME NEW items \in Reports
  PROVE  items \in Seq(Id) /\ items # <<>> /\ Len(items) \in Nat \ {0} /\ DOMAIN items = 1 .. Len(items)
<1>1. PICK n \in 1 .. MaxLen : items \in [1 .. n -> Id]
  BY DEF Reports
<1>2. n \in Nat \ {0}
  BY IngestAssumption
<1>3. items \in Seq(Id) /\ Len(items) = n
  BY <1>1, <1>2
<1>4. QED
  BY <1>2, <1>3

\* The browse that is being ingested is one of the report.
LEMMA CurrentType ==
  ASSUME TypeInv, Handling
  PROVE  /\ Current \in Id /\ pos \in DOMAIN input /\ DOMAIN input = 1 .. Len(report.items)
         /\ Len(report.items) \in Nat
BY DEF TypeInv, TypeOK, ProgressInv, Current, Handling

LEMMA InitType == Init => TypeInv
<1>1. SUFFICES ASSUME Init PROVE TypeInv
  OBVIOUS
<1>2. report.items = <<>> /\ report.date = 0
  BY <1>1 DEF Init, NoReport
<1>3. TypeOK
  BY <1>1, <1>2, IngestAssumption DEF Init, TypeOK
<1>4. ProgressInv
  BY <1>1 DEF Init, ProgressInv, Handling, Making
<1>5. QED
  BY <1>3, <1>4 DEF TypeInv

LEMMA SubmitType ==
  ASSUME TypeInv, NEW items \in Reports, NEW date \in Date, NEW strategy \in Strategies,
         Submit(items, date, strategy)
  PROVE  TypeInv'
<1> USE DEF Submit, databases
<1>1. items \in Seq(Id) /\ items # <<>> /\ Len(items) \in Nat \ {0}
  BY ReportType
<1>2. report' = [items |-> items, date |-> date, strategy |-> strategy]
  OBVIOUS
<1>3. report'.items = items /\ report'.date = date /\ date \in Nat
  BY <1>2, IngestAssumption
<1>4. input' \in [1 .. Len(items) -> Place]
  BY DEF Place
<1>5. TypeOK'
  BY <1>1, <1>3, <1>4, EmptySeq DEF TypeInv, TypeOK
<1>6. made \in 0 .. Images /\ Images \in Nat
  BY IngestAssumption DEF TypeInv, TypeOK
<1>7. ProgressInv'
  BY <1>1, <1>3, <1>6 DEF ProgressInv, Handling, Making
<1>8. QED
  BY <1>5, <1>7 DEF TypeInv

LEMMA DecideType ==
  ASSUME TypeInv, Decide
  PROVE  TypeInv'
<1> USE DEF Decide, databases, files
<1>1. pos \in 1 .. Len(report.items) /\ report.items \in Seq(Id) /\ made \in 0 .. Images /\ Images \in Nat
      /\ made + Len(report.items) + 1 - pos =< Images
  BY IngestAssumption DEF TypeInv, TypeOK, ProgressInv
<1>2. Current \in Id
  BY <1>1 DEF Current
<1>3. old' \in Record \cup {None} /\ mode' \in {"create", "merge", "replace", "skip"}
  BY <1>2 DEF TypeInv, TypeOK, ModeFor
<1>4. mode' = ModeFor(old)'
  BY DEF ModeFor
<1>5. CASE mode' = "skip"
  <2>1. TypeOK'
    BY <1>3, <1>5 DEF TypeInv, TypeOK
  <2>2. ProgressInv'
    BY <1>1, <1>4, <1>5 DEF ProgressInv, Handling, Making
  <2>3. QED
    BY <2>1, <2>2 DEF TypeInv
<1>6. CASE mode' # "skip"
  <2>1. made' \in 1 .. Images /\ made' + Len(report.items) - pos =< Images
    BY <1>1, <1>6
  <2>2. TypeOK'
    BY <1>3, <1>6, <2>1 DEF TypeInv, TypeOK
  <2>3. ProgressInv'
    BY <1>1, <1>4, <1>6, <2>1 DEF ProgressInv, Handling, Making, Image
  <2>4. QED
    BY <2>2, <2>3 DEF TypeInv
<1>7. QED
  BY <1>5, <1>6

\* The steps from one point of the ingestion of a browse to another.
LEMMA StepType ==
  ASSUME TypeInv, Handling, UNCHANGED <<config, report, pos, old, mode, made>>, Handling',
         pc' = "remove" => mode # "create", pc' = "upload" => Remote, Making' => Making
  PROVE  ProgressInv'
<1>1. ModeFor(old)' = ModeFor(old)
  BY DEF ModeFor
<1>2. QED
  BY <1>1 DEF TypeInv, ProgressInv, Handling, Remote

\* The next browse.
LEMMA NextBrowseType ==
  ASSUME TypeInv, Handling, UNCHANGED <<report, made>>, pc' = "decide", pos' = pos + 1
  PROVE  ProgressInv'
<1>1. PICK n \in Nat : n = Len(report.items)
  BY SMTT(30) DEF TypeInv, TypeOK
<1>2. pos \in 1 .. n /\ made + n - pos =< Images /\ made \in Nat /\ Images \in Nat
  BY <1>1, IngestAssumption DEF TypeInv, TypeOK, ProgressInv
<1>3. pos + 1 \in 1 .. n + 1 /\ made + n + 1 - (pos + 1) =< Images
  BY <1>2
<1>4. pos' \in 1 .. Len(report'.items) + 1 /\ made' + Len(report'.items) + 1 - pos' =< Images
  BY <1>1, <1>3
<1>5. QED
  BY <1>4 DEF ProgressInv, Handling, Making

\* What becomes of the input image.
LEMMA InputType ==
  ASSUME TypeInv, Handling, NEW place \in Place, input' = [input EXCEPT ![pos] = place],
         UNCHANGED <<report, pos>>
  PROVE  input' \in [1 .. Len(report'.items) -> Place] /\ \A k \in DOMAIN input : input'[k] = IF k = pos THEN place ELSE input[k]
BY CurrentType DEF TypeInv, TypeOK, Handling

LEMMA MoveInputType ==
  ASSUME TypeInv, Handling, MoveInputToFailure, UNCHANGED <<report, pos>>
  PROVE  \E place \in {"storage", "failure"} : input' = [input EXCEPT ![pos] = place]
BY DEF MoveInputToFailure

LEMMA DisposeType ==
  ASSUME TypeInv, DisposeInput
  PROVE  \E place \in Place : input' = [input EXCEPT ![pos] = place]
<1>1. Original \in {"leave", "delete", "move"}
  BY IngestAssumption DEF TypeInv, TypeOK, Original
<1>2. CASE Original = "leave"
  BY <1>2 DEF DisposeInput, Place
<1>3. CASE Original = "delete"
  BY <1>3 DEF DisposeInput, Place
<1>4. CASE Original = "move"
  BY <1>4 DEF DisposeInput, Place
<1>5. QED
  BY <1>1, <1>2, <1>3, <1>4

LEMMA OutcomeType ==
  ASSUME TypeInv, NEW outcome \in {"success", "skipped", "failure"}
  PROVE  /\ Outcome(outcome) \in [browse : Nat, outcome : {"success", "skipped", "failure"}]
         /\ Append(result, Outcome(outcome)) \in Seq([browse : Nat, outcome : {"success", "skipped", "failure"}])
BY DEF TypeInv, TypeOK, Outcome

LEMMA TypeStep ==
  ASSUME TypeInv, [Next]_vars
  PROVE  TypeInv'
<1> USE DEF databases, files, progress, Handling, Making
<1>0. faults' \in Seq(Faults)
  BY FaultsStep, FaultLemma DEF TypeInv, TypeOK
<1>1. CASE UNCHANGED vars
  BY <1>1 DEF TypeInv, TypeOK, ProgressInv, vars, ModeFor, Remote
<1>2. CASE Retrieve
  <2>1. ProgressInv'
    BY <1>2, StepType DEF Retrieve
  <2>2. QED
    BY <1>2, <2>1 DEF Retrieve, TypeInv, TypeOK
<1>3. CASE Remove
  <2>1. ProgressInv'
    BY <1>3, StepType DEF Remove
  <2>2. QED
    BY <1>3, <2>1, CurrentType DEF Remove, TypeInv, TypeOK
<1>4. CASE EnterFileTransactions
  <2>1. ProgressInv'
    BY <1>4, StepType DEF EnterFileTransactions
  <2>2. QED
    BY <1>4, <2>1 DEF EnterFileTransactions, TypeInv, TypeOK
<1>5. CASE Process
  <2>1. ProgressInv'
    BY <1>5, StepType DEF Process
  <2>2. made \in Image
    BY <1>5 DEF Process, TypeInv, ProgressInv
  <2>3. QED
    BY <1>5, <2>1, <2>2 DEF Process, TypeInv, TypeOK
<1>6. CASE Upload
  <2>1. ProgressInv'
    BY <1>6, StepType DEF Upload
  <2>2. made \in Image
    BY <1>6 DEF Upload, TypeInv, ProgressInv
  <2>3. QED
    BY <1>6, <2>1, <2>2 DEF Upload, TypeInv, TypeOK
<1>7. CASE Create
  <2>1. ProgressInv'
    BY <1>7, StepType DEF Create
  <2>2. made \in Image /\ report.date \in Date
    BY <1>7 DEF Create, TypeInv, TypeOK, ProgressInv
  <2>3. New \in Record
    BY <2>2 DEF New, Record
  <2>4. QED
    BY <1>7, <2>1, <2>2, <2>3, CurrentType DEF Create, TypeInv, TypeOK
<1>8. CASE LeaveFileTransactions
  <2>1. ProgressInv'
    BY <1>8, StepType DEF LeaveFileTransactions
  <2>2. QED
    BY <1>8, <2>1 DEF LeaveFileTransactions, TypeInv, TypeOK
<1>9. CASE DeleteRemote
  <2>1. ProgressInv'
    BY <1>9, StepType DEF DeleteRemote
  <2>2. images' \subseteq images
    BY <1>9 DEF DeleteRemote
  <2>3. QED
    BY <1>0, <1>9, <2>1, <2>2 DEF DeleteRemote, TypeInv, TypeOK
<1>10. CASE DisposeInput
  <2>1. ProgressInv'
    BY <1>10, StepType DEF DisposeInput
  <2>2. PICK place \in Place : input' = [input EXCEPT ![pos] = place]
    BY <1>10, DisposeType
  <2>3. input' \in [1 .. Len(report'.items) -> Place]
    BY <1>10, <2>2, InputType DEF DisposeInput
  <2>4. QED
    BY <1>10, <2>1, <2>3 DEF DisposeInput, TypeInv, TypeOK
<1>11. CASE AddResult
  <2>1. ProgressInv'
    BY <1>11, StepType DEF AddResult
  <2>2. QED
    BY <1>11, <2>1, OutcomeType DEF AddResult, TypeInv, TypeOK
<1>12. CASE Commit
  <2>1. ProgressInv'
    BY <1>12, StepType DEF Commit
  <2>2. QED
    BY <1>12, <2>1 DEF Commit, TypeInv, TypeOK
<1>13. CASE CommitMapCache
  <2>1. ProgressInv'
    BY <1>13, StepType DEF CommitMapCache
  <2>2. QED
    BY <1>13, <2>1 DEF CommitMapCache, TypeInv, TypeOK
<1>14. CASE Log
  <2>1. ProgressInv'
    BY <1>14, NextBrowseType DEF Log
  <2>2. QED
    BY <1>14, <2>1 DEF Log, ForgetBrowse, TypeInv, TypeOK
<1>15. CASE RollBack
  <2>1. ProgressInv'
    BY <1>15, NextBrowseType DEF RollBack
  <2>2. QED
    BY <1>15, <2>1, OutcomeType DEF RollBack, ForgetBrowse, TypeInv, TypeOK
<1>16. CASE Answer \/ Crash
  <2>1. /\ report' = NoReport /\ result' = <<>> /\ pos' = 1 /\ pc' = "idle"
        /\ report'.items = <<>> /\ report'.date = 0
    BY <1>16 DEF Answer, Crash, NoReport
  <2>2. ProgressInv'
    BY <2>1 DEF ProgressInv
  <2>3. TypeOK'
    BY <1>0, <1>16, <2>1, EmptySeq DEF Answer, Crash, ForgetBrowse, TypeInv, TypeOK
  <2>4. QED
    BY <2>2, <2>3 DEF TypeInv
<1>17. CASE RetrieveFails \/ DisposeFails \/ CommitFails \/ LogFails
  <2>1. ProgressInv'
    BY <1>17, StepType DEF RetrieveFails, DisposeFails, CommitFails, LogFails
  <2>2. QED
    BY <1>0, <1>17, <2>1 DEF RetrieveFails, DisposeFails, CommitFails, LogFails, TypeInv, TypeOK
<1>18. CASE RemoveFails \/ IngestFails \/ UploadFails
  <2>1. /\ Handling /\ pc' = "rollback" /\ MoveInputToFailure
        /\ UNCHANGED <<config, databases, progress>>
    BY <1>18 DEF RemoveFails, IngestFails, UploadFails
  <2>2. ProgressInv'
    BY <2>1, StepType
  <2>3. PICK place \in Place : input' = [input EXCEPT ![pos] = place]
    BY <2>1, MoveInputType DEF Place
  <2>4. input' \in [1 .. Len(report'.items) -> Place]
    BY <2>1, <2>3, InputType
  <2>5. images' \subseteq images \cup backup \cup {made} /\ local' \subseteq local /\ backup' \subseteq backup
    BY <1>18 DEF RemoveFails, IngestFails, UploadFails, LeaveWithException
  <2>6. images' \subseteq Image /\ local' \subseteq Image /\ backup' \subseteq Image
    <3>1. CASE UploadFails
      BY <2>5, <3>1 DEF UploadFails, TypeInv, TypeOK, ProgressInv
    <3>2. CASE RemoveFails \/ IngestFails
      BY <3>2 DEF RemoveFails, IngestFails, LeaveWithException, TypeInv, TypeOK
    <3>3. QED
      BY <1>18, <3>1, <3>2
  <2>7. QED
    BY <1>0, <2>1, <2>2, <2>4, <2>6 DEF TypeInv, TypeOK
<1>19. CASE Exception
  BY <1>17, <1>18, <1>19 DEF Exception
<1>20. QED
  BY <1>1, <1>2, <1>3, <1>4, <1>5, <1>6, <1>7, <1>8, <1>9, <1>10, <1>11, <1>12, <1>13, <1>14, <1>15,
     <1>16, <1>19, SubmitType, DecideType DEF Next, Wait

-----------------------------------------------------------------------------
(* Records and time spans *)

LEMMA InitRecords == Init => RecordsInv
BY DEF Init, RecordsInv, Handling, Making, Committing

\* The steps that leave the databases alone, and what the transactions have.
LEMMA RecordsQuiet ==
  ASSUME RecordsInv, UNCHANGED <<databases, report, pos, old, mode, made>>, Handling, pc' # "log",
         Making' => Making, pc' \in {"result", "commit"} => pc \in {"result", "commit"} \/ Making,
         mode = "skip" => ~Making /\ pc' # "commit_mapcache",
         pc' = "rollback" => Making \/ pc \in {"result", "commit"} \/ ~Only({"step"})',
         pc' = "leave" \/ Committing' => pc = "leave" \/ Committing,
         pc' # "commit_mapcache", pc' # "decide", pc' # "idle"
  PROVE  RecordsInv'
<1>1. Current' = Current /\ New' = New
  BY DEF Current, New
<1>2. QED
  BY <1>1 DEF RecordsInv, databases, Handling, Committing

LEMMA DecideRecords ==
  ASSUME TypeInv, RecordsInv, Decide
  PROVE  RecordsInv'
<1> USE DEF Decide, databases, files, Handling, Making, Committing
<1>1. Current' = Current
  BY DEF Current
<1>2. pos \in 1 .. Len(report.items) /\ report.items \in Seq(Id)
  BY DEF TypeInv, TypeOK, ProgressInv
<1>3. Current \in Id
  BY <1>2 DEF Current
<1>4. old' = db[Current] /\ tx = db /\ txTimes = times
  BY DEF RecordsInv
<1>5. \A id \in Id : db[id] # None => db[id].image \in Nat
  BY IngestAssumption DEF TypeInv, TypeOK, Record, Image
<1>6. \A id \in Id : db[id] # None => db[id].image =< made' /\ (mode' # "skip" => db[id].image # made')
  BY <1>5 DEF RecordsInv, TypeInv, TypeOK
<1>7. QED
  BY <1>1, <1>3, <1>4, <1>6 DEF RecordsInv

\* The new record and its time span, as the transactions see them.
LEMMA CreateRecords ==
  ASSUME TypeInv, RecordsInv, Create
  PROVE  RecordsInv'
<1> USE DEF Create, files, progress, Handling, Making, Committing
<1>1. Current' = Current /\ New' = New
  BY DEF Current, New
<1>2. Current \in Id /\ tx' = [tx EXCEPT ![Current] = New] /\ txTimes' = [txTimes EXCEPT ![Current] = made]
  BY CurrentType
<1>3. /\ tx'[Current] = New /\ txTimes'[Current] = made
      /\ \A id \in Id : id # Current => tx'[id] = tx[id] /\ txTimes'[id] = txTimes[id]
  BY <1>2 DEF TypeInv, TypeOK
<1>4. QED
  BY <1>1, <1>3 DEF RecordsInv

LEMMA RemoveRecords ==
  ASSUME TypeInv, RecordsInv, Remove
  PROVE  RecordsInv'
<1> USE DEF Remove, files, progress, Handling, Making, Committing
<1>1. Current' = Current /\ New' = New
  BY DEF Current, New
<1>2. Current \in Id /\ tx' = [tx EXCEPT ![Current] = None] /\ txTimes' = [txTimes EXCEPT ![Current] = None]
  BY CurrentType
<1>3. \A id \in Id : id # Current => tx'[id] = tx[id] /\ txTimes'[id] = txTimes[id]
  BY <1>2 DEF TypeInv, TypeOK
<1>4. QED
  BY <1>1, <1>3 DEF RecordsInv

LEMMA CommitRecords ==
  ASSUME TypeInv, RecordsInv, Commit
  PROVE  RecordsInv'
<1> USE DEF Commit, files, progress, Handling, Making, Committing
<1>1. Current' = Current /\ New' = New
  BY DEF Current, New
<1>2. CASE mode = "skip"
  BY <1>1, <1>2 DEF RecordsInv
<1>3. CASE mode # "skip"
  <2>1. /\ tx[Current] = New /\ txTimes[Current] = made /\ New.image = made /\ made \in Nat
        /\ \A id \in Id : id # Current => tx[id] = db[id] /\ txTimes[id] = times[id]
        /\ \A id \in Id : db[id] # None => db[id].image =< made /\ db[id].image # made
    BY <1>3 DEF RecordsInv, New, TypeInv, TypeOK
  <2>2. \A id \in Id : db'[id] # None => db'[id].image =< made
    BY <2>1
  <2>3. \A id1, id2 \in Id : db'[id1] # None /\ db'[id2] # None /\ id1 # id2 => db'[id1].image # db'[id2].image
    <3>1. SUFFICES ASSUME NEW id1 \in Id, NEW id2 \in Id, tx[id1] # None, tx[id2] # None, id1 # id2
                   PROVE  tx[id1].image # tx[id2].image
      OBVIOUS
    <3>2. CASE id1 = Current \/ id2 = Current
      BY <2>1, <3>1, <3>2
    <3>3. CASE id1 # Current /\ id2 # Current
      BY <2>1, <3>1, <3>3 DEF RecordsInv
    <3>4. QED
      BY <3>2, <3>3
  <2>4. QED
    BY <1>1, <1>3, <2>1, <2>2, <2>3 DEF RecordsInv
<1>4. QED
  BY <1>2, <1>3

\* Between two browses the transactions have what is committed.
LEMMA RecordsBetween ==
  ASSUME RecordsInv, UNCHANGED db, tx' = db, txTimes' = times, UNCHANGED <<times, made>>,
         pc' \in {"idle", "decide"}
  PROVE  RecordsInv'
BY DEF RecordsInv, Handling, Making, Committing

LEMMA RecordsStep ==
  ASSUME TypeInv, RecordsInv, [Next]_vars
  PROVE  RecordsInv'
<1> USE DEF files, progress, Handling, Making, Committing
<1>1. CASE UNCHANGED vars
  <2>1. Current' = Current /\ New' = New /\ Only({"step"})' = Only({"step"})
    BY <1>1 DEF Current, New, Only, vars
  <2>2. QED
    BY <1>1, <2>1 DEF RecordsInv, vars, databases
<1>2. ASSUME NEW items \in Reports, NEW date \in Date, NEW strategy \in Strategies,
             Submit(items, date, strategy)
      PROVE  RecordsInv'
  BY <1>2, RecordsBetween DEF Submit, databases, RecordsInv
<1>3. CASE Retrieve
  BY <1>3, RecordsQuiet DEF Retrieve, TypeInv, ProgressInv
<1>4. CASE EnterFileTransactions
  BY <1>4, RecordsQuiet DEF EnterFileTransactions, TypeInv, ProgressInv
<1>5. CASE Process
  BY <1>5, RecordsQuiet DEF Process, TypeInv, ProgressInv
<1>6. CASE Upload
  BY <1>6, RecordsQuiet DEF Upload, TypeInv, ProgressInv
<1>7. CASE LeaveFileTransactions
  BY <1>7, RecordsQuiet DEF LeaveFileTransactions, TypeInv, ProgressInv
<1>8. CASE DeleteRemote
  BY <1>8, RecordsQuiet DEF DeleteRemote, TypeInv, ProgressInv
<1>9. CASE DisposeInput
  BY <1>9, RecordsQuiet DEF DisposeInput, TypeInv, ProgressInv
<1>10. CASE AddResult
  BY <1>10, RecordsQuiet DEF AddResult, TypeInv, ProgressInv
<1>11. CASE CommitMapCache
  <2>1. Current' = Current
    BY <1>11 DEF Current, CommitMapCache
  <2>2. QED
    BY <1>11, <2>1 DEF CommitMapCache, RecordsInv
<1>12. CASE Log
  BY <1>12, RecordsBetween DEF Log, databases, RecordsInv
<1>13. CASE RollBack
  BY <1>13, RecordsBetween DEF RollBack
<1>14. CASE Answer
  BY <1>14, RecordsBetween DEF Answer, databases, RecordsInv
<1>15. CASE Crash
  BY <1>15, RecordsBetween DEF Crash
<1>16. CASE RetrieveFails \/ RemoveFails \/ IngestFails \/ UploadFails \/ DisposeFails
  BY <1>16, RecordsQuiet DEF RetrieveFails, RemoveFails, IngestFails, UploadFails, DisposeFails, TypeInv, ProgressInv
<1>17. CASE CommitFails \/ LogFails
  <2>1. PICK kind \in {"commit", "log"} : Fault(kind)
    BY <1>17 DEF CommitFails, LogFails
  <2>2. Range(faults') = Range(faults) \cup {kind}
    BY <2>1, FaultLemma DEF TypeInv, TypeOK
  <2>3. ~Only({"step"})'
    BY <2>2 DEF Only
  <2>4. QED
    BY <1>17, <2>3, RecordsQuiet DEF CommitFails, LogFails
<1>18. QED
  BY <1>1, <1>2, <1>3, <1>4, <1>5, <1>6, <1>7, <1>8, <1>9, <1>10, <1>11, <1>12, <1>13, <1>14, <1>15,
     <1>16, <1>17, DecideRecords, CreateRecords, RemoveRecords, CommitRecords DEF Next, Wait, Exception


-----------------------------------------------------------------------------
(* Images and copies *)

LEMMA InitFiles == Init => FilesInv
BY DEF Init, FilesInv, Committing

\* Merged or replaced is the record found.
LEMMA OldFound ==
  ASSUME TypeInv, Handling, mode # "create"
  PROVE  old # None /\ old.image \in Image
BY DEF TypeInv, TypeOK, ProgressInv, ModeFor, Record

LEMMA FilesQuiet ==
  ASSUME FilesInv, UNCHANGED <<config, images, backup, old, mode, made>>,
         pc' # "process",
         pc' \in {"create", "leave"} \/ Committing' => pc \in {"create", "leave"} \/ Committing,
         pc \in {"process", "upload", "create", "leave"} => pc' \in {"process", "upload", "create", "leave"}
  PROVE  FilesInv'
BY DEF FilesInv, Remote

LEMMA NoBackup ==
  ASSUME backup' = {}, pc' \notin {"process", "create", "leave"}, ~Committing'
  PROVE  FilesInv'
BY DEF FilesInv

LEMMA FilesStep ==
  ASSUME TypeInv, RecordsInv, FilesInv, [Next]_vars
  PROVE  FilesInv'
<1> USE DEF databases, files, progress, Committing
<1>0. Remote' = Remote
  BY DEF Next, vars, Exception, Submit, Wait, Decide, Retrieve, Remove, EnterFileTransactions, Process,
         Upload, Create, LeaveFileTransactions, DeleteRemote, DisposeInput, AddResult, Commit,
         CommitMapCache, Log, RollBack, Answer, RetrieveFails, RemoveFails, IngestFails, UploadFails,
         DisposeFails, CommitFails, LogFails, Crash, Remote
<1>1. CASE UNCHANGED vars
  BY <1>0, <1>1 DEF FilesInv, vars
<1>2. ASSUME NEW items \in Reports, NEW date \in Date, NEW strategy \in Strategies,
             Submit(items, date, strategy)
      PROVE  FilesInv'
  BY <1>2, FilesQuiet DEF Submit
<1>3. CASE Decide
  BY <1>3, NoBackup DEF Decide, FilesInv
<1>4. CASE Retrieve \/ Remove
  BY <1>4, FilesQuiet DEF Retrieve, Remove
<1>5. CASE EnterFileTransactions
  <2>1. Replaced \cup Merging # {} => mode # "create"
    BY DEF Replaced, Merging
  <2>2. Replaced \cup Merging # {} => old # None
    BY <1>5, <2>1, OldFound DEF EnterFileTransactions, Handling
  <2>3. \A image \in Replaced \cup Merging : ~Remote /\ image = old.image
    BY DEF Replaced, Merging
  <2>4. mode = "merge" /\ ~Remote => Merging = {old.image}
    BY DEF Merging
  <2>5. QED
    BY <1>0, <1>5, <2>2, <2>3, <2>4 DEF EnterFileTransactions, FilesInv
<1>6. CASE Process
  BY <1>0, <1>6 DEF Process, FilesInv
<1>7. CASE Upload
  BY <1>0, <1>7 DEF Upload, FilesInv
<1>8. CASE Create
  BY <1>8, FilesQuiet DEF Create
<1>9. CASE LeaveFileTransactions
  BY <1>9 DEF LeaveFileTransactions, FilesInv
<1>10. CASE DeleteRemote
  <2>1. mode \in {"merge", "replace"} => old # None /\ old = db[Current] /\ Current \in Id /\ old.image # made
    BY <1>10, OldFound, CurrentType DEF DeleteRemote, Handling, RecordsInv, Making
  <2>2. QED
    BY <1>10, <2>1 DEF DeleteRemote, FilesInv
<1>11. CASE DisposeInput \/ AddResult \/ Commit \/ CommitMapCache
  BY <1>11, FilesQuiet DEF DisposeInput, AddResult, Commit, CommitMapCache
<1>12. CASE Log \/ RollBack \/ Answer
  BY <1>12, NoBackup DEF Log, RollBack, Answer, FilesInv
<1>13. CASE Crash
  BY <1>13, NoBackup DEF Crash
<1>14. CASE RetrieveFails \/ RemoveFails \/ DisposeFails \/ CommitFails \/ LogFails
  BY <1>14, NoBackup DEF RetrieveFails, RemoveFails, DisposeFails, CommitFails, LogFails, FilesInv
<1>15. CASE IngestFails
  BY <1>15, NoBackup DEF IngestFails, LeaveWithException
<1>16. CASE UploadFails
  BY <1>16, NoBackup DEF UploadFails, FilesInv, TypeInv, ProgressInv
<1>17. QED
  BY <1>1, <1>2, <1>3, <1>4, <1>5, <1>6, <1>7, <1>8, <1>9, <1>10, <1>11, <1>12, <1>13, <1>14, <1>15,
     <1>16 DEF Next, Wait, Exception

-----------------------------------------------------------------------------
(* Damage *)

\* The numbers that are compared.
LEMMA HarmfulNumber ==
  ASSUME TypeOK, TypeOK'
  PROVE  /\ IsFiniteSet(Harmful) /\ Cardinality(Harmful) \in Nat
         /\ IsFiniteSet(Damaged) /\ Cardinality(Damaged) \in Nat
         /\ IsFiniteSet(Harmful') /\ Cardinality(Harmful') \in Nat
         /\ IsFiniteSet(Damaged') /\ Cardinality(Damaged') \in Nat
<1>1. /\ Harmful \subseteq 1 .. Len(faults) /\ Len(faults) \in Nat
      /\ Harmful' \subseteq 1 .. Len(faults') /\ Len(faults') \in Nat
  <2>1. /\ DOMAIN faults = 1 .. Len(faults) /\ Len(faults) \in Nat
        /\ DOMAIN faults' = 1 .. Len(faults') /\ Len(faults') \in Nat
    BY DEF TypeOK
  <2>2. QED
    BY <2>1 DEF Harmful
<1>a. \A n \in Nat : IsFiniteSet(1 .. n)
  BY FS_Interval
<1>2. IsFiniteSet(1 .. Len(faults)) /\ IsFiniteSet(1 .. Len(faults'))
  BY <1>1, <1>a
<1>3. IsFiniteSet(Harmful) /\ IsFiniteSet(Harmful')
  BY <1>1, <1>2, FS_Subset
<1>4. IsFiniteSet(Damaged) /\ IsFiniteSet(Damaged')
  BY FS_Subset, IngestAssumption DEF Damaged
<1>5. QED
  BY <1>3, <1>4, FS_CardinalityType

LEMMA NotMoreDamaged ==
  ASSUME TypeOK, TypeOK', DamageInv, [Next]_vars, Damaged' \subseteq Damaged
  PROVE  DamageInv'
<1>1. Harmful \subseteq Harmful'
  <2>1. CASE UNCHANGED faults
    BY <2>1 DEF Harmful
  <2>2. ASSUME NEW kind, Fault(kind) PROVE Harmful \subseteq Harmful'
    BY <2>2, FaultLemma DEF TypeOK, Harmful
  <2>3. QED
    BY <2>1, <2>2, FaultsStep
<1>2. /\ IsFiniteSet(Harmful') /\ Cardinality(Harmful') \in Nat /\ Cardinality(Harmful) \in Nat
      /\ IsFiniteSet(Damaged) /\ Cardinality(Damaged) \in Nat /\ Cardinality(Damaged') \in Nat
  BY HarmfulNumber
<1>3. Cardinality(Harmful) =< Cardinality(Harmful')
  BY <1>1, <1>2, FS_Subset
<1>4. Cardinality(Damaged') =< Cardinality(Damaged)
  BY <1>2, FS_Subset
<1>5. QED
  BY <1>2, <1>3, <1>4 DEF DamageInv

\* A harmful fault damages one browse at most.
LEMMA OneMoreDamaged ==
  ASSUME TypeOK, TypeOK', DamageInv, NEW kind \in {"input", "commit", "crash"}, Fault(kind),
         NEW c, Damaged' \subseteq Damaged \cup {c}
  PROVE  DamageInv'
<1>1. Harmful' = Harmful \cup {Len(faults')} /\ Len(faults') \notin Harmful
  BY FaultLemma DEF TypeOK, Harmful
<1>2. /\ IsFiniteSet(Harmful) /\ Cardinality(Harmful) \in Nat
      /\ IsFiniteSet(Damaged) /\ Cardinality(Damaged) \in Nat /\ Cardinality(Damaged') \in Nat
  BY HarmfulNumber
<1>3. Cardinality(Harmful') = Cardinality(Harmful) + 1
  BY <1>1, <1>2, FS_AddElement
<1>4. /\ IsFiniteSet(Damaged \cup {c})
      /\ Cardinality(Damaged \cup {c}) \in {Cardinality(Damaged), Cardinality(Damaged) + 1}
  BY <1>2, FS_AddElement
<1>5. Cardinality(Damaged') =< Cardinality(Damaged \cup {c})
  BY <1>4, FS_Subset
<1>6. QED
  BY <1>2, <1>3, <1>4, <1>5 DEF DamageInv

\* The steps that leave the databases alone, and the images of records.
LEMMA DamageQuiet ==
  ASSUME UNCHANGED <<db, times>>, Committing => Committing' /\ Current' = Current,
         \A id \in Id : db[id] # None /\ ~(Committing' /\ id = Current')
           /\ db[id].image \in images \cup backup => db[id].image \in images' \cup backup'
  PROVE  Damaged' \subseteq Damaged
BY DEF Damaged, Kept

LEMMA OtherImages ==
  ASSUME TypeInv, RecordsInv, Making, NEW id \in Id, db[id] # None
  PROVE  /\ db[id].image # made
         /\ id # Current /\ old # None => db[id].image # old.image
BY CurrentType DEF RecordsInv, Making, Handling

LEMMA CommitDamage ==
  ASSUME TypeInv, RecordsInv, Commit
  PROVE  Damaged' \subseteq Damaged
<1> USE DEF Commit, files, progress, Committing
<1>1. Current' = Current
  BY DEF Current
<1>2. CASE mode = "skip"
  BY <1>1, <1>2 DEF RecordsInv, Damaged, Kept
<1>3. CASE mode # "skip"
  <2>1. \A id \in Id : id # Current => db'[id] = db[id]
    BY DEF RecordsInv, Handling
  <2>2. \A id \in Id : id # Current => Kept(id)' = Kept(id)
    BY <2>1 DEF Kept
  <2>3. QED
    BY <1>1, <1>3, <2>2 DEF Damaged
<1>4. QED
  BY <1>2, <1>3

\* With the commit of its time span the browse is sound.
LEMMA CommitMapCacheDamage ==
  ASSUME TypeInv, RecordsInv, FilesInv, CommitMapCache
  PROVE  Damaged' \subseteq Damaged
<1> USE DEF CommitMapCache, files, progress, Committing
<1>1. ~Committing' /\ tx = db
  BY DEF RecordsInv
<1>2. CASE mode = "skip"
  BY <1>1, <1>2 DEF RecordsInv, Damaged, Kept
<1>3. CASE mode # "skip"
  <2>1. PICK c \in Id : c = Current
    BY CurrentType DEF Handling
  <2>2. \A id \in Id : id # c => times'[id] = times[id]
    BY <2>1 DEF RecordsInv, Handling
  <2>3. \A id \in Id : id # c => Kept(id)' = Kept(id)
    BY <2>2 DEF Kept
  <2>4. db[c] = New /\ times'[c] = made /\ made \in images /\ New.image = made /\ made \in Image
    BY <1>1, <1>3, <2>1 DEF RecordsInv, FilesInv, New, TypeInv, ProgressInv, Handling
  <2>5. New \in Record
    BY <2>4 DEF New, Record, TypeInv, TypeOK
  <2>6. New # None
    BY <2>5, NoneAssumption
  <2>7. Kept(c)'
    BY <2>4, <2>6 DEF Kept
  <2>8. QED
    BY <1>1, <1>3, <2>1, <2>3, <2>7 DEF Damaged
<1>4. QED
  BY <1>2, <1>3

\* A crash, or an exception too late to undo the ingestion.
LEMMA TooLate ==
  ASSUME TypeInv, RecordsInv, FilesInv, Crash \/ DisposeFails \/ CommitFails
  PROVE  Damaged' \subseteq Damaged \cup {Current}
<1> USE DEF files, databases
<1>1. ~Committing' /\ UNCHANGED <<db, times, images>> /\ (backup' = {} \/ UNCHANGED backup)
  BY DEF Crash, DisposeFails, CommitFails, Committing
<1>2. ASSUME NEW id \in Id, id # Current, db[id] # None, db[id].image \in backup
      PROVE  FALSE
  <2>1. Making /\ old # None /\ db[id].image = old.image
    BY <1>2 DEF FilesInv, Making
  <2>2. QED
    BY <1>2, <2>1, OtherImages
<1>3. \A id \in Id : id # Current /\ Kept(id) => Kept(id)'
  BY <1>1, <1>2 DEF Kept
<1>4. QED
  BY <1>3 DEF Damaged


LEMMA DamageStep ==
  ASSUME TypeInv, RecordsInv, FilesInv, DamageInv, [Next]_vars
  PROVE  DamageInv'
<1> USE DEF databases, files, progress, Committing
<1>a. TypeOK /\ TypeOK'
  BY TypeStep DEF TypeInv
<1>b. ASSUME UNCHANGED <<db, times>>, ~Committing,
             \A id \in Id : db[id] # None /\ db[id].image \in images \cup backup
                              => db[id].image \in images' \cup backup'
      PROVE  DamageInv'
  BY <1>a, <1>b, DamageQuiet, NotMoreDamaged
<1>1. CASE UNCHANGED vars
  <2>1. Current' = Current /\ (Committing' <=> Committing)
    BY <1>1 DEF vars, Current
  <2>2. QED
    BY <1>a, <1>1, <2>1, DamageQuiet, NotMoreDamaged DEF vars
<1>2. ASSUME NEW items \in Reports, NEW date \in Date, NEW strategy \in Strategies,
             Submit(items, date, strategy)
      PROVE  DamageInv'
  BY <1>2, <1>b DEF Submit
<1>3. CASE Decide \/ Retrieve \/ Remove
  BY <1>3, <1>b DEF Decide, Retrieve, Remove
<1>4. CASE EnterFileTransactions
  BY <1>4, <1>b DEF EnterFileTransactions, FilesInv
<1>5. CASE Process
  <2>1. ASSUME NEW image \in images, image \in Merging, ~Remote, Mergeable
        PROVE  image \in backup
    BY <1>5, <2>1 DEF Process, Merging, FilesInv
  <2>2. QED
    BY <1>5, <1>b, <2>1 DEF Process
<1>6. CASE Upload \/ Create
  BY <1>6, <1>b DEF Upload, Create
<1>7. CASE LeaveFileTransactions
  <2>1. ASSUME NEW id \in Id, db[id] # None, id # Current, db[id].image \in backup
        PROVE  FALSE
    BY <1>7, <2>1, OtherImages DEF LeaveFileTransactions, FilesInv, Making
  <2>2. Current' = Current
    BY <1>7 DEF Current, LeaveFileTransactions
  <2>3. Damaged' \subseteq Damaged
    BY <1>7, <2>1, <2>2, DamageQuiet DEF LeaveFileTransactions
  <2>4. QED
    BY <1>a, <2>3, NotMoreDamaged
<1>8. CASE DeleteRemote
  <2>1. Current' = Current
    BY <1>8 DEF Current, DeleteRemote
  <2>2. images' = images \/ (images' = images \ {old.image} /\ mode # "create")
    BY <1>8 DEF DeleteRemote
  <2>3. mode # "create" => old # None
    BY <1>8, OldFound DEF DeleteRemote, Handling
  <2>4. \A id \in Id : db[id] # None /\ id # Current /\ db[id].image \in images \cup backup
                         => db[id].image \in images' \cup backup'
    BY <1>8, <2>2, <2>3, OtherImages DEF DeleteRemote, Making
  <2>5. Damaged' \subseteq Damaged
    BY <1>8, <2>1, <2>4, DamageQuiet DEF DeleteRemote
  <2>6. QED
    BY <1>a, <2>5, NotMoreDamaged
<1>9. CASE DisposeInput \/ AddResult
  <2>1. Current' = Current
    BY <1>9 DEF Current, DisposeInput, AddResult
  <2>2. Committing => Committing'
    BY <1>9 DEF DisposeInput, AddResult, TypeInv, ProgressInv, Making
  <2>3. Damaged' \subseteq Damaged
    BY <1>9, <2>1, <2>2, DamageQuiet DEF DisposeInput, AddResult
  <2>4. QED
    BY <1>a, <2>3, NotMoreDamaged
<1>10. CASE Commit \/ CommitMapCache
  BY <1>a, <1>10, CommitDamage, CommitMapCacheDamage, NotMoreDamaged
<1>11. CASE Log \/ RollBack \/ Answer
  BY <1>11, <1>b DEF Log, RollBack, Answer
<1>12. CASE RetrieveFails \/ RemoveFails \/ UploadFails \/ LogFails
  BY <1>12, <1>b DEF RetrieveFails, RemoveFails, UploadFails, LogFails
<1>13. CASE IngestFails
  <2>1. \A id \in Id : db[id] # None => db[id].image # made
    BY <1>13, OtherImages DEF IngestFails, Making
  <2>2. QED
    BY <1>13, <1>b, <2>1 DEF IngestFails, LeaveWithException
<1>14. CASE Crash \/ DisposeFails \/ CommitFails
  <2>1. PICK kind \in {"input", "commit", "crash"} : Fault(kind)
    BY <1>14 DEF Crash, DisposeFails, CommitFails
  <2>2. QED
    BY <1>a, <1>14, <2>1, TooLate, OneMoreDamaged
<1>15. QED
  BY <1>1, <1>2, <1>3, <1>4, <1>5, <1>6, <1>7, <1>8, <1>9, <1>10, <1>11, <1>12, <1>13, <1>14
     DEF Next, Wait, Exception

LEMMA InitDamage == Init => DamageInv
<1>1. SUFFICES ASSUME Init PROVE DamageInv
  OBVIOUS
<1>2. Damaged = {} /\ Harmful = {}
  BY <1>1 DEF Init, Damaged, Harmful, Kept
<1>3. QED
  BY <1>2, FS_EmptySet DEF DamageInv

\* Between two browses there are no copies.
LEMMA DamageBounded ==
  ASSUME TypeInv, FilesInv, DamageInv
  PROVE  BoundedDamage
<1>1. SUFFICES ASSUME Between PROVE Cardinality({ id \in Id : ~Sound(id) }) =< Cardinality(Harmful)
  BY DEF BoundedDamage, Harmful
<1>2. backup = {} /\ ~Committing
  BY <1>1 DEF FilesInv, Between, Committing
<1>3. \A id \in Id : Kept(id) <=> Sound(id)
  BY <1>2 DEF Kept, Sound
<1>4. Damaged = { id \in Id : ~Sound(id) }
  BY <1>2, <1>3 DEF Damaged
<1>5. QED
  BY <1>4 DEF DamageInv

-----------------------------------------------------------------------------
(* Images that are not needed any more *)

LEMMA InitStray == Init => StrayInv
BY DEF Init, StrayInv, HasNew, Committing, Owned

\* The steps that leave records and images alone.
LEMMA StrayQuiet ==
  ASSUME StrayInv, TypeInv, [Next]_vars, UNCHANGED <<config, db, images, local>>,
         HasNew => HasNew' /\ UNCHANGED <<old, made>>, HasNew' => HasNew,
         pc' # "process"
  PROVE  StrayInv'
<1>1. Owned' = Owned
  BY DEF Owned
<1>2. HasNew => OldImage' = OldImage
  BY DEF OldImage
<1>3. QED
  BY <1>1, <1>2, OnlyBefore DEF StrayInv, Remote, TypeInv

LEMMA CommitStray ==
  ASSUME TypeInv, RecordsInv, StrayInv, Commit
  PROVE  StrayInv'
<1> USE DEF Commit, files, progress, Committing
<1>1. ~HasNew' /\ Only({"step", "log"})' = Only({"step", "log"}) /\ Remote' = Remote
  BY DEF HasNew, Only, Remote
<1>2. CASE mode = "skip"
  <2>1. Owned' = Owned /\ ~HasNew
    BY <1>2 DEF Owned, RecordsInv, HasNew
  <2>2. QED
    BY <1>1, <2>1 DEF StrayInv
<1>3. CASE mode # "skip"
  <2>1. PICK c \in Id : c = Current
    BY CurrentType DEF Handling
  <2>2. /\ tx[c] = New /\ New.image = made /\ made \in Image /\ old = db[c] /\ HasNew
        /\ \A id \in Id : id # c => tx[id] = db[id]
    BY <1>3, <2>1 DEF RecordsInv, New, TypeInv, ProgressInv, Handling, HasNew
  <2>3. New \in Record
    BY <2>2 DEF New, Record, TypeInv, TypeOK
  <2>4. New # None
    BY <2>3, NoneAssumption
  <2>5. made \in Owned'
    BY <2>2, <2>4 DEF Owned
  <2>6. Owned \ OldImage \subseteq Owned'
    <3>1. ASSUME NEW id \in Id, db[id] # None, db[id].image \notin OldImage
          PROVE  db[id].image \in Owned'
      <4>1. id # c
        BY <2>2, <3>1 DEF OldImage
      <4>2. db'[id] = db[id]
        BY <2>2, <4>1
      <4>3. QED
        BY <3>1, <4>2 DEF Owned
    <3>2. QED
      BY <3>1 DEF Owned
  <2>7. QED
    BY <1>1, <2>2, <2>5, <2>6 DEF StrayInv
<1>4. QED
  BY <1>2, <1>3


\* After a fault of another kind nothing is claimed but that there are no local images.
LEMMA NotOnly ==
  ASSUME TypeOK, NEW kinds, NEW kind, kind \notin kinds, Fault(kind)
  PROVE  ~Only(kinds)'
BY FaultLemma DEF Only, TypeOK

LEMMA StrayStep ==
  ASSUME TypeInv, RecordsInv, FilesInv, StrayInv, [Next]_vars
  PROVE  StrayInv'
<1> USE DEF databases, files, progress, HasNew, Committing
<1>a. Only({"step", "log"})' => Only({"step", "log"})
  BY OnlyBefore DEF TypeInv
<1>1. CASE UNCHANGED vars
  <2>1. Owned' = Owned /\ OldImage' = OldImage
    BY <1>1 DEF Owned, OldImage, vars
  <2>2. QED
    BY <1>a, <1>1, <2>1 DEF StrayInv, Remote, vars
<1>2. ASSUME NEW items \in Reports, NEW date \in Date, NEW strategy \in Strategies,
             Submit(items, date, strategy)
      PROVE  StrayInv'
  BY <1>2, StrayQuiet DEF Submit
<1>3. CASE Decide \/ Retrieve \/ Remove
  BY <1>3, StrayQuiet DEF Decide, Retrieve, Remove
<1>4. CASE EnterFileTransactions
  <2>1. Owned' = Owned /\ Remote' = Remote
    BY <1>4 DEF EnterFileTransactions, Owned, Remote
  <2>2. mode = "replace" /\ ~Remote => Replaced = {old.image}
    BY DEF Replaced
  <2>3. images' \subseteq images /\ (mode = "replace" /\ ~Remote => old.image \notin images')
    BY <1>4, <2>2 DEF EnterFileTransactions
  <2>4. QED
    BY <1>a, <1>4, <2>1, <2>3 DEF EnterFileTransactions, StrayInv
<1>5. CASE Process
  <2>1. Owned' = Owned /\ Remote' = Remote /\ OldImage' = OldImage
    BY <1>5 DEF Process, Owned, Remote, OldImage
  <2>2. SUFFICES ASSUME ~Remote PROVE StrayInv'
    BY <2>1 DEF StrayInv
  <2>3. mode = "create" => old = None
    BY <1>5 DEF Process, TypeInv, ProgressInv, ModeFor, Handling
  <2>4. mode \in {"create", "merge", "replace"}
    BY <1>5 DEF Process, TypeInv, TypeOK, ProgressInv, Making
  <2>5. ASSUME Only({"step", "log"}) PROVE images \ Merging \subseteq Owned \ OldImage
    BY <1>5, <2>2, <2>3, <2>4, <2>5 DEF Process, StrayInv, Merging, OldImage
  <2>6. images' = (images \ Merging) \cup {made} /\ UNCHANGED <<local, made>> /\ pc' = "create"
    BY <1>5, <2>2 DEF Process
  <2>7. QED
    BY <1>a, <2>1, <2>2, <2>5, <2>6 DEF StrayInv
<1>6. CASE Upload \/ UploadFails
  <2>1. Remote'
    BY <1>6 DEF Upload, UploadFails, Remote, TypeInv, ProgressInv
  <2>2. QED
    BY <2>1 DEF StrayInv
<1>7. CASE Create \/ LeaveFileTransactions
  BY <1>7, StrayQuiet DEF Create, LeaveFileTransactions
<1>8. CASE DeleteRemote
  <2>1. CASE Remote'
    BY <2>1 DEF StrayInv
  <2>2. CASE ~Remote'
    <3>1. UNCHANGED images
      BY <1>8, <2>2 DEF DeleteRemote, Remote
    <3>2. QED
      BY <1>8, <3>1, StrayQuiet DEF DeleteRemote
  <2>3. QED
    BY <2>1, <2>2
<1>9. CASE DisposeInput \/ AddResult
  <2>1. HasNew' <=> HasNew
    BY <1>9 DEF DisposeInput, AddResult, TypeInv, ProgressInv, Making
  <2>2. QED
    BY <1>9, <2>1, StrayQuiet DEF DisposeInput, AddResult
<1>10. CASE CommitMapCache \/ Log \/ RollBack \/ Answer \/ RetrieveFails \/ RemoveFails \/ LogFails
  BY <1>10, StrayQuiet DEF CommitMapCache, Log, RollBack, Answer, RetrieveFails, RemoveFails, LogFails
<1>11. CASE Crash \/ DisposeFails \/ CommitFails
  <2>1. PICK kind \in {"input", "commit", "crash"} : Fault(kind)
    BY <1>11 DEF Crash, DisposeFails, CommitFails
  <2>2. ~Only({"step", "log"})'
    BY <2>1, NotOnly DEF TypeInv
  <2>3. Remote' = Remote /\ UNCHANGED local
    BY <1>11 DEF Crash, DisposeFails, CommitFails, Remote
  <2>4. QED
    BY <2>2, <2>3 DEF StrayInv
<1>12. CASE IngestFails
  <2>1. /\ Remote' = Remote /\ Owned' = Owned /\ ~HasNew' /\ pc' = "rollback" /\ local' = local \ {made}
        /\ ~Remote => images' = (images \ {made}) \cup backup
    BY <1>12 DEF IngestFails, LeaveWithException, Remote, Owned
  <2>2. backup \subseteq Owned
    BY <1>12, CurrentType DEF IngestFails, FilesInv, RecordsInv, Making, Handling, Owned
  <2>3. ~Remote /\ Only({"step", "log"}) => images \ {made} \subseteq Owned
    BY DEF StrayInv
  <2>4. QED
    BY <1>a, <2>1, <2>2, <2>3 DEF StrayInv
<1>13. QED
  BY <1>1, <1>2, <1>3, <1>4, <1>5, <1>6, <1>7, <1>8, <1>9, <1>10, <1>11, <1>12, CommitStray
     DEF Next, Wait, Exception

LEMMA NoneStray ==
  ASSUME FilesInv, StrayInv
  PROVE  NoStrayFiles
<1>1. SUFFICES ASSUME Between, ~Remote, Only({"step", "log"})
               PROVE  /\ \A image \in images : \E id \in Id : db[id] # None /\ db[id].image = image
                      /\ local = {} /\ backup = {}
  BY DEF NoStrayFiles
<1>2. backup = {} /\ ~HasNew
  BY <1>1 DEF Between, FilesInv, HasNew, Committing
<1>3. local = {} /\ images \subseteq Owned
  BY <1>1, <1>2 DEF StrayInv
<1>4. QED
  BY <1>2, <1>3 DEF Owned

-----------------------------------------------------------------------------
(* Results and input images *)

LEMMA InitResult == Init => ResultInv
BY DEF Init, ResultInv, Finished


AnswerInv == ResultInv /\ InputKept

\* One more result, about the browse that is being ingested.
LEMMA AppendResult ==
  ASSUME TypeInv, NEW outcome \in {"success", "skipped", "failure"}
  PROVE  LET r == Append(result, Outcome(outcome)) IN
         /\ Len(r) = Len(result) + 1 /\ Len(result) \in Nat /\ r # <<>>
         /\ DOMAIN r = DOMAIN result \cup {Len(result) + 1}
         /\ r[Len(result) + 1] = Outcome(outcome)
         /\ \A k \in DOMAIN result : r[k] = result[k] /\ result[k].browse \in Nat
         /\ Outcome(outcome).browse = pos /\ Outcome(outcome).outcome = outcome
<1>1. /\ result \in Seq([browse : Nat, outcome : {"success", "skipped", "failure"}])
      /\ Outcome(outcome) \in [browse : Nat, outcome : {"success", "skipped", "failure"}]
  BY OutcomeType DEF TypeInv, TypeOK
<1>2. PICK o : o = Outcome(outcome)
  OBVIOUS
<1>3. o \in [browse : Nat, outcome : {"success", "skipped", "failure"}] /\ o.browse = pos /\ o.outcome = outcome
  BY <1>1, <1>2 DEF Outcome
<1>4. /\ Len(Append(result, o)) = Len(result) + 1 /\ Len(result) \in Nat /\ Append(result, o) # <<>>
      /\ DOMAIN result = 1 .. Len(result) /\ DOMAIN Append(result, o) = 1 .. Len(result) + 1
      /\ Append(result, o)[Len(result) + 1] = o
      /\ \A k \in 1 .. Len(result) : Append(result, o)[k] = result[k]
  BY <1>1, <1>3
<1>5. ASSUME NEW k \in DOMAIN result PROVE result[k].browse \in Nat
  <2>1. result[k] \in [browse : Nat, outcome : {"success", "skipped", "failure"}]
    BY <1>1, <1>4, ElementOfSeq
  <2>2. QED
    BY <2>1
<1>6. 1 .. Len(result) + 1 = (1 .. Len(result)) \cup {Len(result) + 1}
  BY <1>4
<1>7. QED
  BY <1>2, <1>3, <1>4, <1>5, <1>6

\* The steps that leave results and input images alone.
LEMMA ResultQuiet ==
  ASSUME AnswerInv, TypeInv, [Next]_vars, UNCHANGED <<result, input, pos>>,
         pc' # "commit",
         Making' \/ pc' = "decide" => Making \/ pc = "decide",
         pc \in {"commit", "commit_mapcache", "log"} =>
           \/ pc' \in {"commit_mapcache", "log"}
           \/ pc' = "rollback" /\ ~Only({"step", "input"})' /\ ~Only({"step", "input", "crash"})',
         pc \notin {"commit", "commit_mapcache", "log"} =>
           \/ pc' \notin {"commit", "commit_mapcache", "log", "rollback"} /\ pc # "rollback"
           \/ pc' = "rollback" /\ Making
  PROVE  AnswerInv'
<1>1. \A kinds : Only(kinds)' => Only(kinds)
  BY OnlyBefore DEF TypeInv
<1>2. InputKept'
  BY <1>1 DEF AnswerInv, InputKept
<1>3. pos \in Nat
  BY DEF TypeInv, TypeOK
<1>4. Making => pos \in DOMAIN input
  BY CurrentType DEF Making, Handling
<1>5. pc' = "rollback" /\ Only({"step", "input"})' => input[pos] \in {"storage", "failure"}
  BY <1>3, <1>4 DEF AnswerInv, ResultInv
<1>6. Finished' = Finished \/ ~Only({"step", "input", "crash"})'
  BY DEF Finished
<1>7. QED
  BY <1>1, <1>2, <1>5, <1>6 DEF AnswerInv, ResultInv

\* An exception before the commit: the input image is moved away, or not.
LEMMA MovedInput ==
  ASSUME TypeInv, AnswerInv, [Next]_vars, Making, UNCHANGED <<report, result, pos>>, pc' = "rollback",
         MoveInputToFailure
  PROVE  AnswerInv'
<1>1. PICK place \in {"storage", "failure"} : input' = [input EXCEPT ![pos] = place]
  BY MoveInputType DEF Making, Handling
<1>2. /\ pos \in DOMAIN input /\ DOMAIN input = 1 .. Len(report.items) /\ Len(report.items) \in Nat
      /\ DOMAIN input' = DOMAIN input
      /\ \A k \in DOMAIN input : input'[k] = IF k = pos THEN place ELSE input[k]
  BY <1>1, CurrentType, InputType DEF Making, Handling, Place
<1>3. \A kinds : Only(kinds)' => Only(kinds)
  BY OnlyBefore DEF TypeInv
<1>4. pos \in Nat
  BY DEF TypeInv, TypeOK
<1>5. \A k \in DOMAIN result : result[k].browse \in DOMAIN input
  BY <1>2, <1>4 DEF AnswerInv, ResultInv
<1>6. InputKept'
  BY <1>2, <1>3, <1>5 DEF AnswerInv, InputKept
<1>7. ResultInv'
  BY <1>2, <1>3, <1>4 DEF AnswerInv, ResultInv, Finished, Making
<1>8. QED
  BY <1>6, <1>7 DEF AnswerInv

LEMMA DisposeResult ==
  ASSUME TypeInv, AnswerInv, DisposeInput
  PROVE  AnswerInv'
<1> USE DEF DisposeInput, progress
<1>1. PICK place \in Place : input' = [input EXCEPT ![pos] = place]
  BY DisposeType
<1>2. /\ pos \in DOMAIN input /\ DOMAIN input = 1 .. Len(report.items) /\ Len(report.items) \in Nat
      /\ DOMAIN input' = DOMAIN input
      /\ \A k \in DOMAIN input : k # pos => input'[k] = input[k]
  BY <1>1, CurrentType, InputType DEF Handling
<1>3. \A kinds : Only(kinds)' = Only(kinds)
  BY DEF Only
<1>4. pos \in Nat
  BY DEF TypeInv, TypeOK
<1>5. \A k \in DOMAIN result : result[k].browse \in DOMAIN input /\ result[k].browse # pos
  BY <1>2, <1>4 DEF AnswerInv, ResultInv
<1>6. InputKept'
  BY <1>2, <1>3, <1>5 DEF AnswerInv, InputKept
<1>7. ResultInv'
  BY <1>2, <1>3, <1>4 DEF AnswerInv, ResultInv, Finished, Making
<1>8. QED
  BY <1>6, <1>7 DEF AnswerInv

LEMMA AddResultResult ==
  ASSUME TypeInv, AnswerInv, AddResult
  PROVE  AnswerInv'
<1> USE DEF AddResult, databases, files
<1> DEFINE outcome == IF mode = "skip" THEN "skipped" ELSE "success"
<1>1. result' = Append(result, Outcome(outcome))
  OBVIOUS
<1>2. PICK o \in {"success", "skipped"} : o = outcome
  OBVIOUS
<1>3. /\ Len(result') = Len(result) + 1 /\ Len(result) \in Nat /\ result' # <<>>
      /\ DOMAIN result' = DOMAIN result \cup {Len(result) + 1}
      /\ result'[Len(result) + 1] = Outcome(o)
      /\ \A k \in DOMAIN result : result'[k] = result[k] /\ result[k].browse \in Nat
      /\ Outcome(o).browse = pos /\ Outcome(o).outcome = o
  BY <1>1, <1>2, AppendResult
<1>4. \A kinds : Only(kinds)' = Only(kinds)
  BY DEF Only
<1>5. pos \in Nat /\ pos > 0
  BY DEF TypeInv, TypeOK, ProgressInv, Handling
<1>6. InputKept'
  BY <1>3, <1>4 DEF AnswerInv, InputKept
<1>7. result'[Len(result')] = Outcome(IF mode = "skip" THEN "skipped" ELSE "success")'
  BY <1>2, <1>3 DEF Outcome
<1>8. ResultInv'
  <2>1. \A k \in DOMAIN result' : result'[k].browse \in 1 .. pos
    BY <1>3, <1>5 DEF AnswerInv, ResultInv
  <2>2. Only({"step", "input", "crash"})' => Len(result') = Finished'
    BY <1>3, <1>4, <1>5 DEF AnswerInv, ResultInv, Finished
  <2>3. \A k \in DOMAIN input' : k > pos' => input'[k] = "storage"
    BY DEF AnswerInv, ResultInv
  <2>4. QED
    BY <1>3, <1>7, <2>1, <2>2, <2>3 DEF ResultInv, Making
<1>9. QED
  BY <1>6, <1>8 DEF AnswerInv

\* The failure is added for the browse that failed.
LEMMA RollBackResult ==
  ASSUME TypeInv, AnswerInv, RollBack
  PROVE  AnswerInv'
<1> USE DEF RollBack, files
<1>1. /\ Len(result') = Len(result) + 1 /\ Len(result) \in Nat
      /\ DOMAIN result' = DOMAIN result \cup {Len(result) + 1}
      /\ result'[Len(result) + 1] = Outcome("failure")
      /\ \A k \in DOMAIN result : result'[k] = result[k] /\ result[k].browse \in Nat
      /\ Outcome("failure").browse = pos /\ Outcome("failure").outcome = "failure"
  BY AppendResult
<1>2. \A kinds : Only(kinds)' = Only(kinds)
  BY DEF Only
<1>3. pos \in Nat /\ pos > 0
  BY DEF TypeInv, TypeOK, ProgressInv, Handling
<1>4. Only({"step", "input"}) => input[pos] \in {"storage", "failure"}
  BY DEF AnswerInv, ResultInv
<1>5. InputKept'
  BY <1>1, <1>2, <1>4 DEF AnswerInv, InputKept
<1>6. \A k \in DOMAIN result' : result'[k].browse \in 1 .. pos
  BY <1>1, <1>3 DEF AnswerInv, ResultInv
<1>7. \A k \in DOMAIN result' : result'[k].browse \in 1 .. pos' /\ result'[k].browse < pos'
  BY <1>3, <1>6
<1>8. \A k \in DOMAIN input' : k >= pos' => input'[k] = "storage"
  <2>1. \A k \in DOMAIN input : k \in Nat
    BY CurrentType DEF Handling
  <2>2. QED
    BY <1>3, <2>1 DEF AnswerInv, ResultInv
<1>9. Only({"step", "input", "crash"})' => Len(result') = Finished'
  BY <1>1, <1>2, <1>3 DEF AnswerInv, ResultInv, Finished
<1>10. \A k \in DOMAIN input' : k > pos' => input'[k] = "storage"
  BY <1>3, <1>8, CurrentType DEF Handling
<1>11. ResultInv'
  BY <1>7, <1>8, <1>9, <1>10 DEF ResultInv
<1>12. QED
  BY <1>5, <1>11 DEF AnswerInv

LEMMA LogResult ==
  ASSUME TypeInv, AnswerInv, Log
  PROVE  AnswerInv'
<1> USE DEF Log, databases, files
<1>1. \A kinds : Only(kinds)' = Only(kinds)
  BY DEF Only
<1>2. pos \in Nat /\ \A k \in DOMAIN input : k \in Nat
  BY CurrentType DEF TypeInv, TypeOK, Handling
<1>3. \A k \in DOMAIN result : result[k].browse \in 1 .. pos
  BY DEF AnswerInv, ResultInv
<1>4. \A k \in DOMAIN result' : result'[k].browse \in 1 .. pos' /\ result'[k].browse < pos'
  BY <1>2, <1>3
<1>5. \A k \in DOMAIN input' : k >= pos' => input'[k] = "storage"
  BY <1>2 DEF AnswerInv, ResultInv
<1>6. Only({"step", "input", "crash"})' => Len(result') = Finished'
  BY <1>1, <1>2 DEF AnswerInv, ResultInv, Finished
<1>7. \A k \in DOMAIN input' : k > pos' => input'[k] = "storage"
  BY <1>2, <1>5
<1>8. InputKept'
  BY <1>1 DEF AnswerInv, InputKept
<1>9. ResultInv'
  BY <1>4, <1>5, <1>6, <1>7 DEF ResultInv
<1>10. QED
  BY <1>8, <1>9 DEF AnswerInv

LEMMA ResultStep ==
  ASSUME TypeInv, AnswerInv, [Next]_vars
  PROVE  AnswerInv'
<1> USE DEF databases, files, progress, Making
<1>a. \A kinds : Only(kinds)' => Only(kinds)
  BY OnlyBefore DEF TypeInv
<1>1. CASE UNCHANGED vars
  <2>1. Finished' = Finished /\ Outcome(IF mode = "skip" THEN "skipped" ELSE "success")' = Outcome(IF mode = "skip" THEN "skipped" ELSE "success")
    BY <1>1 DEF Finished, Outcome, vars
  <2>2. QED
    BY <1>a, <1>1, <2>1 DEF AnswerInv, ResultInv, InputKept, vars
<1>2. ASSUME NEW items \in Reports, NEW date \in Date, NEW strategy \in Strategies,
             Submit(items, date, strategy)
      PROVE  AnswerInv'
  <2>1. /\ result' = <<>> /\ pos' = 1 /\ pc' = "decide" /\ DOMAIN result' = {} /\ Len(result') = 0
        /\ \A k \in DOMAIN input' : input'[k] = "storage"
    BY <1>2 DEF Submit
  <2>2. QED
    BY <2>1 DEF AnswerInv, ResultInv, InputKept, Finished
<1>3. CASE Decide \/ Retrieve \/ Remove \/ EnterFileTransactions \/ Process \/ Upload \/ Create
           \/ LeaveFileTransactions \/ DeleteRemote
  BY <1>3, ResultQuiet DEF Decide, Retrieve, Remove, EnterFileTransactions, Process, Upload, Create,
     LeaveFileTransactions, DeleteRemote
<1>4. CASE Commit \/ CommitMapCache
  BY <1>4, ResultQuiet DEF Commit, CommitMapCache
<1>5. CASE Answer \/ Crash
  <2>1. /\ result' = <<>> /\ pos' = 1 /\ pc' = "idle" /\ input' = <<>>
        /\ DOMAIN result' = {} /\ Len(result') = 0 /\ DOMAIN input' = {}
    BY <1>5 DEF Answer, Crash
  <2>2. QED
    BY <2>1 DEF AnswerInv, ResultInv, InputKept, Finished
<1>6. CASE RetrieveFails \/ DisposeFails
  BY <1>6, ResultQuiet DEF RetrieveFails, DisposeFails
<1>7. CASE CommitFails \/ LogFails
  <2>1. PICK kind \in {"commit", "log"} : Fault(kind)
    BY <1>7 DEF CommitFails, LogFails
  <2>2. ~Only({"step", "input"})' /\ ~Only({"step", "input", "crash"})'
    BY <2>1, NotOnly DEF TypeInv
  <2>3. QED
    BY <1>7, <2>2, ResultQuiet DEF CommitFails, LogFails
<1>8. CASE RemoveFails \/ IngestFails \/ UploadFails
  BY <1>8, MovedInput DEF RemoveFails, IngestFails, UploadFails
<1>9. QED
  BY <1>1, <1>2, <1>3, <1>4, <1>5, <1>6, <1>7, <1>8, DisposeResult, AddResultResult, RollBackResult,
     LogResult DEF Next, Wait, Exception


-----------------------------------------------------------------------------
(* Theorems *)

IInv == TypeInv /\ RecordsInv /\ FilesInv /\ DamageInv /\ StrayInv /\ AnswerInv

\* The inductive invariant.
LEMMA Inductive == Spec => []IInv
<1>1. Init => IInv
  BY InitType, InitRecords, InitFiles, InitDamage, InitStray, InitResult DEF IInv, AnswerInv, Init, InputKept
<1>2. IInv /\ [Next]_vars => IInv'
  BY TypeStep, RecordsStep, FilesStep, DamageStep, StrayStep, ResultStep DEF IInv
<1>3. QED
  BY <1>1, <1>2, PTL DEF Spec

\* Everything is a value of its kind, and the ingestion of a browse is where it can be.
THEOREM Typing == Spec => [](TypeOK /\ ProgressInv)
<1>1. IInv => TypeOK /\ ProgressInv
  BY DEF IInv, TypeInv
<1>2. QED
  BY <1>1, Inductive, PTL

\* However many reports, browses and faults: between two browses no more of them are
\* damaged than commits failed, input images could not be deleted and processes died.
THEOREM DamageIsBounded == Spec => []BoundedDamage
<1>1. IInv => BoundedDamage
  BY DamageBounded DEF IInv
<1>2. QED
  BY <1>1, Inductive, PTL

\* The input image of a browse that failed is kept.
THEOREM InputImagesKept == Spec => []InputKept
<1>1. IInv => InputKept
  BY DEF IInv, AnswerInv
<1>2. QED
  BY <1>1, Inductive, PTL

\* Without Swift, failures leave no files behind.
THEOREM NoFilesLeft == Spec => []NoStrayFiles
<1>1. IInv => NoStrayFiles
  BY NoneStray DEF IInv
<1>2. QED
  BY <1>1, Inductive, PTL

\* Without a harmful fault nothing is damaged.
LEMMA Undamaged ==
  ASSUME IInv, Only({"step"}), ~Committing, backup = {}, NEW id \in Id
  PROVE  Sound(id)
<1>1. TypeOK
  BY DEF IInv, TypeInv
<1>2. Harmful = {}
  BY <1>1 DEF Harmful, Only, Range
<1>3. Cardinality(Damaged) \in Nat /\ IsFiniteSet(Damaged)
  <2>1. IsFiniteSet(Damaged)
    BY FS_Subset, IngestAssumption DEF Damaged
  <2>2. QED
    BY <2>1, FS_CardinalityType
<1>4. Cardinality(Damaged) = 0
  BY <1>2, <1>3, FS_EmptySet DEF IInv, DamageInv
<1>5. Damaged = {}
  BY <1>3, <1>4, FS_EmptySet
<1>6. QED
  BY <1>5 DEF Damaged, Kept, Sound

\* A browse that is reported as a failure is as it was found.
THEOREM FailuresUndone == Spec => FailedUndone
<1> DEFINE undone == /\ db[Current] = old
                     /\ times[Current] = (IF old = None THEN None ELSE old.image)
                     /\ old # None => old.image \in images
<1>1. ASSUME IInv, pc = "rollback", Only({"step"}) PROVE undone
  <2>1. Current \in Id /\ old = db[Current]
    BY <1>1, CurrentType DEF IInv, RecordsInv, Handling
  <2>2. ~Committing /\ backup = {}
    BY <1>1 DEF IInv, FilesInv, Committing
  <2>3. Sound(Current)
    BY <1>1, <2>1, <2>2, Undamaged
  <2>4. QED
    BY <2>1, <2>3 DEF Sound
<1>2. ASSUME pc = "rollback", [Next]_vars PROVE UNCHANGED <<db, times, images>>
  BY <1>2 DEF Next, vars, databases, files, Exception, Submit, Wait, Decide, Retrieve, Remove,
     EnterFileTransactions, Process, Upload, Create, LeaveFileTransactions, DeleteRemote, DisposeInput,
     AddResult, Commit, CommitMapCache, Log, RollBack, Answer, RetrieveFails, RemoveFails, IngestFails,
     UploadFails, DisposeFails, CommitFails, LogFails, Crash
<1>3. IInv /\ [Next]_vars =>
        [ pc = "rollback" /\ result' # <<>> /\ Only({"step"}) =>
            /\ db'[Current] = old
            /\ times'[Current] = (IF old = None THEN None ELSE old.image)
            /\ old # None => old.image \in images' ]_vars
  BY <1>1, <1>2
<1>4. QED
  BY <1>3, Inductive, PTL DEF Spec, FailedUndone

\* What is committed changes with the commit of the main database alone.
LEMMA OnlyCommit ==
  ASSUME [Next]_vars, ~UNCHANGED db
  PROVE  Commit
BY DEF Next, vars, databases, files, Exception, Submit, Wait, Decide, Retrieve, Remove,
   EnterFileTransactions, Process, Upload, Create, LeaveFileTransactions, DeleteRemote, DisposeInput,
   AddResult, CommitMapCache, Log, RollBack, Answer, RetrieveFails, RemoveFails, IngestFails,
   UploadFails, DisposeFails, CommitFails, LogFails, Crash

\* A report with the strategy "skip" replaces a record only by a newer one.
THEOREM NewerKept == Spec => SkipKeepsNewer
<1>1. ASSUME IInv, [Next]_vars, NEW id \in Id, report.strategy = "skip", db[id] # None, db'[id] # db[id]
      PROVE  db'[id] # None /\ db'[id].date > db[id].date
  <2> USE DEF IInv
  <2>1. Commit
    BY <1>1, OnlyCommit
  <2>2. mode # "skip" /\ id = Current
    BY <1>1, <2>1 DEF Commit, RecordsInv, Handling
  <2>3. /\ tx[id] = New /\ old = db[id] /\ mode = ModeFor(old) /\ made \in Image /\ report.date \in Date
    BY <1>1, <2>1, <2>2 DEF Commit, RecordsInv, Handling, Committing, TypeInv, TypeOK, ProgressInv
  <2>4. New \in Record /\ New.date = report.date
    BY <2>3 DEF New, Record
  <2>5. ~(report.date =< old.date)
    BY <1>1, <2>2, <2>3 DEF ModeFor
  <2>6. old.date \in Nat /\ report.date \in Nat
    BY <1>1, <2>3, IngestAssumption DEF TypeInv, TypeOK, Record
  <2>7. New # None
    BY <2>4, NoneAssumption
  <2>8. QED
    BY <2>1, <2>3, <2>4, <2>5, <2>6, <2>7 DEF Commit
<1>2. IInv /\ [Next]_vars =>
        [ \A id \in Id : report.strategy = "skip" /\ db[id] # None =>
            db'[id] = db[id] \/ (db'[id] # None /\ db'[id].date > db[id].date) ]_vars
  BY <1>1
<1>3. QED
  BY <1>2, Inductive, PTL DEF Spec, SkipKeepsNewer


-----------------------------------------------------------------------------
(* IngestService is implemented *)

\* What a client is shown, told and promised.
Shown == [id \in Id |-> IF db[id] = None THEN None ELSE db[id].image]
Told == [k \in 1 .. Len(result) - (IF pc = "commit" THEN 1 ELSE 0) |-> result[k].outcome]
Promise == Only({"step", "input", "crash"})

\* The browses told of are those before the current one, up to its commit.
LEMMA ToldLength ==
  ASSUME IInv, Promise, pc \notin {"commit_mapcache", "log"}
  PROVE  /\ Told \in Seq({"success", "skipped", "failure"}) /\ Len(Told) = pos - 1 /\ pos \in Nat \ {0}
         /\ \A k \in 1 .. pos - 1 : Told[k] = result[k].outcome
<1>1. /\ Len(result) \in Nat /\ result \in Seq([browse : Nat, outcome : {"success", "skipped", "failure"}])
      /\ pos \in Nat /\ Len(result) = Finished
  BY DEF IInv, TypeInv, TypeOK, AnswerInv, ResultInv, Promise
<1>2. pos # 0
  BY <1>1 DEF IInv, TypeInv, TypeOK, ProgressInv, Handling
<1>3. Len(result) - (IF pc = "commit" THEN 1 ELSE 0) = pos - 1
  BY <1>1, <1>2 DEF Finished
<1>4. Told = [k \in 1 .. pos - 1 |-> result[k].outcome]
  BY <1>3 DEF Told
<1>5. 1 .. pos - 1 \subseteq 1 .. Len(result)
  BY <1>1, <1>2 DEF Finished
<1>6. ASSUME NEW k \in 1 .. pos - 1 PROVE result[k].outcome \in {"success", "skipped", "failure"}
  <2>1. result[k] \in [browse : Nat, outcome : {"success", "skipped", "failure"}]
    BY <1>1, <1>5, ElementOfSeq
  <2>2. QED
    BY <2>1
<1>7. Told \in [1 .. pos - 1 -> {"success", "skipped", "failure"}] /\ pos - 1 \in Nat
  BY <1>1, <1>2, <1>4, <1>6
<1>8. QED
  BY <1>2, <1>1, <1>4, <1>7

\* One more outcome is told: that of the current browse.
LEMMA ToldAppend ==
  ASSUME IInv, Promise, pc \notin {"commit_mapcache", "log"}, Handling,
         NEW outcome \in {"success", "skipped", "failure"},
         Len(result') - (IF pc' = "commit" THEN 1 ELSE 0) = pos,
         \A k \in 1 .. pos - 1 : result'[k] = result[k], result'[pos].outcome = outcome
  PROVE  Told' = Append(Told, outcome)
<1>1. /\ Told \in Seq({"success", "skipped", "failure"}) /\ Len(Told) = pos - 1 /\ pos \in Nat \ {0}
      /\ \A k \in 1 .. pos - 1 : Told[k] = result[k].outcome
  BY ToldLength
<1>2. Told' = [k \in 1 .. pos |-> result'[k].outcome]
  BY DEF Told
<1>3. \A k \in 1 .. pos : result'[k].outcome = IF k = pos THEN outcome ELSE Told[k]
  BY <1>1
<1>4. PICK told \in Seq({"success", "skipped", "failure"}) : told = Told
  BY <1>1
<1>5. PICK t : t = Append(told, outcome)
  OBVIOUS
<1>6. /\ t \in Seq({"success", "skipped", "failure"}) /\ Len(t) = pos
      /\ \A k \in 1 .. pos : t[k] = IF k = pos THEN outcome ELSE told[k]
  BY <1>1, <1>4, <1>5, AppendProperties
<1>7. t = [k \in 1 .. pos |-> t[k]]
  BY <1>6
<1>8. t = [k \in 1 .. pos |-> result'[k].outcome]
  BY <1>3, <1>4, <1>6, <1>7
<1>9. QED
  BY <1>2, <1>4, <1>5, <1>8

\* The commit shows a new image of the browse, or keeps the one there is.
LEMMA CommitServed ==
  ASSUME IInv, Promise, Commit
  PROVE  Service!Handle
<1> USE DEF Commit, files, progress
<1>1. Current \in Id /\ pos \in 1 .. Len(report.items) /\ Len(report.items) \in Nat
  BY CurrentType DEF IInv, TypeInv, ProgressInv, Handling
<1>2. Len(Told) = pos - 1 /\ pos \in Nat \ {0}
  BY ToldLength
<1>3. Len(Told) < Len(report.items) /\ report.items[Len(Told) + 1] = Current
  BY <1>1, <1>2 DEF Current
<1>4. Len(result) = pos /\ result[pos] = Outcome(IF mode = "skip" THEN "skipped" ELSE "success")
  BY DEF IInv, AnswerInv, ResultInv, Finished, Promise
<1>5. result[pos].outcome = IF mode = "skip" THEN "skipped" ELSE "success"
  BY <1>4 DEF Outcome
<1>6. CASE mode = "skip"
  <2>1. Told' = Append(Told, "skipped")
    BY <1>2, <1>4, <1>5, <1>6, ToldAppend DEF Handling
  <2>2. Shown' = Shown
    BY <1>6 DEF Shown, IInv, RecordsInv
  <2>3. Service!Keep("skipped")
    BY <1>3, <2>1, <2>2 DEF Service!Keep, Shown, Told
  <2>4. QED
    BY <2>3 DEF Service!Handle
<1>7. CASE mode # "skip"
  <2>1. Told' = Append(Told, "success")
    BY <1>2, <1>4, <1>5, <1>7, ToldAppend DEF Handling
  <2>2. PICK c \in Id : c = Current
    BY <1>1
  <2>3. /\ tx[c] = New /\ New.image = made /\ made \in Image
        /\ \A id \in Id : id # c => tx[id] = db[id]
    BY <1>7, <2>2 DEF IInv, RecordsInv, Committing, New, TypeInv, ProgressInv, Handling
  <2>4. New \in Record
    BY <2>3 DEF New, Record, IInv, TypeInv, TypeOK
  <2>5. New # None
    BY <2>4, NoneAssumption
  <2>6. Shown' = [Shown EXCEPT ![c] = made]
    <3>1. \A id \in Id : (IF db'[id] = None THEN None ELSE db'[id].image)
                        = IF id = c THEN made ELSE IF db[id] = None THEN None ELSE db[id].image
      BY <2>3, <2>5
    <3>2. QED
      BY <3>1 DEF Shown
  <2>7. Service!Current = c
    BY <1>3, <2>2 DEF Service!Current, Told
  <2>8. PICK image \in Image : image = made
    BY <2>3
  <2>9. Service!Show(image)
    BY <1>3, <2>1, <2>6, <2>7, <2>8 DEF Service!Show, Shown, Told
  <2>10. QED
    BY <2>9 DEF Service!Handle
<1>8. QED
  BY <1>6, <1>7

LEMMA RollBackServed ==
  ASSUME IInv, Promise, RollBack
  PROVE  Service!Handle
<1> USE DEF RollBack, files
<1>1. pos \in 1 .. Len(report.items) /\ Len(report.items) \in Nat
  BY CurrentType DEF IInv, TypeInv, ProgressInv, Handling
<1>2. Len(Told) = pos - 1 /\ pos \in Nat \ {0}
  BY ToldLength
<1>3. Len(result) = pos - 1
  BY DEF IInv, AnswerInv, ResultInv, Finished, Promise
<1>4. /\ Len(result') = Len(result) + 1 /\ DOMAIN result = 1 .. Len(result)
      /\ result'[Len(result) + 1].outcome = "failure"
      /\ \A k \in DOMAIN result : result'[k] = result[k]
  BY AppendResult DEF IInv, TypeInv, TypeOK
<1>5. Told' = Append(Told, "failure")
  BY <1>2, <1>3, <1>4, ToldAppend DEF Handling
<1>6. Shown' = Shown /\ UNCHANGED report
  BY DEF Shown
<1>7. Service!Keep("failure")
  BY <1>1, <1>2, <1>5, <1>6 DEF Service!Keep, Shown, Told
<1>8. QED
  BY <1>7 DEF Service!Handle

\* The end of a report, with an answer or without.
LEMMA EndServed ==
  ASSUME IInv, Promise, Answer \/ Crash
  PROVE  Service!Handle
<1>1. report'.items = <<>> /\ Told' = <<>>
  BY DEF Answer, Crash, NoReport, Told
<1>2. Shown' = Shown
  BY DEF Answer, Crash, Shown, databases
<1>3. report.items # <<>>
  BY DEF Answer, Crash, IInv, TypeInv, TypeOK
<1>4. Service!Die
  BY <1>1, <1>2, <1>3 DEF Service!Die, Shown, Told
<1>5. QED
  BY <1>4 DEF Service!Handle

LEMMA SubmitServed ==
  ASSUME IInv, NEW items \in Reports, NEW date \in Date, NEW strategy \in Strategies,
         Submit(items, date, strategy)
  PROVE  Service!Handle
<1>1. items \in Seq(Id) /\ items # <<>>
  BY ReportType
<1>2. report.items = <<>>
  BY DEF Submit, IInv, TypeInv, ProgressInv, NoReport
<1>3. report'.items = items /\ Told' = <<>> /\ Shown' = Shown
  BY DEF Submit, Told, Shown, databases
<1>4. Service!Submit
  BY <1>1, <1>2, <1>3 DEF Service!Submit, Shown, Told
<1>5. QED
  BY <1>4 DEF Service!Handle

\* The steps a client does not see.
LEMMA Unseen ==
  ASSUME UNCHANGED <<db, report, result>>, pc # "commit", pc' # "commit"
  PROVE  Shown' = Shown /\ Told' = Told
BY DEF Shown, Told

LEMMA AddResultUnseen ==
  ASSUME IInv, Promise, AddResult
  PROVE  Shown' = Shown /\ Told' = Told
<1> USE DEF AddResult, databases, files
<1>1. PICK o \in {"success", "skipped"} : result' = Append(result, Outcome(o))
  OBVIOUS
<1>2. /\ Len(result') = Len(result) + 1 /\ Len(result) \in Nat /\ DOMAIN result = 1 .. Len(result)
      /\ \A k \in DOMAIN result : result'[k] = result[k]
  BY <1>1, AppendResult DEF IInv, TypeInv, TypeOK
<1>3. QED
  BY <1>2 DEF Shown, Told

LEMMA ServiceStep ==
  ASSUME IInv, [Next]_vars
  PROVE  [Service!Next]_(Service!vars)
<1> USE DEF databases, files, progress
<1>1. CASE ~Promise'
  <2>1. Service!Next
    BY <1>1 DEF Service!Next, Promise, Only
  <2>2. QED
    BY <2>1
<1>2. CASE Promise'
  <2>1. Promise
    BY <1>2, OnlyBefore DEF IInv, TypeInv, Promise
  <2>a. Service!Handle => Service!Next
    BY <1>2, <2>1 DEF Service!Next, Promise
  <2>b. Shown' = Shown /\ Told' = Told /\ UNCHANGED report => UNCHANGED Service!vars
    BY <1>2, <2>1 DEF Service!vars, Shown, Told, Promise, Only
  <2>2. CASE UNCHANGED vars
    <3>1. Shown' = Shown /\ Told' = Told
      BY <2>2 DEF Shown, Told, vars
    <3>2. QED
      BY <2>2, <2>b, <3>1 DEF vars
  <2>3. CASE Decide \/ Retrieve \/ Remove \/ EnterFileTransactions \/ Process \/ Upload \/ Create
             \/ LeaveFileTransactions \/ DeleteRemote \/ DisposeInput \/ CommitMapCache \/ Log
    BY <2>3, <2>b, Unseen DEF Decide, Retrieve, Remove, EnterFileTransactions, Process, Upload, Create,
       LeaveFileTransactions, DeleteRemote, DisposeInput, CommitMapCache, Log
  <2>4. CASE AddResult
    BY <2>1, <2>4, <2>b, AddResultUnseen DEF AddResult
  <2>5. CASE RetrieveFails \/ RemoveFails \/ IngestFails \/ UploadFails \/ DisposeFails
    BY <2>5, <2>b, Unseen DEF RetrieveFails, RemoveFails, IngestFails, UploadFails, DisposeFails
  <2>6. CASE CommitFails \/ LogFails
    <3>1. PICK kind \in {"commit", "log"} : Fault(kind)
      BY <2>6 DEF CommitFails, LogFails
    <3>2. ~Promise'
      BY <3>1, NotOnly DEF Promise, IInv, TypeInv
    <3>3. QED
      BY <1>2, <3>2
  <2>7. QED
    BY <2>1, <2>a, <2>2, <2>3, <2>4, <2>5, <2>6, CommitServed, RollBackServed, EndServed, SubmitServed
       DEF Next, Wait, Exception
<1>3. QED
  BY <1>1, <1>2

LEMMA InitService == Init => Service!Init
BY DEF Init, Service!Init, NoReport, Only, Range

\* For a client the ingestion of each browse is atomic, and the outcome it is told is what
\* became of the browse.
THEOREM ServiceImplemented == Spec => ImplementsService
<1>1. IInv /\ [Next]_vars => [Service!Next]_(Service!vars)
  BY ServiceStep
<1>2. QED
  BY <1>1, InitService, Inductive, PTL DEF Spec, ImplementsService, Service!Spec


==============================================================================
