--------------------------- MODULE LayerConfigProofs ---------------------------
(***************************************************************************)
(* Proofs about LayerConfig, for any processes, layers, requests and       *)
(* faults.                                                                 *)
(*                                                                         *)
(* Three arguments share what is known of the steps of a request: a row is *)
(* changed by one open transaction at most, so both databases agree until  *)
(* a commit fails; as long as requests do not overlap, mapcache.xml is     *)
(* what the changes made so far lead to; and as long as no request was     *)
(* refused among others, it shows of each layer what its row is to be.     *)
(***************************************************************************)
EXTENDS LayerConfig, SequenceTheorems, TLAPS

\* Where a process is in a change.
Adds == {"insert", "update", "add_xml", "add_open", "add_write", "harvest"}
Removes == {"remove_xml", "remove_open", "remove_write"}
Ending == {"commit_mapcache", "commit", "leave"}
Opened == {"remove_open", "add_open"}
Writing == {"remove_write", "add_write"}
Places == Adds \cup Removes \cup Ending
            \cup {"idle", "enter", "next", "disable", "fail", "restore"}

TypeOK ==
  /\ layers \in Sections /\ sources \subseteq Layer
  /\ xml \in Sections \cup {Broken} /\ harvested \subseteq Layer
  /\ lock \in Proc \cup {None} /\ begun \in Nat
  /\ pc \in [Proc -> Places]
  /\ request \in [Proc -> Request \cup {NoRequest}]
  /\ done \in [Proc -> Nat]
  /\ change \in [Proc -> [Layer -> Version \cup {Unchanged}]]
  /\ created \in [Proc -> SUBSET Layer]
  /\ backup \in [Proc -> Sections \cup {Broken, None}]
  /\ seen \in [Proc -> Sections \cup {Broken, None}]
  /\ accepted \in Sections /\ overlapped \in BOOLEAN /\ restored \in BOOLEAN
  /\ refused \subseteq Layer /\ faults \in Seq(Faults)

\* How far a request is, by where its process is.
ProgressInv ==
  \A p \in Proc :
    /\ pc[p] # "idle" => request[p] \in Request
    /\ pc[p] \notin {"idle", "enter"} => backup[p] \in Sections \cup {Broken}
    /\ pc[p] \in {"idle", "enter"} => done[p] = 0
    /\ done[p] <= Len(Changes(p))
    /\ pc[p] \in Adds => Adding(p)
    /\ pc[p] \in Removes => done[p] < Len(Changes(p))
    /\ pc[p] = "disable" => ~Adding(p) /\ done[p] < Len(Changes(p))
    /\ pc[p] \in Ending => done[p] = Len(Changes(p))

\* The lock of mapcache.xml is held by the one that has read the file.
LockInv ==
  /\ \A p \in Proc : pc[p] \in Opened \cup Writing => lock = p /\ seen[p] \in Sections
  /\ lock # None => pc[lock] \in Opened \cup Writing \cup {"fail"}

TypeInv == TypeOK /\ ProgressInv /\ LockInv

\* Transactions: one changes a row, one the sources.
RowsInv ==
  /\ \A p, q \in Proc : p # q =>
       /\ \A l \in Layer : change[p][l] = Unchanged \/ change[q][l] = Unchanged
       /\ created[p] = {} \/ created[q] = {}
  /\ \A p \in Proc :
       /\ pc[p] \in {"idle", "enter", "leave", "restore"} => change[p] = NoChange
       /\ pc[p] \in {"idle", "enter", "leave", "restore", "commit"} => created[p] = {}
       /\ pc[p] \in {"add_xml", "add_open", "add_write"} \/ (pc[p] \in Removes /\ Adding(p)) =>
            change[p][Current(p)] = request[p].version
       /\ pc[p] = "insert" => change[p][Current(p)] = Unchanged

\* A source that is created belongs to a new row, and a row that is changed has one.
SourcesInv ==
  "commit" \notin Range(faults) =>
    \A p \in Proc :
      /\ pc[p] = "update" => Row(p, Current(p)) # None
      /\ \A l \in created[p] : change[p][l] # Unchanged /\ layers[l] = None /\ l \notin sources
      /\ \A l \in Layer : change[p][l] # Unchanged =>
           IF pc[p] = "commit" THEN l \in sources ELSE l \in created[p] \/ layers[l] # None

DatabasesInv == RowsInv /\ SourcesInv /\ DatabasesAgree

-----------------------------------------------------------------------------
\* mapcache.xml, as it was before a process began to write it.
Shown == IF lock # None /\ pc[lock] \in Writing THEN seen[lock] ELSE xml

\* The sections there are to be after the first k changes of a request.
Reached(p, k) ==
  [l \in Layer |->
     IF \E i \in 1 .. k : i > Len(request[p].add) /\ Changes(p)[i] = l THEN None
     ELSE IF \E i \in 1 .. k : Changes(p)[i] = l THEN request[p].version
     ELSE accepted[l]]

\* At most one process is busy as long as requests do not overlap.
AloneInv ==
  /\ restored => overlapped
  /\ ~overlapped => \A p, q \in Proc : pc[p] # "idle" /\ pc[q] # "idle" => p = q

\* mapcache.xml while p handles a request.
At(p) ==
  /\ pc[p] = "enter" => xml = accepted
  /\ pc[p] \notin {"idle", "enter"} => backup[p] = accepted
  /\ pc[p] \in {"next", "insert", "update"} \cup Removes \cup Ending => Shown = Reached(p, done[p])
  /\ pc[p] \in {"add_xml", "add_open", "add_write"} =>
       /\ Shown \in Sections
       /\ [Shown EXCEPT ![Current(p)] = request[p].version] = Reached(p, done[p] + 1)
  /\ pc[p] \in {"harvest", "disable"} => Shown = Reached(p, done[p] + 1)

\* What it is as long as requests do not overlap.
StepInv ==
  ~overlapped => (Idle => xml = accepted) /\ \A p \in Proc : At(p)

\* Which layers are harvested.
HarvestInv ==
  ~overlapped /\ "harvest" \notin Range(faults) =>
    /\ Idle => \A l \in Layer \ refused : l \in harvested <=> accepted[l] # None
    /\ \A p \in Proc : pc[p] # "idle" =>
         \A l \in Layer :
           l \notin refused \/ (\E i \in 1 .. done[p] : Changes(p)[i] = l) =>
             (l \in harvested <=> Reached(p, done[p])[l] # None)

\* The copy of mapcache.xml: made of what is served, of no use once the rows are changed.
BackupInv ==
  ~overlapped => \A p \in Proc : pc[p] \notin {"idle", "enter", "leave"} =>
    /\ backup[p] \in Sections
    /\ \A l \in Layer : backup[p][l] # None => layers[l] = backup[p][l]

\* Where a section may differ from the row: it is removed next.
Replaced(p, l) == pc[p] \in Removes /\ Adding(p) /\ Current(p) = l

RowShown(l) ==
  Shown[l] # None =>
    /\ (\A p \in Proc : change[p][l] = Unchanged) => Shown[l] = layers[l]
    /\ \A p \in Proc : change[p][l] # Unchanged => Replaced(p, l) \/ Shown[l] = change[p][l]

NoneFails == \A p \in Proc : pc[p] \notin {"fail", "restore"}

\* What is shown of a layer is its row, or what the open transaction makes of it.
ShownInv ==
  ~restored /\ NoneFails =>
    /\ Shown \in Sections
    /\ \A p \in Proc : pc[p] \in Opened => seen[p] = xml
    /\ \A l \in Layer : RowShown(l)

ServedInv == BackupInv /\ ShownInv

-----------------------------------------------------------------------------
(* Types, progress and the lock *)

LEMMA RequestLength ==
  ASSUME NEW r \in Request \cup {NoRequest}
  PROVE  Len(r.add \o r.remove) \in Nat
<1>1. r.add \in Seq(Layer) /\ r.remove \in Seq(Layer)
  <2>1. CASE r = NoRequest
    <3>1. << >> \in Seq(Layer)
      BY EmptySeq
    <3> QED BY <2>1, <3>1 DEF NoRequest
  <2>2. CASE r \in [add : Seq(Layer), remove : Seq(Layer), version : Version]
    BY <2>2
  <2> QED BY <2>1, <2>2 DEF Request
<1> QED BY <1>1, ConcatProperties, LenProperties

\* A request has a sequence of layers, those that are added first.
LEMMA ChangesFacts ==
  ASSUME TypeOK, NEW p \in Proc
  PROVE  /\ request[p].add \in Seq(Layer) /\ request[p].remove \in Seq(Layer)
         /\ Changes(p) \in Seq(Layer)
         /\ Len(request[p].add) \in Nat /\ Len(Changes(p)) \in Nat
         /\ Len(Changes(p)) = Len(request[p].add) + Len(request[p].remove)
         /\ done[p] < Len(Changes(p)) => Current(p) \in Layer
         /\ Adding(p) => done[p] < Len(Changes(p))
<1>1. request[p].add \in Seq(Layer) /\ request[p].remove \in Seq(Layer)
  <2>1. request[p] \in Request \cup {NoRequest}
    BY DEF TypeOK
  <2>2. CASE request[p] = NoRequest
    <3>1. << >> \in Seq(Layer)
      BY EmptySeq
    <3> QED BY <2>2, <3>1 DEF NoRequest
  <2>3. CASE request[p] \in [add : Seq(Layer), remove : Seq(Layer), version : Version]
    BY <2>3
  <2> QED BY <2>1, <2>2, <2>3 DEF Request
<1>2. /\ Changes(p) \in Seq(Layer)
      /\ Len(Changes(p)) = Len(request[p].add) + Len(request[p].remove)
  <2> DEFINE a == request[p].add  r == request[p].remove
  <2> HIDE DEF a, r
  <2>1. a \o r \in Seq(Layer) /\ Len(a \o r) = Len(a) + Len(r)
    BY <1>1, ConcatProperties DEF a, r
  <2> QED BY <2>1 DEF a, r, Changes
<1>3. Len(request[p].add) \in Nat /\ Len(request[p].remove) \in Nat /\ Len(Changes(p)) \in Nat
  BY <1>1, <1>2, LenProperties
<1>4. ASSUME done[p] < Len(Changes(p)) PROVE Current(p) \in Layer
  <2>1. done[p] + 1 \in 1 .. Len(Changes(p))
    BY <1>3, <1>4 DEF TypeOK
  <2> QED BY <1>2, <2>1, ElementOfSeq DEF Current
<1>5. Adding(p) => done[p] < Len(Changes(p))
  <2>1. PICK d \in Nat, a \in Nat, r \in Nat, n \in Nat :
          d = done[p] /\ a = Len(request[p].add) /\ r = Len(request[p].remove) /\ n = Len(Changes(p))
    BY <1>3 DEF TypeOK
  <2>2. n = a + r
    BY <1>2, <2>1
  <2>3. d < a => d < n
    BY <2>2
  <2> QED BY <2>1, <2>3 DEF Adding
<1> QED BY <1>1, <1>2, <1>3, <1>4, <1>5

\* Where the version of a row that is changed comes from.
LEMMA RequestFacts ==
  ASSUME TypeInv, NEW p \in Proc, pc[p] # "idle"
  PROVE  request[p] \in Request /\ request[p].version \in Version
<1>1. request[p] \in [add : Seq(Layer), remove : Seq(Layer), version : Version]
  BY DEF TypeInv, ProgressInv, Request
<1> QED BY <1>1 DEF Request

LEMMA FaultType ==
  ASSUME TypeOK, NEW kind, Fault(kind)
  PROVE  faults' \in Seq(Faults) /\ Range(faults') = Range(faults) \cup {kind} /\ kind \in Faults
<1>1. kind \in Faults /\ faults' = Append(faults, kind) /\ faults \in Seq(Faults)
  BY DEF TypeOK, Fault
<1>2. /\ faults' \in Seq(Faults) /\ Len(faults') = Len(faults) + 1
      /\ \A i \in 1 .. Len(faults) : faults'[i] = faults[i]
      /\ faults'[Len(faults) + 1] = kind
  BY <1>1, AppendProperties
<1>3. Len(faults) \in Nat /\ DOMAIN faults = 1 .. Len(faults) /\ DOMAIN faults' = 1 .. Len(faults')
  BY <1>1, <1>2, LenProperties
<1>4. DOMAIN faults' = DOMAIN faults \cup {Len(faults) + 1}
  BY <1>2, <1>3
<1> QED BY <1>1, <1>2, <1>3, <1>4 DEF Range

LEMMA PlaceOfStep ==
  ASSUME TypeInv, NEW p \in Proc, Step(p) \/ GiveUpWaiting(p) \/ Fail(p)
  PROVE  pc' \in [Proc -> Places] /\ \A q \in Proc \ {p} : pc'[q] = pc[q]
<1>1. pc \in [Proc -> Places]
  BY DEF TypeInv, TypeOK
<1>2. \A s \in {"idle", "next", "insert", "update", "remove_xml", "remove_open", "remove_write",
                "add_xml", "add_open", "add_write", "harvest", "disable", "commit_mapcache",
                "commit", "leave", "fail", "restore"} : s \in Places
  BY DEF Places, Adds, Removes, Ending
<1>3. PICK s \in Places : pc' = [pc EXCEPT ![p] = s]
  <2>1. CASE EnterFileTransaction(p) \/ NextChange(p) \/ ReadXml(p) \/ OpenXml(p)
    BY <1>2, <2>1 DEF EnterFileTransaction, NextChange, ReadXml, OpenXml, Goto
  <2>2. CASE InsertLayer(p) \/ UpdateLayer(p) \/ WriteAdded(p) \/ WriteRemoved(p)
    BY <1>2, <2>2 DEF InsertLayer, UpdateLayer, WriteAdded, WriteRemoved, Goto
  <2>3. CASE AddCollection(p) \/ DisableCollection(p) \/ CommitMapCache(p) \/ Commit(p)
    BY <1>2, <2>3 DEF AddCollection, DisableCollection, Harvest, CommitMapCache, Commit, Goto
  <2>4. CASE LeaveFileTransaction(p) \/ RollBack(p) \/ RestoreXml(p) \/ GiveUpWaiting(p) \/ Fail(p)
    BY <1>2, <2>4 DEF LeaveFileTransaction, RollBack, RestoreXml, GiveUpWaiting, Fail, Goto
  <2> QED BY <2>1, <2>2, <2>3, <2>4 DEF Step
<1> QED BY <1>1, <1>3

LEMMA TypeOfStep ==
  ASSUME TypeInv, NEW p \in Proc, Step(p) \/ GiveUpWaiting(p) \/ Fail(p)
  PROVE  TypeOK'
<1>1. /\ request[p].version \in Version \/ pc[p] = "idle"
      /\ done[p] < Len(Changes(p)) => Current(p) \in Layer
      /\ Adding(p) => done[p] < Len(Changes(p))
  BY ChangesFacts, RequestFacts DEF TypeInv
<1>2. \A kind : Fault(kind) => faults' \in Seq(Faults)
  BY FaultType DEF TypeInv
<1>3. pc' \in [Proc -> Places]
  BY PlaceOfStep
<1>15. ASSUME ReadXml(p)
       PROVE  seen' \in [Proc -> Sections \cup {Broken, None}] /\ lock' \in Proc \cup {None}
  <2>1. /\ seen \in [Proc -> Sections \cup {Broken, None}] /\ lock \in Proc \cup {None}
        /\ xml \in Sections \cup {Broken}
    BY DEF TypeInv, TypeOK
  <2>2. \/ seen' = seen /\ lock' = lock
        \/ seen' = [seen EXCEPT ![p] = xml] /\ lock' = p
    BY <1>15 DEF ReadXml
  <2> QED BY <2>1, <2>2
<1> USE DEF Goto, TypeInv, TypeOK, stores, open, history
<1>4. CASE EnterFileTransaction(p) \/ NextChange(p)
  BY <1>3, <1>4 DEF EnterFileTransaction, NextChange
<1>5. CASE ReadXml(p)
  BY <1>3, <1>5, <1>15 DEF ReadXml
<1>14. CASE OpenXml(p)
  BY <1>3, <1>14 DEF OpenXml
<1>6. CASE InsertLayer(p) \/ UpdateLayer(p)
  <2>1. Current(p) \in Layer /\ request[p].version \in Version
    BY <1>1, <1>6 DEF InsertLayer, UpdateLayer, ProgressInv, Adds
  <2>2. [change EXCEPT ![p][Current(p)] = request[p].version]
          \in [Proc -> [Layer -> Version \cup {Unchanged}]]
    BY <2>1
  <2>3. [created EXCEPT ![p] = @ \cup {Current(p)}] \in [Proc -> SUBSET Layer]
    BY <2>1
  <2>4. change' \in [Proc -> [Layer -> Version \cup {Unchanged}]] /\ created' \in [Proc -> SUBSET Layer]
    BY <2>2, <2>3, <1>6 DEF InsertLayer, UpdateLayer
  <2> QED BY <2>4, <1>3, <1>6 DEF InsertLayer, UpdateLayer
<1>7. CASE WriteAdded(p) \/ WriteRemoved(p)
  <2>1. Current(p) \in Layer /\ seen[p] \in Sections
    BY <1>1, <1>7 DEF WriteAdded, WriteRemoved, ProgressInv, LockInv, Writing, Adds, Removes
  <2>2. WriteAdded(p) => request[p].version \in Version
    BY <1>1 DEF WriteAdded
  <2>3. xml' \in Sections
    BY <1>7, <2>1, <2>2 DEF WriteAdded, WriteRemoved, Sections
  <2> QED BY <2>3, <1>3, <1>7 DEF WriteAdded, WriteRemoved
<1>8. CASE AddCollection(p) \/ DisableCollection(p)
  <2>1. pc[p] = "harvest" => Current(p) \in Layer
    BY <1>1 DEF ProgressInv, Adds
  <2>2. harvested' \subseteq Layer /\ faults' \in Seq(Faults)
    BY <2>1, <1>2, <1>8 DEF AddCollection, DisableCollection, Harvest
  <2>3. done' \in [Proc -> Nat]
    BY <1>8 DEF AddCollection, DisableCollection, Harvest
  <2> QED BY <2>2, <2>3, <1>3, <1>8 DEF AddCollection, DisableCollection, Harvest
<1>9. CASE CommitMapCache(p) \/ Commit(p)
  <2>1. NoChange \in [Layer -> Version \cup {Unchanged}]
    BY DEF NoChange
  <2>2. [l \in Layer |-> Row(p, l)] \in Sections
    BY DEF Row, Sections
  <2> QED BY <1>3, <1>9, <2>1, <2>2 DEF CommitMapCache, Commit
<1>10. CASE LeaveFileTransaction(p)
  <2>1. pc[p] = "leave" => [l \in Layer |-> Wanted(p, l)] \in Sections
    BY <1>1 DEF Wanted, Sections
  <2> QED BY <1>3, <1>10, <2>1 DEF LeaveFileTransaction, Forget
<1>11. CASE RollBack(p)
  <2>1. NoChange \in [Layer -> Version \cup {Unchanged}]
    BY DEF NoChange
  <2> QED BY <1>3, <1>11, <2>1 DEF RollBack
<1>12. CASE RestoreXml(p)
  <2>1. pc[p] = "restore" => backup[p] \in Sections \cup {Broken}
    BY DEF ProgressInv
  <2>2. ToSet(Changes(p)) \subseteq Layer
    <3>1. PICK c \in Seq(Layer) : c = Changes(p)
      BY ChangesFacts
    <3>2. \A i \in DOMAIN c : c[i] \in Layer
      BY ElementOfSeq, LenProperties
    <3> QED BY <3>1, <3>2 DEF ToSet
  <2> QED BY <1>3, <1>12, <2>1, <2>2 DEF RestoreXml, Forget
<1>13. CASE GiveUpWaiting(p) \/ Fail(p)
  BY <1>2, <1>3, <1>13 DEF GiveUpWaiting, Fail
<1> QED BY <1>4, <1>5, <1>6, <1>7, <1>8, <1>9, <1>10, <1>11, <1>12, <1>13, <1>14 DEF Step

\* A step of a process leaves what belongs to others.
LEMMA OthersKeep ==
  ASSUME TypeInv, NEW p \in Proc, Step(p) \/ GiveUpWaiting(p) \/ Fail(p), NEW q \in Proc, q # p
  PROVE  /\ pc'[q] = pc[q] /\ request'[q] = request[q] /\ done'[q] = done[q]
         /\ change'[q] = change[q] /\ created'[q] = created[q]
         /\ backup'[q] = backup[q] /\ seen'[q] = seen[q]
         /\ Changes(q)' = Changes(q) /\ Current(q)' = Current(q) /\ Adding(q)' = Adding(q)
<1>1. pc'[q] = pc[q]
  BY PlaceOfStep
<1>2. /\ request'[q] = request[q] /\ done'[q] = done[q]
      /\ change'[q] = change[q] /\ created'[q] = created[q]
      /\ backup'[q] = backup[q] /\ seen'[q] = seen[q]
  <2> USE DEF stores, open, history, TypeInv, TypeOK
  <2>1. CASE EnterFileTransaction(p) \/ NextChange(p) \/ ReadXml(p) \/ OpenXml(p)
    BY <2>1 DEF EnterFileTransaction, NextChange, ReadXml, OpenXml
  <2>2. CASE InsertLayer(p) \/ UpdateLayer(p) \/ WriteAdded(p) \/ WriteRemoved(p)
    BY <2>2 DEF InsertLayer, UpdateLayer, WriteAdded, WriteRemoved
  <2>3. CASE AddCollection(p) \/ DisableCollection(p) \/ CommitMapCache(p) \/ Commit(p)
    BY <2>3 DEF AddCollection, DisableCollection, Harvest, CommitMapCache, Commit
  <2>4. CASE LeaveFileTransaction(p) \/ RollBack(p) \/ RestoreXml(p) \/ GiveUpWaiting(p) \/ Fail(p)
    BY <2>4 DEF LeaveFileTransaction, RollBack, RestoreXml, GiveUpWaiting, Fail, Forget
  <2> QED BY <2>1, <2>2, <2>3, <2>4 DEF Step
<1> QED BY <1>1, <1>2 DEF Changes, Current, Adding

LEMMA ProgressOfStep ==
  ASSUME TypeInv, NEW p \in Proc, Step(p) \/ GiveUpWaiting(p) \/ Fail(p)
  PROVE  ProgressInv'
<1> DEFINE Fine(r) ==
      /\ pc[r] # "idle" => request[r] \in Request
      /\ pc[r] \notin {"idle", "enter"} => backup[r] \in Sections \cup {Broken}
      /\ pc[r] \in {"idle", "enter"} => done[r] = 0
      /\ done[r] <= Len(Changes(r))
      /\ pc[r] \in Adds => Adding(r)
      /\ pc[r] \in Removes => done[r] < Len(Changes(r))
      /\ pc[r] = "disable" => ~Adding(r) /\ done[r] < Len(Changes(r))
      /\ pc[r] \in Ending => done[r] = Len(Changes(r))
<1>1. \A r \in Proc : Fine(r)
  BY DEF TypeInv, ProgressInv
<1>2. ASSUME NEW q \in Proc \ {p} PROVE Fine(q)'
  BY <1>1, <1>2, OthersKeep
<1>3. Fine(p)'
  <2>1. /\ Len(Changes(p)) \in Nat /\ done[p] \in Nat /\ pc \in [Proc -> Places]
        /\ backup \in [Proc -> Sections \cup {Broken, None}] /\ xml \in Sections \cup {Broken}
        /\ request \in [Proc -> Request \cup {NoRequest}] /\ done \in [Proc -> Nat]
        /\ Adding(p) => done[p] < Len(Changes(p))
    BY ChangesFacts DEF TypeInv, TypeOK
  <2>2. UNCHANGED request => Changes(p)' = Changes(p)
    BY DEF Changes
  <2>3. UNCHANGED <<request, done>> => Adding(p)' = Adding(p)
    BY DEF Adding
  <2>4. Fine(p)
    BY <1>1
  <2> HIDE DEF Fine
  <2>5. CASE EnterFileTransaction(p) \/ OpenXml(p)
    BY <2>1, <2>2, <2>3, <2>4, <2>5 DEF Fine, EnterFileTransaction, OpenXml, Goto,
      stores, open, history, Adds, Removes, Ending
  <2>6. CASE NextChange(p)
    BY <2>1, <2>2, <2>3, <2>4, <2>6 DEF Fine, NextChange, Goto,
      stores, open, history, Adds, Removes, Ending
  <2>7. CASE ReadXml(p)
    BY <2>1, <2>2, <2>3, <2>4, <2>7 DEF Fine, ReadXml, Goto,
      stores, open, history, Adds, Removes, Ending
  <2>8. CASE InsertLayer(p) \/ UpdateLayer(p)
    BY <2>1, <2>2, <2>3, <2>4, <2>8 DEF Fine, InsertLayer, UpdateLayer, Goto,
      stores, open, history, Adds, Removes, Ending
  <2>9. CASE WriteAdded(p) \/ WriteRemoved(p)
    BY <2>1, <2>2, <2>3, <2>4, <2>9 DEF Fine, WriteAdded, WriteRemoved, Goto,
      stores, open, history, Adds, Removes, Ending
  <2>10. CASE AddCollection(p) \/ DisableCollection(p)
    BY <2>1, <2>2, <2>4, <2>10 DEF Fine, AddCollection, DisableCollection, Harvest, Goto,
      stores, open, history, Adds, Removes, Ending
  <2>11. CASE CommitMapCache(p) \/ Commit(p) \/ RollBack(p) \/ GiveUpWaiting(p) \/ Fail(p)
    BY <2>1, <2>2, <2>3, <2>4, <2>11 DEF Fine, CommitMapCache, Commit, RollBack, GiveUpWaiting, Fail,
      Goto, stores, open, history, Adds, Removes, Ending
  <2>12. CASE LeaveFileTransaction(p) \/ RestoreXml(p)
    <3>1. pc'[p] = "idle" /\ done'[p] = 0
      BY <2>1, <2>12 DEF LeaveFileTransaction, RestoreXml, Forget, Goto
    <3>2. Len(Changes(p))' \in Nat
      BY TypeOfStep, RequestLength DEF TypeOK, Changes
    <3> QED BY <3>1, <3>2 DEF Fine, Adds, Removes, Ending
  <2> QED BY <2>5, <2>6, <2>7, <2>8, <2>9, <2>10, <2>11, <2>12 DEF Step
<1> QED BY <1>2, <1>3 DEF ProgressInv

LEMMA LockOfStep ==
  ASSUME TypeInv, NEW p \in Proc, Step(p) \/ GiveUpWaiting(p) \/ Fail(p)
  PROVE  LockInv'
<1>1. None \notin Proc /\ pc \in [Proc -> Places] /\ lock \in Proc \cup {None}
  BY LayerAssumption DEF TypeInv, TypeOK
<1>2. \A q \in Proc \ {p} : pc'[q] = pc[q] /\ seen'[q] = seen[q]
  BY OthersKeep
<1>3. \A q \in Proc : pc[q] \in Opened \cup Writing => lock = q /\ seen[q] \in Sections
  BY DEF TypeInv, LockInv
<1>4. lock # None => pc[lock] \in Opened \cup Writing \cup {"fail"}
  BY DEF TypeInv, LockInv
<1>5. CASE lock' = lock /\ (lock = p => pc'[p] \in Opened \cup Writing \cup {"fail"})
           /\ (pc'[p] \in Opened \cup Writing => pc[p] \in Opened \cup Writing /\ seen'[p] = seen[p])
  BY <1>1, <1>2, <1>3, <1>4, <1>5 DEF LockInv
<1>6. CASE lock = p /\ lock' = None /\ pc'[p] \notin Opened \cup Writing
  BY <1>1, <1>2, <1>3, <1>6 DEF LockInv
<1>7. CASE ReadXml(p)
  <2>1. CASE lock # None
    BY <1>1, <1>2, <1>3, <1>4, <1>7, <2>1 DEF LockInv, ReadXml, Goto, Opened, Writing
  <2>2. CASE lock = None
    <3>1. lock' = p /\ seen' = [seen EXCEPT ![p] = xml] /\ seen'[p] = xml
      BY <1>7, <2>2 DEF ReadXml, TypeInv, TypeOK
    <3>2. \/ pc'[p] = "fail"
          \/ xml \in Sections /\ pc'[p] \in Opened
      BY <1>1, <1>7, <2>2 DEF ReadXml, Goto, Opened, TypeInv, TypeOK
    <3> QED BY <1>1, <1>2, <1>3, <2>2, <3>1, <3>2 DEF LockInv, Opened, Writing
  <2> QED BY <2>1, <2>2
<1>8. CASE EnterFileTransaction(p) \/ NextChange(p) \/ InsertLayer(p) \/ UpdateLayer(p)
           \/ OpenXml(p) \/ GiveUpWaiting(p) \/ Fail(p)
  BY <1>1, <1>4, <1>5, <1>8 DEF EnterFileTransaction, NextChange, InsertLayer, UpdateLayer, OpenXml,
    GiveUpWaiting, Fail, Goto, Opened, Writing
<1>9. CASE AddCollection(p) \/ DisableCollection(p) \/ CommitMapCache(p) \/ Commit(p)
           \/ LeaveFileTransaction(p) \/ RestoreXml(p)
  BY <1>1, <1>4, <1>5, <1>9 DEF AddCollection, DisableCollection, Harvest, CommitMapCache, Commit,
    LeaveFileTransaction, RestoreXml, Goto, Opened, Writing
<1>10. CASE WriteAdded(p) \/ WriteRemoved(p)
  BY <1>1, <1>3, <1>6, <1>10 DEF WriteAdded, WriteRemoved, Goto, Opened, Writing
<1>11. CASE RollBack(p)
  BY <1>1, <1>5, <1>6, <1>11 DEF RollBack, Goto, Opened, Writing
<1> QED BY <1>7, <1>8, <1>9, <1>10, <1>11 DEF Step

LEMMA TypeOfBegin ==
  ASSUME TypeInv, NEW p \in Proc, NEW r \in RequestsOf[p], Begin(p, r)
  PROVE  TypeInv'
<1>1. r \in Request
  BY LayerAssumption
<1>2. /\ pc[p] = "idle" /\ request' = [request EXCEPT ![p] = r] /\ done' = [done EXCEPT ![p] = 0]
      /\ pc' = [pc EXCEPT ![p] = "enter"]
      /\ UNCHANGED <<lock, seen, change, created, backup>>
  BY DEF Begin, Goto, stores, open
<1>3. TypeOK'
  BY <1>1, <1>2 DEF TypeInv, TypeOK, Begin, Places, stores, open
<1>4. \A q \in Proc \ {p} : Changes(q)' = Changes(q) /\ Adding(q)' = Adding(q)
  BY <1>2 DEF Changes, Adding, TypeInv, TypeOK
<1>5. Len(Changes(p))' \in Nat
  BY <1>3, RequestLength DEF TypeOK, Changes
<1>6. ProgressInv'
  <2>1. ASSUME NEW q \in Proc \ {p}
        PROVE  pc'[q] = pc[q] /\ request'[q] = request[q] /\ done'[q] = done[q]
    BY <1>2 DEF TypeInv, TypeOK
  <2>2. pc'[p] = "enter" /\ request'[p] = r /\ done'[p] = 0 /\ 0 <= Len(Changes(p))'
    BY <1>2, <1>5 DEF TypeInv, TypeOK
  <2> QED BY <1>1, <1>2, <1>4, <2>1, <2>2 DEF TypeInv, ProgressInv, Adds, Removes, Ending
<1>7. LockInv'
  BY <1>2 DEF TypeInv, TypeOK, LockInv, Opened, Writing
<1> QED BY <1>3, <1>6, <1>7 DEF TypeInv

LEMMA TypeOfInit == ASSUME Init PROVE TypeInv
<1>1. TypeOK
  <2>1. << >> \in Seq(Faults)
    BY EmptySeq
  <2> QED BY <2>1 DEF Init, TypeOK, Sections, NoChange, Places
<1>2. \A p \in Proc : Len(Changes(p)) \in Nat
  BY <1>1, ChangesFacts
<1>3. ProgressInv /\ LockInv
  BY <1>2 DEF Init, ProgressInv, LockInv, Adds, Removes, Ending, Opened, Writing
<1> QED BY <1>1, <1>3 DEF TypeInv

LEMMA TypeOfNext == ASSUME TypeInv, [Next]_vars PROVE TypeInv'
<1>1. ASSUME UNCHANGED vars PROVE TypeInv'
  BY <1>1 DEF vars, stores, open, history, TypeInv, TypeOK, ProgressInv, LockInv,
    Changes, Adding, Current
<1> QED BY <1>1, TypeOfStep, ProgressOfStep, LockOfStep, TypeOfBegin DEF Next, Wait, TypeInv

-----------------------------------------------------------------------------
(* Transactions *)

LEMMA RowsOfStep ==
  ASSUME TypeInv, TypeInv', RowsInv, NEW p \in Proc, Step(p) \/ GiveUpWaiting(p) \/ Fail(p)
  PROVE  RowsInv'
<1> DEFINE Own(r) ==
      /\ pc[r] \in {"idle", "enter", "leave", "restore"} => change[r] = NoChange
      /\ pc[r] \in {"idle", "enter", "leave", "restore", "commit"} => created[r] = {}
      /\ pc[r] \in {"add_xml", "add_open", "add_write"} \/ (pc[r] \in Removes /\ Adding(r)) =>
           change[r][Current(r)] = request[r].version
      /\ pc[r] = "insert" => change[r][Current(r)] = Unchanged
    Apart(q, r) ==
      /\ \A l \in Layer : change[q][l] = Unchanged \/ change[r][l] = Unchanged
      /\ created[q] = {} \/ created[r] = {}
<1> HIDE DEF Own, Apart
<1>1. \A q, r \in Proc : Own(r) /\ (q # r => Apart(q, r))
  BY DEF RowsInv, Own, Apart
<1>2. ASSUME NEW q \in Proc \ {p} PROVE Own(q)'
  BY <1>1, <1>2, OthersKeep DEF Own, NoChange
<1>3. /\ pc \in [Proc -> Places] /\ change \in [Proc -> [Layer -> Version \cup {Unchanged}]]
      /\ created \in [Proc -> SUBSET Layer]
      /\ UNCHANGED <<request, done>> => Adding(p)' = Adding(p) /\ Current(p)' = Current(p)
      /\ pc[p] \in {"insert", "update"} => Current(p) \in Layer /\ Adding(p)
  BY ChangesFacts DEF TypeInv, TypeOK, Adding, Current, Changes, ProgressInv, Adds
<1>4. Own(p)'
  <2>1. Own(p)
    BY <1>1
  <2>2. CASE EnterFileTransaction(p)
    BY <1>3, <2>2 DEF Own, EnterFileTransaction, Goto, Removes
  <2>8. CASE NextChange(p)
    <3>1. pc[p] = "next" /\ UNCHANGED <<change, created, request, done>>
      BY <2>8 DEF NextChange, open
    <3>2. CASE done[p] = Len(Changes(p))
      BY <1>3, <2>8, <3>1, <3>2 DEF Own, NextChange, Goto, Removes
    <3>3. CASE done[p] # Len(Changes(p))
      <4>1. pc'[p] = "insert" => Row(p, Current(p)) = None /\ Adding(p)
        BY <1>3, <2>8, <3>3 DEF NextChange, Goto
      <4>2. pc'[p] \in {"insert", "update", "remove_xml", "fail"} /\ (pc'[p] = "remove_xml" => ~Adding(p))
        BY <1>3, <2>8, <3>3 DEF NextChange, Goto
      <4>3. pc'[p] = "insert" => change[p][Current(p)] = Unchanged
        <5>1. Adding(p) => Current(p) \in Layer
          BY ChangesFacts DEF TypeInv
        <5> QED BY <1>3, <4>1, <5>1, LayerAssumption DEF Row
      <4> QED BY <1>3, <3>1, <4>2, <4>3 DEF Own, Removes
    <3> QED BY <3>2, <3>3
  <2>3. CASE ReadXml(p) \/ OpenXml(p) \/ WriteAdded(p) \/ WriteRemoved(p)
    BY <1>3, <2>1, <2>3 DEF Own, ReadXml, OpenXml, WriteAdded, WriteRemoved, Goto, Removes, open
  <2>4. CASE InsertLayer(p) \/ UpdateLayer(p)
    <3>1. \/ pc'[p] = "fail"
          \/ pc'[p] \in {"add_xml", "remove_xml"} /\ Current(p)' = Current(p)
               /\ change' = [change EXCEPT ![p][Current(p)] = request[p].version]
      BY <1>3, <2>4 DEF InsertLayer, UpdateLayer, Goto
    <3>2. CASE pc'[p] = "fail"
      BY <3>2 DEF Own, Removes
    <3>3. CASE pc'[p] # "fail"
      <4>1. change'[p][Current(p)'] = request[p].version /\ UNCHANGED request
        BY <1>3, <2>4, <3>1, <3>3 DEF InsertLayer, UpdateLayer
      <4> QED BY <3>1, <3>3, <4>1 DEF Own, Removes
    <3> QED BY <3>2, <3>3
  <2>5. CASE AddCollection(p) \/ DisableCollection(p) \/ GiveUpWaiting(p) \/ Fail(p)
    BY <1>3, <2>5 DEF Own, AddCollection, DisableCollection, Harvest, GiveUpWaiting, Fail, Goto, Removes
  <2>6. CASE CommitMapCache(p) \/ Commit(p) \/ RollBack(p)
    BY <1>3, <2>1, <2>6 DEF Own, CommitMapCache, Commit, RollBack, Goto, Removes, NoChange
  <2>7. CASE LeaveFileTransaction(p) \/ RestoreXml(p)
    BY <1>3, <2>1, <2>7 DEF Own, LeaveFileTransaction, RestoreXml, Goto, Removes, open, NoChange
  <2> QED BY <2>2, <2>3, <2>4, <2>5, <2>6, <2>7, <2>8 DEF Step
<1>5. /\ \A l \in Layer : change'[p][l] # Unchanged =>
           change[p][l] # Unchanged \/ \A q \in Proc \ {p} : change[q][l] = Unchanged
      /\ created'[p] # {} => created[p] # {} \/ \A q \in Proc \ {p} : created[q] = {}
  <2>1. CASE change'[p] = change[p] /\ created'[p] = created[p]
    BY <2>1
  <2>2. CASE EnterFileTransaction(p) \/ NextChange(p) \/ ReadXml(p) \/ OpenXml(p)
             \/ WriteAdded(p) \/ WriteRemoved(p) \/ GiveUpWaiting(p) \/ Fail(p)
    BY <2>1, <2>2 DEF EnterFileTransaction, NextChange, ReadXml, OpenXml,
      WriteAdded, WriteRemoved, GiveUpWaiting, Fail, open
  <2>3. CASE AddCollection(p) \/ DisableCollection(p) \/ LeaveFileTransaction(p) \/ RestoreXml(p)
    BY <2>1, <2>3 DEF AddCollection, DisableCollection, Harvest, LeaveFileTransaction, RestoreXml, open
  <2>4. CASE CommitMapCache(p) \/ Commit(p) \/ RollBack(p)
    BY <1>3, <2>4 DEF CommitMapCache, Commit, RollBack, NoChange
  <2>5. CASE InsertLayer(p) \/ UpdateLayer(p)
    <3>1. /\ \A l \in Layer : change'[p][l] = change[p][l] \/ l = Current(p)
          /\ \A q \in Proc \ {p} : change[q][Current(p)] = Unchanged
          /\ created'[p] = created[p] \/ \A q \in Proc \ {p} : created[q] = {}
      BY <1>3, <2>5 DEF InsertLayer, UpdateLayer, RowBusy, SourcesBusy, open
    <3> QED BY <3>1
  <2> QED BY <2>2, <2>3, <2>4, <2>5 DEF Step
<1>6. ASSUME NEW q \in Proc, NEW r \in Proc, q # r PROVE Apart(q, r)'
  <2>1. \A s \in Proc \ {p} : change'[s] = change[s] /\ created'[s] = created[s]
    BY OthersKeep
  <2>2. Apart(q, r)
    BY <1>1, <1>6
  <2> QED BY <1>5, <1>6, <2>1, <2>2 DEF Apart
<1> QED BY <1>2, <1>4, <1>6 DEF RowsInv, Own, Apart

LEMMA RowsOfBegin ==
  ASSUME TypeInv, RowsInv, NEW p \in Proc, NEW r \in RequestsOf[p], Begin(p, r)
  PROVE  RowsInv'
<1>1. /\ pc[p] = "idle" /\ pc' = [pc EXCEPT ![p] = "enter"] /\ UNCHANGED <<change, created>>
      /\ request' = [request EXCEPT ![p] = r] /\ done' = [done EXCEPT ![p] = 0]
      /\ pc \in [Proc -> Places] /\ request \in [Proc -> Request \cup {NoRequest}] /\ done \in [Proc -> Nat]
  BY DEF Begin, Goto, open, TypeInv, TypeOK
<1>2. \A q \in Proc \ {p} :
        /\ pc'[q] = pc[q] /\ request'[q] = request[q]
        /\ Adding(q)' = Adding(q) /\ Current(q)' = Current(q)
  BY <1>1 DEF Adding, Current, Changes
<1>3. pc'[p] = "enter"
  BY <1>1
<1> QED BY <1>1, <1>2, <1>3 DEF RowsInv, Removes, NoChange

LEMMA SourcesOfStep ==
  ASSUME TypeInv, RowsInv, SourcesInv, DatabasesAgree,
         NEW p \in Proc, Step(p) \/ GiveUpWaiting(p) \/ Fail(p)
  PROVE  SourcesInv' /\ DatabasesAgree'

<1> DEFINE Clean == "commit" \notin Range(faults)
    Own(r) ==
      /\ pc[r] = "update" => Row(r, Current(r)) # None
      /\ \A l \in created[r] : change[r][l] # Unchanged /\ layers[l] = None /\ l \notin sources
      /\ \A l \in Layer : change[r][l] # Unchanged =>
           IF pc[r] = "commit" THEN l \in sources ELSE l \in created[r] \/ layers[l] # None
<1> HIDE DEF Clean, Own
<1>1. /\ Clean => (\A r \in Proc : Own(r)) /\ DatabasesAgree
      /\ (Clean' => (\A r \in Proc : Own(r))' /\ DatabasesAgree') => SourcesInv' /\ DatabasesAgree'
  BY DEF SourcesInv, Clean, Own, DatabasesAgree
<1> SUFFICES ASSUME Clean' PROVE (\A r \in Proc : Own(r)') /\ DatabasesAgree'
  BY <1>1
<1>2. Clean /\ ~(pc[p] \in {"commit_mapcache", "commit"} /\ Fail(p))
  <2>1. \A kind : Fault(kind) => Range(faults') = Range(faults) \cup {kind}
    BY FaultType DEF TypeInv
  <2>2. UNCHANGED faults \/ Fault("step") \/ Fault("harvest") \/ (Fail(p) /\ Fault("commit"))
    <3> USE DEF history
    <3>1. CASE EnterFileTransaction(p) \/ NextChange(p) \/ ReadXml(p) \/ OpenXml(p)
      BY <3>1 DEF EnterFileTransaction, NextChange, ReadXml, OpenXml
    <3>2. CASE InsertLayer(p) \/ UpdateLayer(p) \/ WriteAdded(p) \/ WriteRemoved(p)
      BY <3>2 DEF InsertLayer, UpdateLayer, WriteAdded, WriteRemoved
    <3>3. CASE AddCollection(p) \/ DisableCollection(p) \/ CommitMapCache(p) \/ Commit(p)
      BY <3>3 DEF AddCollection, DisableCollection, Harvest, CommitMapCache, Commit
    <3>4. CASE LeaveFileTransaction(p) \/ RollBack(p) \/ RestoreXml(p) \/ GiveUpWaiting(p)
      BY <3>4 DEF LeaveFileTransaction, RollBack, RestoreXml, GiveUpWaiting
    <3>5. CASE Fail(p)
      BY <3>5 DEF Fail
    <3> QED BY <3>1, <3>2, <3>3, <3>4, <3>5 DEF Step
  <2>3. Clean
    BY <2>1, <2>2 DEF Clean
  <2>4. pc[p] \in {"commit_mapcache", "commit"} /\ Fail(p) => Fault("commit")
    BY DEF Fail
  <2> QED BY <2>1, <2>3, <2>4 DEF Clean
<1>3. /\ pc \in [Proc -> Places] /\ change \in [Proc -> [Layer -> Version \cup {Unchanged}]]
      /\ created \in [Proc -> SUBSET Layer] /\ sources \subseteq Layer /\ layers \in Sections
      /\ None \notin Version
      /\ UNCHANGED <<request, done>> => Adding(p)' = Adding(p) /\ Current(p)' = Current(p)
      /\ pc[p] \in {"insert", "update"} => Current(p) \in Layer /\ request[p].version \in Version
  BY LayerAssumption, ChangesFacts, RequestFacts
     DEF TypeInv, TypeOK, Adding, Current, Changes, ProgressInv, Adds
<1>4. /\ \A q \in Proc \ {p}, l \in Layer : change[p][l] = Unchanged \/ change[q][l] = Unchanged
      /\ \A q \in Proc \ {p} : created[p] = {} \/ created[q] = {}
      /\ pc[p] \in {"idle", "enter", "leave", "restore"} => change[p] = NoChange
      /\ pc[p] \in {"idle", "enter", "leave", "restore", "commit"} => created[p] = {}
  BY DEF RowsInv
<1>5. /\ \A l \in Layer : layers'[l] # layers[l] => change[p][l] # Unchanged /\ layers'[l] # None
      /\ sources \subseteq sources' /\ sources' \subseteq sources \cup created[p]
  <2>1. CASE UNCHANGED <<layers, sources>>
    BY <2>1
  <2>2. CASE Commit(p)
    BY <1>3, <2>2 DEF Commit, Row
  <2>3. CASE CommitMapCache(p)
    BY <2>3 DEF CommitMapCache
  <2>4. CASE EnterFileTransaction(p) \/ NextChange(p) \/ ReadXml(p) \/ OpenXml(p)
             \/ InsertLayer(p) \/ UpdateLayer(p) \/ WriteAdded(p) \/ WriteRemoved(p)
    BY <2>1, <2>4 DEF EnterFileTransaction, NextChange, ReadXml, OpenXml,
      InsertLayer, UpdateLayer, WriteAdded, WriteRemoved, stores
  <2>5. CASE AddCollection(p) \/ DisableCollection(p)
             \/ LeaveFileTransaction(p) \/ RollBack(p) \/ RestoreXml(p) \/ GiveUpWaiting(p) \/ Fail(p)
    BY <2>1, <2>5 DEF AddCollection, DisableCollection, Harvest,
      LeaveFileTransaction, RollBack, RestoreXml, GiveUpWaiting, Fail, stores
  <2> QED BY <2>2, <2>3, <2>4, <2>5 DEF Step
<1>6. ASSUME NEW q \in Proc \ {p} PROVE Own(q)'
  <2>1. /\ pc'[q] = pc[q] /\ change'[q] = change[q] /\ created'[q] = created[q]
        /\ Current(q)' = Current(q)
    BY OthersKeep
  <2>2. Own(q)
    BY <1>1, <1>2
  <2>3. pc[q] = "update" => Current(q) \in Layer
    BY ChangesFacts DEF TypeInv, ProgressInv, Adds
  <2>4. pc'[q] = "update" => Row(q, Current(q))' # None
    BY <1>5, <2>1, <2>2, <2>3 DEF Own, Row
  <2>5. \A l \in created[q] : layers'[l] = None /\ l \notin sources'
    BY <1>3, <1>4, <1>5, <2>2 DEF Own
  <2>6. \A l \in Layer : layers[l] # None => layers'[l] # None
    BY <1>5
  <2> QED BY <1>5, <2>1, <2>2, <2>4, <2>5, <2>6 DEF Own
<1>7. Own(p)'
  <2>1. Own(p)
    BY <1>1, <1>2
  <2>2. CASE EnterFileTransaction(p) \/ LeaveFileTransaction(p) \/ RestoreXml(p)
    <3>1. pc'[p] # "update" /\ change'[p] = NoChange /\ created'[p] = {}
      BY <1>3, <1>4, <2>2 DEF EnterFileTransaction, LeaveFileTransaction, RestoreXml, Goto, open
    <3> QED BY <3>1 DEF Own, NoChange
  <2>3. CASE RollBack(p) \/ Commit(p)
    <3>1. pc'[p] # "update" /\ change'[p] = NoChange /\ created'[p] = {}
      BY <1>3, <1>4, <2>3 DEF RollBack, Commit, Goto, open
    <3> QED BY <3>1 DEF Own, NoChange
  <2>4. CASE NextChange(p)
    <3>1. /\ UNCHANGED <<change, created, layers, sources>> /\ pc[p] = "next" /\ pc'[p] # "commit"
          /\ Row(p, Current(p))' = Row(p, Current(p)) 
      BY <1>3, <2>4 DEF NextChange, Goto, open, stores, Row
    <3>2. pc'[p] = "update" => Row(p, Current(p)) # None
      BY <1>3, <2>4 DEF NextChange, Goto
    <3> QED BY <2>1, <3>1, <3>2 DEF Own
  <2>5. CASE InsertLayer(p)
    <3>1. CASE layers[Current(p)] # None \/ Current(p) \in sources
      BY <1>3, <2>1, <2>5, <3>1 DEF Own, InsertLayer, Goto, open, stores
    <3>2. CASE layers[Current(p)] = None /\ Current(p) \notin sources
      <4>1. /\ pc'[p] = "add_xml" /\ pc[p] = "insert" /\ created'[p] = created[p] \cup {Current(p)}
            /\ UNCHANGED <<layers, sources>>
        BY <1>3, <2>5, <3>2 DEF InsertLayer, Goto, stores
      <4>2. /\ change'[p][Current(p)] # Unchanged
            /\ \A l \in Layer : l # Current(p) => change'[p][l] = change[p][l]
        BY <1>3, <2>5, <3>2, LayerAssumption DEF InsertLayer
      <4> QED BY <1>3, <2>1, <3>2, <4>1, <4>2 DEF Own
    <3> QED BY <3>1, <3>2
  <2>6. CASE UpdateLayer(p)
    <3>1. /\ pc'[p] = "remove_xml" /\ pc[p] = "update" /\ Current(p) \in Layer
          /\ UNCHANGED <<created, layers, sources>>
      BY <1>3, <2>6 DEF UpdateLayer, Goto, stores
    <3>2. /\ change'[p][Current(p)] # Unchanged
          /\ \A l \in Layer : l # Current(p) => change'[p][l] = change[p][l]
      BY <1>3, <2>6, LayerAssumption DEF UpdateLayer
    <3>3. Current(p) \in created[p] \/ layers[Current(p)] # None
      BY <2>1, <3>1 DEF Own, Row
    <3> QED BY <1>3, <2>1, <3>1, <3>2, <3>3 DEF Own
  <2>7. CASE CommitMapCache(p)
    <3>1. /\ pc[p] = "commit_mapcache" /\ pc'[p] = "commit" /\ created'[p] = {}
          /\ sources' = sources \cup created[p] /\ UNCHANGED <<change, layers>>
      BY <1>3, <2>7 DEF CommitMapCache, Goto
    <3>2. ASSUME NEW l \in Layer, change[p][l] # Unchanged PROVE l \in sources'
      <4>1. \A q \in Proc : pc[q] = "commit" => change[q][l] = Unchanged
        BY <1>4, <3>1, <3>2
      <4>2. layers[l] # None => l \in sources
        BY <1>1, <1>2, <4>1 DEF DatabasesAgree, Clean
      <4> QED BY <2>1, <3>1, <3>2, <4>2 DEF Own
    <3> QED BY <3>1, <3>2 DEF Own
  <2>8. CASE ReadXml(p) \/ OpenXml(p) \/ WriteAdded(p) \/ WriteRemoved(p) \/ GiveUpWaiting(p) \/ Fail(p)
    <3>1. /\ UNCHANGED <<change, created, layers, sources>>
          /\ pc'[p] \notin {"update", "commit"} /\ pc[p] # "commit"
      BY <1>2, <1>3, <2>8 DEF ReadXml, OpenXml, WriteAdded, WriteRemoved, GiveUpWaiting, Fail, Goto, open, stores
    <3> QED BY <2>1, <3>1 DEF Own
  <2>9. CASE AddCollection(p) \/ DisableCollection(p)
    <3>1. /\ UNCHANGED <<change, created, layers, sources>>
          /\ pc'[p] \notin {"update", "commit"} /\ pc[p] # "commit"
      BY <1>3, <2>9 DEF AddCollection, DisableCollection, Harvest, Goto, open, stores
    <3> QED BY <2>1, <3>1 DEF Own
  <2> QED BY <2>2, <2>3, <2>4, <2>5, <2>6, <2>7, <2>8, <2>9 DEF Step
<1>8. DatabasesAgree'
  <2> SUFFICES ASSUME NEW l \in Layer, \A q \in Proc : pc'[q] = "commit" => change'[q][l] = Unchanged
               PROVE  layers'[l] # None <=> l \in sources'
    BY DEF DatabasesAgree
  <2>1. \A q \in Proc \ {p} : pc[q] = "commit" => change[q][l] = Unchanged
    BY OthersKeep
  <2>2. (pc[p] = "commit" => change[p][l] = Unchanged) => (layers[l] # None <=> l \in sources)
    BY <1>1, <1>2, <2>1 DEF DatabasesAgree, Clean
  <2>3. Own(p)
    BY <1>1, <1>2
  <2>4. CASE CommitMapCache(p)
    <3>1. /\ pc[p] = "commit_mapcache" /\ pc'[p] = "commit" /\ UNCHANGED <<change, layers>>
          /\ sources' = sources \cup created[p]
      BY <1>3, <2>4 DEF CommitMapCache, Goto
    <3>2. l \notin created[p]
      BY <2>3, <3>1 DEF Own
    <3> QED BY <2>2, <3>1, <3>2
  <2>5. CASE Commit(p)
    BY <1>3, <2>2, <2>3, <2>5 DEF Own, Commit, Row
  <2>6. CASE pc[p] \notin {"commit_mapcache", "commit"}
    <3>1. UNCHANGED <<layers, sources>>
      <4>1. CASE EnterFileTransaction(p) \/ NextChange(p) \/ ReadXml(p) \/ OpenXml(p)
                 \/ InsertLayer(p) \/ UpdateLayer(p) \/ WriteAdded(p) \/ WriteRemoved(p)
        BY <4>1 DEF EnterFileTransaction, NextChange, ReadXml, OpenXml,
          InsertLayer, UpdateLayer, WriteAdded, WriteRemoved, stores
      <4>2. CASE AddCollection(p) \/ DisableCollection(p) \/ CommitMapCache(p) \/ Commit(p)
                 \/ LeaveFileTransaction(p) \/ RollBack(p) \/ RestoreXml(p) \/ GiveUpWaiting(p) \/ Fail(p)
        BY <2>6, <4>2 DEF AddCollection, DisableCollection, Harvest, CommitMapCache, Commit,
          LeaveFileTransaction, RollBack, RestoreXml, GiveUpWaiting, Fail, stores
      <4> QED BY <4>1, <4>2 DEF Step
    <3> QED BY <2>2, <2>6, <3>1
  <2>7. pc[p] \in {"commit_mapcache", "commit"} => CommitMapCache(p) \/ Commit(p)
    <3>1. CASE EnterFileTransaction(p) \/ NextChange(p) \/ ReadXml(p) \/ OpenXml(p)
               \/ InsertLayer(p) \/ UpdateLayer(p) \/ WriteAdded(p) \/ WriteRemoved(p)
      BY <3>1 DEF EnterFileTransaction, NextChange, ReadXml, OpenXml,
        InsertLayer, UpdateLayer, WriteAdded, WriteRemoved
    <3>2. CASE AddCollection(p) \/ DisableCollection(p) \/ CommitMapCache(p) \/ Commit(p)
               \/ LeaveFileTransaction(p) \/ RollBack(p) \/ RestoreXml(p) \/ GiveUpWaiting(p) \/ Fail(p)
      BY <1>2, <3>2 DEF AddCollection, DisableCollection,
        LeaveFileTransaction, RollBack, RestoreXml, GiveUpWaiting
    <3> QED BY <3>1, <3>2 DEF Step
  <2> QED BY <2>4, <2>5, <2>6, <2>7
<1> QED BY <1>6, <1>7, <1>8

LEMMA SourcesOfBegin ==
  ASSUME TypeInv, RowsInv, SourcesInv, DatabasesAgree,
         NEW p \in Proc, NEW r \in RequestsOf[p], Begin(p, r)
  PROVE  SourcesInv' /\ DatabasesAgree'
<1>1. /\ pc[p] = "idle" /\ pc' = [pc EXCEPT ![p] = "enter"]
      /\ UNCHANGED <<layers, sources, change, created, faults>>
      /\ request' = [request EXCEPT ![p] = r] /\ done' = [done EXCEPT ![p] = 0]
      /\ pc \in [Proc -> Places] /\ request \in [Proc -> Request \cup {NoRequest}] /\ done \in [Proc -> Nat]
  BY DEF Begin, Goto, open, stores, TypeInv, TypeOK
<1>2. \A q \in Proc \ {p} : pc'[q] = pc[q] /\ Row(q, Current(q))' = Row(q, Current(q))
  BY <1>1 DEF Row, Current, Changes
<1>3. pc'[p] = "enter"
  BY <1>1
<1>4. SourcesInv'
  BY <1>1, <1>2, <1>3 DEF SourcesInv
<1>5. DatabasesAgree'
  BY <1>1, <1>2, <1>3 DEF DatabasesAgree
<1> QED BY <1>4, <1>5

LEMMA DatabasesOfNext ==
  ASSUME TypeInv, TypeInv', DatabasesInv, [Next]_vars
  PROVE  DatabasesInv'
<1>1. ASSUME UNCHANGED vars PROVE DatabasesInv'
  <2>1. UNCHANGED <<layers, sources, pc, request, done, change, created, faults>>
    BY <1>1 DEF vars, stores, open, history
  <2>2. \A p \in Proc : /\ Adding(p)' = Adding(p) /\ Current(p)' = Current(p)
                       /\ Row(p, Current(p))' = Row(p, Current(p))
    BY <2>1 DEF Row, Changes, Adding, Current
  <2>3. RowsInv'
    BY <2>1, <2>2 DEF DatabasesInv, RowsInv, NoChange
  <2>4. SourcesInv' /\ DatabasesAgree'
    BY <2>1, <2>2 DEF DatabasesInv, SourcesInv, DatabasesAgree
  <2> QED BY <2>3, <2>4 DEF DatabasesInv
<1> QED BY <1>1, RowsOfStep, SourcesOfStep, RowsOfBegin, SourcesOfBegin DEF Next, Wait, DatabasesInv

-----------------------------------------------------------------------------
(* mapcache.xml *)

\* Who is busy, and what steps leave of the histories.
LEMMA BusyOfStep ==
  ASSUME TypeInv, NEW p \in Proc, Step(p) \/ GiveUpWaiting(p) \/ Fail(p)
  PROVE  /\ pc[p] # "idle" /\ overlapped' = overlapped
         /\ IF RestoreXml(p) THEN restored' = (restored \/ overlapped) ELSE restored' = restored
         /\ pc'[p] = "idle" => LeaveFileTransaction(p) \/ RestoreXml(p)
         /\ pc'[p] # "idle" => UNCHANGED <<accepted, request, refused>>
<1> USE DEF history, stores
<1>1. pc \in [Proc -> Places]
  BY DEF TypeInv, TypeOK
<1>2. CASE EnterFileTransaction(p) \/ NextChange(p) \/ ReadXml(p) \/ OpenXml(p)
  BY <1>1, <1>2 DEF EnterFileTransaction, NextChange, ReadXml, OpenXml, RestoreXml, Goto
<1>3. CASE InsertLayer(p) \/ UpdateLayer(p) \/ WriteAdded(p) \/ WriteRemoved(p)
  BY <1>1, <1>3 DEF InsertLayer, UpdateLayer, WriteAdded, WriteRemoved, RestoreXml, Goto
<1>4. CASE AddCollection(p) \/ DisableCollection(p) \/ CommitMapCache(p) \/ Commit(p)
  BY <1>1, <1>4 DEF AddCollection, DisableCollection, Harvest, CommitMapCache, Commit, RestoreXml, Goto
<1>5. CASE LeaveFileTransaction(p) \/ RollBack(p) \/ GiveUpWaiting(p) \/ Fail(p)
  BY <1>1, <1>5 DEF LeaveFileTransaction, RollBack, GiveUpWaiting, Fail, RestoreXml, Goto
<1>6. CASE RestoreXml(p)
  BY <1>1, <1>6 DEF RestoreXml, Goto
<1> QED BY <1>2, <1>3, <1>4, <1>5, <1>6 DEF Step

LEMMA AloneOfNext ==
  ASSUME TypeInv, AloneInv, [Next]_vars
  PROVE  AloneInv'
<1>1. ASSUME UNCHANGED vars PROVE AloneInv'
  BY <1>1 DEF vars, history, AloneInv
<1>2. ASSUME NEW p \in Proc, Step(p) \/ GiveUpWaiting(p) \/ Fail(p) PROVE AloneInv'
  BY <1>2, BusyOfStep, PlaceOfStep DEF AloneInv, TypeInv, TypeOK
<1>3. ASSUME NEW p \in Proc, NEW r \in RequestsOf[p], Begin(p, r) PROVE AloneInv'
  BY <1>3 DEF Begin, Goto, AloneInv, TypeInv, TypeOK
<1> QED BY <1>1, <1>2, <1>3 DEF Next, Wait

\* As long as the file is not written, the same is shown of it.
LEMMA ShownByOthers ==
  ASSUME TypeInv, NEW p \in Proc, pc[p] \notin Writing
  PROVE  /\ (/\ UNCHANGED <<xml, lock, seen>> /\ pc'[p] \notin Writing
             /\ \A q \in Proc \ {p} : pc'[q] = pc[q]) => Shown' = Shown
         /\ ReadXml(p) => Shown' = Shown
         /\ OpenXml(p) /\ seen[p] = xml => Shown' = Shown
<1>1. /\ lock \in Proc \cup {None} /\ None \notin Proc /\ pc \in [Proc -> Places]
      /\ pc[p] \in Opened => lock = p
      /\ seen \in [Proc -> Sections \cup {Broken, None}]
  BY LayerAssumption DEF TypeInv, TypeOK, LockInv
<1>2. ASSUME UNCHANGED <<xml, lock, seen>>, pc'[p] \notin Writing, \A q \in Proc \ {p} : pc'[q] = pc[q]
      PROVE  Shown' = Shown
  BY <1>1, <1>2 DEF Shown
<1>3. ASSUME ReadXml(p) PROVE Shown' = Shown
  <2>1. CASE lock # None
    <3>1. UNCHANGED <<xml, lock, seen>> /\ pc' = [pc EXCEPT ![p] = "fail"]
      BY <1>3, <2>1 DEF ReadXml, Goto, stores
    <3> QED BY <1>1, <1>2, <3>1 DEF Writing
  <2>2. CASE lock = None
    <3>1. UNCHANGED xml /\ lock' = p /\ pc'[p] \in Opened \cup {"fail"}
      BY <1>1, <1>3, <2>2 DEF ReadXml, Goto, stores, Opened
    <3> QED BY <1>1, <2>2, <3>1 DEF Shown, Opened, Writing
  <2> QED BY <2>1, <2>2
<1>4. ASSUME OpenXml(p), seen[p] = xml PROVE Shown' = Shown
  <2>1. lock = p /\ lock' = p /\ UNCHANGED seen /\ pc'[p] \in Writing /\ pc[p] \in Opened
    BY <1>1, <1>4 DEF OpenXml, Goto, Opened, Writing
  <2> QED BY <1>1, <1>4, <2>1 DEF Shown, Opened, Writing
<1> QED BY <1>2, <1>3, <1>4

LEMMA ShownWritten ==
  ASSUME TypeInv, NEW p \in Proc
  PROVE  /\ WriteAdded(p) => /\ Shown = seen[p] /\ Shown \in Sections
                             /\ Shown' = [Shown EXCEPT ![Current(p)] = request[p].version]
         /\ WriteRemoved(p) => /\ Shown = seen[p] /\ Shown \in Sections
                               /\ Shown' = [Shown EXCEPT ![Current(p)] = None]
<1>1. /\ lock \in Proc \cup {None} /\ None \notin Proc
      /\ pc[p] \in Writing => lock = p /\ seen[p] \in Sections
  BY LayerAssumption DEF TypeInv, TypeOK, LockInv
<1>2. WriteAdded(p) \/ WriteRemoved(p) => pc[p] \in Writing /\ Shown = seen[p] /\ Shown' = xml'
  BY <1>1 DEF WriteAdded, WriteRemoved, Shown, Writing
<1> QED BY <1>1, <1>2 DEF WriteAdded, WriteRemoved

\* The steps that do not change what is shown, nor fail.
LEMMA ShownKept ==
  ASSUME TypeInv, NEW p \in Proc,
         \/ EnterFileTransaction(p) \/ NextChange(p) \/ InsertLayer(p) \/ UpdateLayer(p)
         \/ ReadXml(p) \/ (OpenXml(p) /\ seen[p] = xml)
         \/ AddCollection(p) \/ DisableCollection(p)
         \/ CommitMapCache(p) \/ Commit(p) \/ LeaveFileTransaction(p)
  PROVE  Shown' = Shown /\ pc[p] \notin Writing /\ pc[p] \notin {"idle", "fail", "restore"}
<1>1. pc[p] \notin Writing /\ pc[p] \notin {"idle", "fail", "restore"}
  BY DEF EnterFileTransaction, NextChange, InsertLayer, UpdateLayer, ReadXml, OpenXml, AddCollection,
    DisableCollection, CommitMapCache, Commit, LeaveFileTransaction, Writing
<1>2. \A q \in Proc \ {p} : pc'[q] = pc[q]
  BY PlaceOfStep DEF Step
<1>3. pc \in [Proc -> Places]
  BY DEF TypeInv, TypeOK
<1>4. CASE EnterFileTransaction(p) \/ NextChange(p) \/ InsertLayer(p) \/ UpdateLayer(p)
  <2>1. UNCHANGED <<xml, lock, seen>> /\ pc'[p] \notin Writing
    BY <1>3, <1>4 DEF EnterFileTransaction, NextChange, InsertLayer, UpdateLayer, Goto, stores, Writing
  <2> QED BY <1>1, <1>2, <2>1, ShownByOthers
<1>5. CASE AddCollection(p) \/ DisableCollection(p) \/ CommitMapCache(p) \/ Commit(p) \/ LeaveFileTransaction(p)
  <2>1. UNCHANGED <<xml, lock, seen>> /\ pc'[p] \notin Writing
    BY <1>3, <1>5 DEF AddCollection, DisableCollection, Harvest, CommitMapCache, Commit,
      LeaveFileTransaction, Goto, stores, Writing
  <2> QED BY <1>1, <1>2, <2>1, ShownByOthers
<1> QED BY <1>1, <1>4, <1>5, ShownByOthers

LEMMA ShownOfBegin ==
  ASSUME TypeInv, NEW p \in Proc, NEW r \in RequestsOf[p], Begin(p, r)
  PROVE  Shown' = Shown
<1>1. /\ pc[p] = "idle" /\ pc' = [pc EXCEPT ![p] = "enter"] /\ UNCHANGED <<xml, lock, seen>>
      /\ pc \in [Proc -> Places]
  BY DEF Begin, Goto, stores, TypeInv, TypeOK
<1> QED BY <1>1, ShownByOthers DEF Writing

\* Alone, with the lock not held for writing, the file is shown.
LEMMA ShownAlone ==
  ASSUME TypeInv, NEW p \in Proc, \A q \in Proc \ {p} : pc[q] = "idle", pc[p] \notin Opened \cup Writing
  PROVE  Shown = xml
BY DEF TypeInv, TypeOK, LockInv, Shown, Writing

\* One change more.
LEMMA ReachedNext ==
  ASSUME TypeInv, NEW p \in Proc, done[p] < Len(Changes(p))
  PROVE  Reached(p, done[p] + 1)
           = [Reached(p, done[p]) EXCEPT ![Current(p)] = IF Adding(p) THEN request[p].version ELSE None]
<1>1. PICK d \in Nat, a \in Nat, n \in Nat :
        d = done[p] /\ a = Len(request[p].add) /\ n = Len(Changes(p)) /\ d < n
  BY ChangesFacts DEF TypeInv, TypeOK
<1>2. PICK c : c = Changes(p)
  OBVIOUS
<1>3. Current(p) = c[d + 1] /\ Current(p) \in Layer /\ (Adding(p) <=> d < a)
  BY <1>1, <1>2, ChangesFacts DEF Current, Adding, TypeInv
<1>4. \A l \in Layer :
        /\ (\E i \in 1 .. d + 1 : c[i] = l) <=> (\E i \in 1 .. d : c[i] = l) \/ l = Current(p)
        /\ (\E i \in 1 .. d + 1 : i > a /\ c[i] = l)
             <=> (\E i \in 1 .. d : i > a /\ c[i] = l) \/ (~Adding(p) /\ l = Current(p))
  <2>1. 1 .. d + 1 = (1 .. d) \cup {d + 1}
    BY <1>1
  <2>2. d + 1 > a <=> ~Adding(p)
    BY <1>1, <1>3
  <2> QED BY <1>3, <2>1, <2>2
<1>5. Adding(p) => ~ \E i \in 1 .. d : i > a
  BY <1>1, <1>3
<1>6. \A l \in Layer :
        Reached(p, d + 1)[l] = IF l = Current(p) THEN (IF Adding(p) THEN request[p].version ELSE None)
                               ELSE Reached(p, d)[l]
  <2> SUFFICES ASSUME NEW l \in Layer
               PROVE  Reached(p, d + 1)[l]
                        = IF l = Current(p) THEN (IF Adding(p) THEN request[p].version ELSE None)
                          ELSE Reached(p, d)[l]
    OBVIOUS
  <2>1. Reached(p, d + 1)[l]
          = IF \E i \in 1 .. d + 1 : i > a /\ c[i] = l THEN None
            ELSE IF \E i \in 1 .. d + 1 : c[i] = l THEN request[p].version ELSE accepted[l]
    BY <1>1, <1>2 DEF Reached
  <2>2. Reached(p, d)[l]
          = IF \E i \in 1 .. d : i > a /\ c[i] = l THEN None
            ELSE IF \E i \in 1 .. d : c[i] = l THEN request[p].version ELSE accepted[l]
    BY <1>1, <1>2 DEF Reached
  <2>3. CASE l # Current(p)
    BY <1>4, <2>1, <2>2, <2>3, Zenon
  <2>4. CASE l = Current(p) /\ Adding(p)
    BY <1>4, <1>5, <2>1, <2>4, Zenon
  <2>5. CASE l = Current(p) /\ ~Adding(p)
    BY <1>4, <2>1, <2>5, Zenon
  <2> QED
    BY <2>3, <2>4, <2>5
<1>7. Reached(p, d + 1) = [l \in Layer |-> Reached(p, d + 1)[l]]
  BY DEF Reached
<1>8. DOMAIN Reached(p, d) = Layer /\ Reached(p, d) = [l \in Layer |-> Reached(p, d)[l]]
  BY DEF Reached
<1> QED BY <1>1, <1>3, <1>6, <1>7, <1>8

\* Before the first change, and after the last.
LEMMA ReachedEnds ==
  ASSUME TypeInv, NEW p \in Proc
  PROVE  /\ Reached(p, 0) = accepted
         /\ Reached(p, Len(Changes(p))) = [l \in Layer |-> Wanted(p, l)]
<1>1. accepted \in [Layer -> Version \cup {None}]
  BY DEF TypeInv, TypeOK, Sections
<1>2. Reached(p, 0) = accepted
  BY <1>1 DEF Reached
<1>3. PICK s \in Seq(Layer), t \in Seq(Layer) : s = request[p].add /\ t = request[p].remove
  BY ChangesFacts DEF TypeInv
<1>4. PICK c \in Seq(Layer) : c = s \o t /\ c = Changes(p)
  <2>1. s \o t \in Seq(Layer)
    BY ConcatProperties
  <2> QED BY <1>3, <2>1 DEF Changes
<1>5. PICK a \in Nat, b \in Nat, n \in Nat : a = Len(s) /\ b = Len(t) /\ n = Len(c) /\ n = a + b
  <2>1. Len(s) \in Nat /\ Len(t) \in Nat /\ Len(c) \in Nat
    BY LenProperties
  <2>2. Len(c) = Len(s) + Len(t)
    BY <1>4, ConcatProperties
  <2> QED BY <2>1, <2>2
<1>6. \A i \in 1 .. n : c[i] = IF i <= a THEN s[i] ELSE t[i - a]
  <2>1. \A i \in 1 .. Len(s) + Len(t) : (s \o t)[i] = IF i <= Len(s) THEN s[i] ELSE t[i - Len(s)]
    BY ConcatProperties
  <2> QED BY <1>4, <1>5, <2>1
<1>7. DOMAIN s = 1 .. a /\ DOMAIN t = 1 .. b
  BY <1>5, LenProperties
<1>8. ASSUME NEW l \in Layer
      PROVE  /\ (\E i \in 1 .. n : i > a /\ c[i] = l) <=> (\E i \in 1 .. b : t[i] = l)
             /\ (\E i \in 1 .. n : c[i] = l)
                  <=> (\E i \in 1 .. a : s[i] = l) \/ (\E i \in 1 .. b : t[i] = l)
  <2>1. ASSUME NEW i \in 1 .. n, i > a, c[i] = l PROVE i - a \in 1 .. b /\ t[i - a] = l
    BY <1>5, <1>6, <2>1
  <2>2. ASSUME NEW i \in 1 .. b, t[i] = l
        PROVE  i + a \in 1 .. n /\ i + a > a /\ c[i + a] = l
    <3>1. i + a \in 1 .. n /\ i + a > a /\ (i + a) - a = i /\ ~(i + a <= a)
      BY <1>5
    <3> QED BY <1>6, <2>2, <3>1
  <2>3. ASSUME NEW i \in 1 .. a, s[i] = l PROVE i \in 1 .. n /\ c[i] = l
    <3>1. i \in 1 .. n /\ i <= a
      BY <1>5
    <3> QED BY <1>6, <2>3, <3>1
  <2>4. ASSUME NEW i \in 1 .. n, i <= a, c[i] = l PROVE i \in 1 .. a /\ s[i] = l
    BY <1>5, <1>6, <2>4
  <2>5. \A i \in 1 .. n : i > a \/ i <= a
    BY <1>5
  <2> QED BY <2>1, <2>2, <2>3, <2>4, <2>5
<1>9. \A l \in Layer : Reached(p, n)[l] = Wanted(p, l)
  <2> SUFFICES ASSUME NEW l \in Layer PROVE Reached(p, n)[l] = Wanted(p, l)
    OBVIOUS
  <2>1. Wanted(p, l) = IF \E i \in 1 .. b : t[i] = l THEN None
                       ELSE IF \E i \in 1 .. a : s[i] = l THEN request[p].version ELSE accepted[l]
    BY <1>3, <1>7 DEF Wanted
  <2>2. Reached(p, n)[l] = IF \E i \in 1 .. n : i > a /\ c[i] = l THEN None
                           ELSE IF \E i \in 1 .. n : c[i] = l THEN request[p].version ELSE accepted[l]
    BY <1>3, <1>4, <1>5 DEF Reached
  <2> QED BY <1>8, <2>1, <2>2
<1>10. Reached(p, n) = [l \in Layer |-> Reached(p, n)[l]]
  BY DEF Reached
<1> QED BY <1>2, <1>4, <1>5, <1>9, <1>10

-----------------------------------------------------------------------------
(* What is served *)

LEMMA BackupOfStep ==
  ASSUME TypeInv, RowsInv, AloneInv, ServedInv,
         NEW p \in Proc, Step(p) \/ GiveUpWaiting(p) \/ Fail(p)
  PROVE  BackupInv'
<1> SUFFICES ASSUME ~overlapped PROVE BackupInv'
  BY BusyOfStep DEF BackupInv
<1>1. /\ \A q \in Proc \ {p} : pc[q] = "idle" /\ pc'[q] = "idle"
      /\ pc \in [Proc -> Places] /\ backup \in [Proc -> Sections \cup {Broken, None}]
  BY BusyOfStep, PlaceOfStep DEF AloneInv, TypeInv, TypeOK
<1>2. BackupInv /\ ShownInv
  BY DEF ServedInv
<1>3. CASE EnterFileTransaction(p)
  <2>1. /\ pc[p] = "enter" /\ backup'[p] = xml /\ UNCHANGED layers
    BY <1>1, <1>3 DEF EnterFileTransaction, stores
  <2>2. Shown = xml
    BY <1>1, <2>1, ShownAlone DEF Opened, Writing
  <2>3. NoneFails /\ ~restored
    BY <1>1, <2>1 DEF NoneFails, AloneInv
  <2>4. \A q \in Proc, l \in Layer : change[q][l] = Unchanged
    BY <1>1, <2>1 DEF RowsInv, NoChange
  <2>5. xml \in Sections /\ \A l \in Layer : xml[l] # None => layers[l] = xml[l]
    BY <1>2, <2>2, <2>3, <2>4 DEF ShownInv, RowShown
  <2> QED BY <1>1, <2>1, <2>5 DEF BackupInv
<1>4. CASE pc'[p] \in {"idle", "leave"}
  BY <1>1, <1>4 DEF BackupInv
<1>5. CASE UNCHANGED <<backup, layers>> /\ pc[p] \notin {"idle", "enter", "leave"}
  BY <1>1, <1>2, <1>5 DEF BackupInv
<1>6. CASE NextChange(p) \/ ReadXml(p) \/ OpenXml(p) \/ InsertLayer(p) \/ UpdateLayer(p)
           \/ WriteAdded(p) \/ WriteRemoved(p)
  BY <1>5, <1>6 DEF NextChange, ReadXml, OpenXml, InsertLayer, UpdateLayer, WriteAdded, WriteRemoved, stores
<1>7. CASE AddCollection(p) \/ DisableCollection(p) \/ CommitMapCache(p)
           \/ RollBack(p) \/ GiveUpWaiting(p) \/ Fail(p)
  BY <1>5, <1>7 DEF AddCollection, DisableCollection, Harvest, CommitMapCache, RollBack,
    GiveUpWaiting, Fail, stores
<1>8. CASE Commit(p) \/ LeaveFileTransaction(p) \/ RestoreXml(p)
  BY <1>1, <1>4, <1>8 DEF Commit, LeaveFileTransaction, RestoreXml, Goto
<1> QED BY <1>3, <1>6, <1>7, <1>8 DEF Step

\* A step that leaves the sections and rows.
LEMMA RowShownKept ==
  ASSUME TypeInv, NEW p \in Proc, Step(p) \/ GiveUpWaiting(p) \/ Fail(p),
         NEW l \in Layer, RowShown(l), Shown'[l] = Shown[l],
         change'[p][l] = change[p][l], layers'[l] = layers[l],
         change[p][l] # Unchanged /\ Replaced(p, l) => Replaced(p, l)'
  PROVE  RowShown(l)'
<1>1. \A q \in Proc \ {p} : change'[q] = change[q] /\ Replaced(q, l)' = Replaced(q, l)
  BY OthersKeep DEF Replaced
<1> QED BY <1>1 DEF RowShown

LEMMA ShownOfStep ==
  ASSUME TypeInv, RowsInv, AloneInv, ServedInv,
         NEW p \in Proc, Step(p) \/ GiveUpWaiting(p) \/ Fail(p)
  PROVE  ShownInv'
<1> SUFFICES ASSUME ~restored', NoneFails'
             PROVE  /\ Shown' \in Sections
                    /\ \A q \in Proc : pc'[q] \in Opened => seen'[q] = xml'
                    /\ \A l \in Layer : RowShown(l)'
  BY DEF ShownInv, Sections
<1>1. /\ \A q \in Proc \ {p} :
           /\ pc'[q] = pc[q] /\ change'[q] = change[q] /\ seen'[q] = seen[q]
           /\ \A l \in Layer : Replaced(q, l)' = Replaced(q, l)
      /\ pc \in [Proc -> Places] /\ change \in [Proc -> [Layer -> Version \cup {Unchanged}]]
      /\ layers \in Sections /\ lock \in Proc \cup {None} /\ None \notin Proc
      /\ seen \in [Proc -> Sections \cup {Broken, None}] /\ pc[p] # "idle"
      /\ UNCHANGED <<request, done>> => Adding(p)' = Adding(p) /\ Current(p)' = Current(p)
  <2>1. \A q \in Proc \ {p} :
           /\ pc'[q] = pc[q] /\ change'[q] = change[q] /\ seen'[q] = seen[q]
           /\ \A l \in Layer : Replaced(q, l)' = Replaced(q, l)
    BY OthersKeep DEF Replaced
  <2>2. UNCHANGED <<request, done>> => Adding(p)' = Adding(p) /\ Current(p)' = Current(p)
    BY DEF Adding, Current, Changes
  <2> QED BY <2>1, <2>2, LayerAssumption, BusyOfStep DEF TypeInv, TypeOK
<1>2. CASE RestoreXml(p)
  <2>1. ~overlapped /\ xml' = backup[p] /\ pc[p] = "restore" /\ pc'[p] = "idle"
        /\ UNCHANGED <<layers, lock, seen, change>>
    BY <1>1, <1>2, BusyOfStep DEF RestoreXml, Goto, open
  <2>2. \A q \in Proc \ {p} : pc[q] = "idle"
    BY <1>1, <2>1 DEF AloneInv
  <2>3. \A q \in Proc : change[q] = NoChange
    BY <2>1, <2>2 DEF RowsInv
  <2>4. lock = None
    BY <1>1, <2>1, <2>2 DEF TypeInv, LockInv, Opened, Writing
  <2>5. Shown' = xml' /\ \A q \in Proc : pc'[q] = "idle"
    BY <1>1, <2>1, <2>2, <2>4 DEF Shown
  <2>6. backup[p] \in Sections /\ \A l \in Layer : backup[p][l] # None => layers[l] = backup[p][l]
    BY <2>1 DEF ServedInv, BackupInv
  <2> QED BY <2>1, <2>3, <2>5, <2>6 DEF RowShown, NoChange, Opened
<1>3. CASE pc[p] = "fail"
  <2>1. Step(p) /\ ~GiveUpWaiting(p) /\ ~Fail(p)
    BY <1>3 DEF GiveUpWaiting, Fail
  <2>2. RollBack(p)
    BY <1>3, <2>1 DEF Step, EnterFileTransaction, NextChange, InsertLayer, UpdateLayer, ReadXml, OpenXml,
      WriteAdded, WriteRemoved, AddCollection, DisableCollection, CommitMapCache, Commit,
      LeaveFileTransaction, RestoreXml
  <2>3. pc'[p] = "restore"
    BY <1>1, <2>2 DEF RollBack, Goto
  <2> QED BY <2>3 DEF NoneFails
<1>4. CASE pc[p] # "fail" /\ ~RestoreXml(p)
  <2>1. ~GiveUpWaiting(p) /\ ~Fail(p) /\ ~RollBack(p) /\ pc'[p] # "fail"
    BY <1>1, <1>4 DEF GiveUpWaiting, Fail, RollBack, Goto, NoneFails
  <2>2. pc[p] # "restore"
    BY <1>4, <2>1 DEF Step, EnterFileTransaction, NextChange, InsertLayer, UpdateLayer, ReadXml, OpenXml,
      WriteAdded, WriteRemoved, AddCollection, DisableCollection, CommitMapCache, Commit,
      LeaveFileTransaction
  <2>3. ~restored /\ NoneFails
    BY <1>1, <1>4, <2>2, BusyOfStep DEF NoneFails
  <2>4. Shown \in Sections /\ (\A q \in Proc : pc[q] \in Opened => seen[q] = xml)
        /\ \A l \in Layer : RowShown(l)
    BY <2>3 DEF ServedInv, ShownInv
  <2>5. /\ \A q \in Proc \ {p}, l \in Layer : change[p][l] = Unchanged \/ change[q][l] = Unchanged
        /\ pc[p] \in {"add_xml", "add_open", "add_write"} \/ (pc[p] \in Removes /\ Adding(p)) =>
             change[p][Current(p)] = request[p].version
        /\ pc[p] = "insert" => change[p][Current(p)] = Unchanged
    BY DEF RowsInv
  <2>6. /\ pc[p] \in Adds \cup Removes => Current(p) \in Layer
        /\ pc[p] \in Adds => Adding(p) /\ request[p].version \in Version
    BY ChangesFacts, RequestFacts, <1>1 DEF TypeInv, ProgressInv
  <2>7. \A q \in Proc : pc'[q] \in Opened => seen'[q] = xml'
    <3>1. ASSUME NEW q \in Proc \ {p}, pc'[q] \in Opened PROVE seen'[q] = xml'
      <4>1. pc[q] \in Opened /\ lock = q
        BY <1>1, <3>1 DEF TypeInv, LockInv
      <4>2. pc[p] \notin Opened \cup Writing
        BY <4>1 DEF TypeInv, LockInv
      <4>3. UNCHANGED xml
        <5>1. CASE EnterFileTransaction(p) \/ NextChange(p) \/ InsertLayer(p) \/ UpdateLayer(p) \/ ReadXml(p)
          BY <5>1 DEF EnterFileTransaction, NextChange, InsertLayer, UpdateLayer, ReadXml, stores
        <5>2. CASE AddCollection(p) \/ DisableCollection(p) \/ CommitMapCache(p) \/ Commit(p)
                   \/ LeaveFileTransaction(p)
          BY <5>2 DEF AddCollection, DisableCollection, Harvest, CommitMapCache, Commit,
            LeaveFileTransaction, stores
        <5>3. CASE OpenXml(p) \/ WriteAdded(p) \/ WriteRemoved(p)
          BY <4>2, <5>3 DEF OpenXml, WriteAdded, WriteRemoved, Opened, Writing
        <5> QED BY <1>4, <2>1, <5>1, <5>2, <5>3 DEF Step
      <4> QED BY <1>1, <2>4, <4>1, <4>3
    <3>2. pc'[p] \in Opened => ReadXml(p)
      <4>1. CASE EnterFileTransaction(p) \/ NextChange(p) \/ InsertLayer(p) \/ UpdateLayer(p) \/ OpenXml(p)
        BY <1>1, <4>1 DEF EnterFileTransaction, NextChange, InsertLayer, UpdateLayer, OpenXml, Goto, Opened
      <4>2. CASE AddCollection(p) \/ DisableCollection(p) \/ CommitMapCache(p) \/ Commit(p)
                 \/ LeaveFileTransaction(p) \/ WriteAdded(p) \/ WriteRemoved(p)
        BY <1>1, <4>2 DEF AddCollection, DisableCollection, Harvest, CommitMapCache, Commit,
          LeaveFileTransaction, WriteAdded, WriteRemoved, Goto, Opened
      <4> QED BY <1>4, <2>1, <4>1, <4>2 DEF Step
    <3>3. ReadXml(p) => pc'[p] = "fail" \/ seen'[p] = xml'
      BY <1>1 DEF ReadXml, Goto, stores
    <3> QED BY <2>1, <3>1, <3>2, <3>3
  <2>8. CASE InsertLayer(p)
    <3>1. Shown' = Shown /\ pc[p] = "insert" /\ UNCHANGED <<layers, request, done>>
      BY <2>8, ShownKept DEF InsertLayer, stores
    <3>2. /\ layers[Current(p)] = None /\ \A q \in Proc \ {p} : change[q][Current(p)] = Unchanged
          /\ change' = [change EXCEPT ![p][Current(p)] = request[p].version]
      BY <1>1, <2>1, <2>6, <2>8, <3>1 DEF InsertLayer, Goto, RowBusy, Adds
    <3>3. Current(p) \in Layer /\ Shown[Current(p)] = None
      BY <2>4, <2>5, <2>6, <3>1, <3>2 DEF RowShown, Adds
    <3>4. RowShown(Current(p))'
      BY <2>4, <3>1, <3>2, <3>3 DEF RowShown, Current, Changes
    <3>5. ASSUME NEW l \in Layer, l # Current(p) PROVE RowShown(l)'
      <4>1. change'[p][l] = change[p][l]
        BY <1>1, <3>2, <3>3, <3>5
      <4>2. ~Replaced(p, l)
        BY <3>1 DEF Replaced, Removes
      <4> QED BY <2>4, <3>1, <3>5, <4>1, <4>2, RowShownKept
    <3> QED BY <2>4, <2>7, <3>1, <3>4, <3>5 DEF Current, Changes
  <2>9. CASE UpdateLayer(p)
    <3>1. Shown' = Shown /\ pc[p] = "update" /\ pc'[p] = "remove_xml" /\ UNCHANGED <<layers, request, done>>
      BY <1>1, <2>9, ShownKept DEF UpdateLayer, Goto, stores
    <3>2. /\ \A q \in Proc \ {p} : change[q][Current(p)] = Unchanged
          /\ change' = [change EXCEPT ![p][Current(p)] = request[p].version]
          /\ Current(p) \in Layer /\ request[p].version \in Version /\ Adding(p)
      BY <2>6, <2>9, <3>1 DEF UpdateLayer, RowBusy, Adds
    <3>3. Replaced(p, Current(p))' /\ Current(p)' = Current(p)
      BY <1>1, <3>1, <3>2 DEF Replaced, Removes
    <3>4. \A l \in Layer : l = Current(p) => RowShown(l)'
      <4>1. change'[p][Current(p)] # Unchanged
        BY <1>1, <3>2, LayerAssumption
      <4> QED BY <1>1, <3>2, <3>3, <4>1 DEF RowShown, Replaced
    <3>5. ASSUME NEW l \in Layer, l # Current(p) PROVE RowShown(l)'
      <4>1. change'[p][l] = change[p][l]
        BY <1>1, <3>2, <3>5
      <4>2. ~Replaced(p, l)
        BY <3>1 DEF Replaced, Removes
      <4> QED BY <2>4, <3>1, <3>5, <4>1, <4>2, RowShownKept
    <3> QED BY <2>4, <2>7, <3>1, <3>4, <3>5
  <2>10. CASE Commit(p)
    <3>1. /\ Shown' = Shown /\ pc[p] = "commit" /\ layers' = [l \in Layer |-> Row(p, l)]
          /\ change' = [change EXCEPT ![p] = NoChange]
      BY <2>10, ShownKept DEF Commit
    <3>2. \A l \in Layer : RowShown(l)'
      <4> SUFFICES ASSUME NEW l \in Layer PROVE RowShown(l)'
        OBVIOUS
      <4>1. change'[p][l] = Unchanged /\ ~Replaced(p, l)
        BY <1>1, <3>1 DEF NoChange, Replaced, Removes
      <4>2. CASE change[p][l] = Unchanged
        <5>1. layers'[l] = layers[l]
          BY <3>1, <4>2 DEF Row
        <5> QED BY <2>4, <3>1, <4>1, <4>2, <5>1, RowShownKept
      <4>3. CASE change[p][l] # Unchanged
        <5>1. layers'[l] = change[p][l] /\ \A q \in Proc : change'[q][l] = Unchanged
          BY <1>1, <2>5, <3>1, <4>1, <4>3 DEF Row
        <5>2. Shown[l] # None => Shown[l] = change[p][l]
          BY <2>4, <4>1, <4>3 DEF RowShown
        <5> QED BY <3>1, <5>1, <5>2 DEF RowShown
      <4> QED BY <4>2, <4>3
    <3> QED BY <2>4, <2>7, <3>1, <3>2
  <2>11. CASE WriteAdded(p)
    <3>1. /\ pc[p] = "add_write" /\ Shown' = [Shown EXCEPT ![Current(p)] = request[p].version]
          /\ UNCHANGED <<layers, change, request, done>>
      BY <2>11, ShownWritten DEF WriteAdded, open
    <3>2. Current(p) \in Layer /\ change[p][Current(p)] = request[p].version
          /\ request[p].version \in Version /\ request[p].version # Unchanged
      BY <2>5, <2>6, <3>1, LayerAssumption DEF Adds
    <3>3. Shown' \in Sections
      BY <2>4, <3>1, <3>2 DEF Sections
    <3>4. \A l \in Layer : RowShown(l)'
      <4> SUFFICES ASSUME NEW l \in Layer PROVE RowShown(l)'
        OBVIOUS
      <4>1. CASE l = Current(p)
        <5>1. Shown'[l] = change'[p][l] /\ \A q \in Proc \ {p} : change'[q][l] = Unchanged
          BY <1>1, <2>4, <2>5, <3>1, <3>2, <4>1 DEF Sections
        <5> QED BY <3>1, <3>2, <4>1, <5>1 DEF RowShown
      <4>2. CASE l # Current(p)
        <5>1. Shown'[l] = Shown[l] /\ ~Replaced(p, l)
          BY <2>4, <3>1, <4>2 DEF Sections, Replaced, Removes
        <5> QED BY <2>4, <3>1, <5>1, RowShownKept
      <4> QED BY <4>1, <4>2
    <3> QED BY <2>7, <3>3, <3>4
  <2>12. CASE WriteRemoved(p)
    <3>1. /\ pc[p] = "remove_write" /\ Shown' = [Shown EXCEPT ![Current(p)] = None]
          /\ UNCHANGED <<layers, change, request, done>>
      BY <2>12, ShownWritten DEF WriteRemoved, open
    <3>2. Shown' \in Sections
      BY <2>4, <3>1 DEF Sections
    <3>3. \A l \in Layer : RowShown(l)'
      <4> SUFFICES ASSUME NEW l \in Layer PROVE RowShown(l)'
        OBVIOUS
      <4>1. CASE l = Current(p)
        BY <2>4, <3>1, <4>1 DEF RowShown, Sections
      <4>2. CASE l # Current(p)
        <5>1. Shown'[l] = Shown[l] /\ ~Replaced(p, l)
          BY <2>4, <3>1, <4>2 DEF Sections, Replaced
        <5> QED BY <2>4, <3>1, <5>1, RowShownKept
      <4> QED BY <4>1, <4>2
    <3> QED BY <2>7, <3>2, <3>3
  <2>13. CASE ReadXml(p) \/ OpenXml(p)
    <3>1. OpenXml(p) => pc[p] \in Opened
      BY DEF OpenXml, Opened
    <3>2. Shown' = Shown
      BY <2>4, <2>13, <3>1, ShownKept
    <3>3. UNCHANGED <<layers, change, request, done>>
      BY <2>13 DEF ReadXml, OpenXml, stores, open
    <3>4. pc[p] \in Removes => pc'[p] \in Removes
      BY <1>1, <2>1, <2>13 DEF ReadXml, OpenXml, Goto, Removes
    <3>5. \A l \in Layer : Replaced(p, l) => Replaced(p, l)'
      BY <1>1, <3>3, <3>4 DEF Replaced
    <3> QED BY <2>4, <2>7, <3>2, <3>3, <3>5, RowShownKept
  <2>14. CASE EnterFileTransaction(p) \/ NextChange(p) \/ AddCollection(p) \/ DisableCollection(p)
              \/ CommitMapCache(p) \/ LeaveFileTransaction(p)
    <3>1. Shown' = Shown
      BY <2>14, ShownKept
    <3>2. UNCHANGED <<layers, change>> /\ pc[p] \notin Removes
      BY <2>14 DEF EnterFileTransaction, NextChange, AddCollection, DisableCollection, Harvest,
        CommitMapCache, LeaveFileTransaction, stores, open, Removes
    <3>3. \A l \in Layer : ~Replaced(p, l)
      BY <3>2 DEF Replaced
    <3> QED BY <2>4, <2>7, <3>1, <3>2, <3>3, RowShownKept
  <2> QED BY <1>4, <2>1, <2>8, <2>9, <2>10, <2>11, <2>12, <2>13, <2>14 DEF Step
<1> QED BY <1>2, <1>3, <1>4

LEMMA ServedOfBegin ==
  ASSUME TypeInv, ServedInv, NEW p \in Proc, NEW r \in RequestsOf[p], Begin(p, r)
  PROVE  ServedInv'
<1>1. /\ pc[p] = "idle" /\ pc' = [pc EXCEPT ![p] = "enter"]
      /\ request' = [request EXCEPT ![p] = r] /\ done' = [done EXCEPT ![p] = 0]
      /\ UNCHANGED <<backup, layers, seen, xml, change, restored>> /\ (~overlapped' => ~overlapped)
      /\ pc \in [Proc -> Places] /\ request \in [Proc -> Request \cup {NoRequest}] /\ done \in [Proc -> Nat]
  BY DEF Begin, Goto, stores, open, TypeInv, TypeOK
<1>2. Shown' = Shown /\ pc'[p] = "enter"
  BY <1>1, ShownOfBegin
<1>3. \A q \in Proc \ {p} : pc'[q] = pc[q]
  BY <1>1
<1>4. BackupInv'
  BY <1>1, <1>2, <1>3 DEF ServedInv, BackupInv
<1>5. \A q \in Proc, l \in Layer : Replaced(q, l)' = Replaced(q, l)
  BY <1>1 DEF Replaced, Removes, Adding, Current, Changes
<1>6. ShownInv'
  <2>1. NoneFails' => NoneFails
    BY <1>1, <1>3 DEF NoneFails
  <2>2. \A l \in Layer : RowShown(l) => RowShown(l)'
    BY <1>1, <1>2, <1>5 DEF RowShown
  <2>3. \A q \in Proc : pc'[q] \in Opened => pc[q] \in Opened
    BY <1>2, <1>3 DEF Opened
  <2> QED BY <1>1, <1>2, <2>1, <2>2, <2>3 DEF ServedInv, ShownInv, Sections
<1> QED BY <1>4, <1>6 DEF ServedInv

LEMMA ServedOfNext ==
  ASSUME TypeInv, RowsInv, AloneInv, ServedInv, [Next]_vars
  PROVE  ServedInv'
<1>1. ASSUME UNCHANGED vars PROVE ServedInv'
  <2>1. UNCHANGED <<layers, xml, lock, pc, request, done, change, backup, seen, overlapped, restored>>
    BY <1>1 DEF vars, stores, open, history
  <2>2. Shown' = Shown /\ \A p \in Proc, l \in Layer : Replaced(p, l)' = Replaced(p, l)
    BY <2>1 DEF Shown, Replaced, Adding, Current, Changes
  <2>3. \A l \in Layer : RowShown(l)' = RowShown(l)
    BY <2>1, <2>2 DEF RowShown
  <2> QED BY <2>1, <2>2, <2>3 DEF ServedInv, BackupInv, ShownInv, NoneFails, Sections
<1> QED BY <1>1, BackupOfStep, ShownOfStep, ServedOfBegin DEF Next, Wait, ServedInv

-----------------------------------------------------------------------------
(* Requests that do not overlap *)

LEMMA ReachedType ==
  ASSUME TypeInv, NEW p \in Proc, pc[p] # "idle", NEW k
  PROVE  Reached(p, k) \in Sections
BY RequestFacts DEF Reached, Sections, TypeInv, TypeOK

LEMMA StepsOfStep ==
  ASSUME TypeInv, AloneInv, ServedInv, StepInv,
         NEW p \in Proc, Step(p) \/ GiveUpWaiting(p) \/ Fail(p)
  PROVE  StepInv'
<1> SUFFICES ASSUME ~overlapped
             PROVE  (Idle' => xml' = accepted') /\ \A q \in Proc : At(q)'
  BY BusyOfStep DEF StepInv
<1>1. /\ \A q \in Proc \ {p} : pc[q] = "idle" /\ pc'[q] = "idle"
      /\ pc \in [Proc -> Places] /\ pc[p] # "idle"
      /\ pc'[p] = "idle" => LeaveFileTransaction(p) \/ RestoreXml(p)
      /\ pc'[p] # "idle" => UNCHANGED <<accepted, request>>
      /\ backup \in [Proc -> Sections \cup {Broken, None}] /\ done \in [Proc -> Nat]
  BY BusyOfStep, PlaceOfStep DEF AloneInv, TypeInv, TypeOK
<1>2. At(p)
  BY DEF StepInv
<1>3. \A q \in Proc \ {p} : At(q)'
  BY <1>1 DEF At, Removes, Ending
<1>4. ASSUME UNCHANGED <<accepted, request>>
      PROVE  /\ \A k : Reached(p, k)' = Reached(p, k)
             /\ UNCHANGED done => Current(p)' = Current(p) /\ Adding(p)' = Adding(p)
  BY <1>4 DEF Reached, Changes, Current, Adding
<1>5. /\ pc[p] \in Adds \cup Removes => Current(p) \in Layer
      /\ pc[p] \in Adds \cup Removes \cup {"disable"} => done[p] < Len(Changes(p))
      /\ pc[p] \in Adds => Adding(p)
  BY ChangesFacts DEF TypeInv, ProgressInv
<1>6. pc[p] \in Opened => seen[p] = xml
  <2>1. pc[p] \in Opened => NoneFails /\ ~restored
    BY <1>1 DEF NoneFails, AloneInv, Opened
  <2> QED BY <2>1 DEF ServedInv, ShownInv
<1>7. \A k : Reached(p, k) \in Sections
  BY <1>1, ReachedType
<1>8. /\ done[p] < Len(Changes(p)) =>
           Reached(p, done[p] + 1)
             = [Reached(p, done[p]) EXCEPT ![Current(p)] = IF Adding(p) THEN request[p].version ELSE None]
      /\ Reached(p, 0) = accepted
      /\ Reached(p, Len(Changes(p))) = [l \in Layer |-> Wanted(p, l)]
  BY ReachedNext, ReachedEnds
<1>9. pc'[p] # "idle" => ~Idle'
  BY DEF Idle
<1>10. CASE LeaveFileTransaction(p)
  <2>1. /\ pc[p] = "leave" /\ pc'[p] = "idle" /\ accepted' = [l \in Layer |-> Wanted(p, l)] /\ UNCHANGED xml
    BY <1>1, <1>10 DEF LeaveFileTransaction, Goto, stores
  <2>2. Shown = xml /\ Shown = Reached(p, done[p]) /\ done[p] = Len(Changes(p))
    BY <1>1, <1>2, <2>1, ShownAlone DEF At, Ending, Opened, Writing, TypeInv, ProgressInv
  <2>3. At(p)'
    BY <2>1 DEF At, Removes, Ending
  <2> QED BY <1>3, <1>8, <2>1, <2>2, <2>3
<1>11. CASE RestoreXml(p)
  <2>1. pc[p] = "restore" /\ pc'[p] = "idle" /\ UNCHANGED accepted /\ xml' = backup[p]
    BY <1>1, <1>11 DEF RestoreXml, Goto
  <2>2. At(p)'
    BY <2>1 DEF At, Removes, Ending
  <2> QED BY <1>2, <1>3, <2>1, <2>2 DEF At
<1>12. ASSUME ~LeaveFileTransaction(p), ~RestoreXml(p) PROVE At(p)' /\ ~Idle'
  <2>1. pc'[p] # "idle" /\ ~Idle' /\ UNCHANGED <<accepted, request>>
    BY <1>1, <1>9, <1>12
  <2>2. \A k : Reached(p, k)' = Reached(p, k)
    BY <1>4, <2>1
  <2>3. UNCHANGED done => Current(p)' = Current(p) /\ Adding(p)' = Adding(p)
    BY <1>4, <2>1
  <2>4. CASE EnterFileTransaction(p)
    <3>1. pc[p] = "enter" /\ pc'[p] = "next" /\ backup'[p] = xml /\ UNCHANGED done
      BY <1>1, <2>4 DEF EnterFileTransaction, Goto
    <3>2. Shown' = Shown /\ Shown = xml /\ done[p] = 0 /\ xml = accepted
      BY <1>1, <1>2, <2>4, <3>1, ShownKept, ShownAlone DEF At, Opened, Writing, TypeInv, ProgressInv
    <3> QED BY <1>8, <2>1, <2>2, <3>1, <3>2 DEF At, Removes, Ending
  <2>5. CASE NextChange(p)
    <3>1. /\ pc[p] = "next" /\ UNCHANGED <<done, backup>>
          /\ pc'[p] \in {"insert", "update", "remove_xml", "commit_mapcache", "fail"}
      <4>1. CASE done[p] = Len(Changes(p))
        BY <1>1, <2>5, <4>1 DEF NextChange, Goto
      <4>2. CASE done[p] # Len(Changes(p))
        BY <1>1, <2>5, <4>2 DEF NextChange, Goto
      <4> QED BY <4>1, <4>2
    <3>2. Shown' = Shown
      BY <2>5, ShownKept
    <3> QED BY <1>2, <2>1, <2>2, <3>1, <3>2 DEF At, Removes, Ending
  <2>6. CASE InsertLayer(p)
    <3>1. pc[p] = "insert" /\ UNCHANGED <<done, backup>> /\ pc'[p] \in {"add_xml", "fail"} /\ Shown' = Shown
      BY <1>1, <2>6, ShownKept DEF InsertLayer, Goto
    <3>2. Shown = Reached(p, done[p]) /\ backup[p] = accepted
      BY <1>2, <3>1 DEF At
    <3>3. [Shown EXCEPT ![Current(p)] = request[p].version] = Reached(p, done[p] + 1)
      BY <1>5, <1>8, <3>1, <3>2 DEF Adds
    <3> QED BY <1>7, <2>1, <2>2, <2>3, <3>1, <3>2, <3>3 DEF At, Removes, Ending, Sections
  <2>7. CASE UpdateLayer(p)
    <3>1. pc[p] = "update" /\ UNCHANGED <<done, backup>> /\ pc'[p] = "remove_xml" /\ Shown' = Shown
      BY <1>1, <2>7, ShownKept DEF UpdateLayer, Goto
    <3> QED BY <1>2, <2>1, <2>2, <3>1 DEF At, Removes, Ending
  <2>8. CASE ReadXml(p) \/ OpenXml(p)
    <3>1. UNCHANGED <<done, backup>> /\ Shown' = Shown
      <4>1. OpenXml(p) => pc[p] \in Opened
        BY DEF OpenXml, Opened
      <4>2. Shown' = Shown
        BY <1>6, <2>8, <4>1, ShownKept
      <4> QED BY <2>8, <4>2 DEF ReadXml, OpenXml
    <3>2. \/ pc'[p] = "fail"
          \/ pc[p] \in Removes /\ pc'[p] \in Removes
          \/ pc[p] \in {"add_xml", "add_open", "add_write"} /\ pc'[p] \in {"add_xml", "add_open", "add_write"}
      BY <1>1, <2>8 DEF ReadXml, OpenXml, Goto, Removes
    <3>3. backup'[p] = accepted'
      <4>1. pc[p] \notin {"idle", "enter"}
        BY <2>8 DEF ReadXml, OpenXml, Opened
      <4> QED BY <1>2, <2>1, <3>1, <4>1 DEF At
    <3>4. CASE pc'[p] = "fail"
      BY <2>1, <3>3, <3>4 DEF At, Removes, Ending
    <3>5. CASE pc[p] \in Removes /\ pc'[p] \in Removes
      BY <1>2, <2>1, <2>2, <3>1, <3>3, <3>5 DEF At, Removes, Ending
    <3>6. CASE pc[p] \in {"add_xml", "add_open", "add_write"} /\ pc'[p] \in {"add_xml", "add_open", "add_write"}
      BY <1>2, <2>1, <2>2, <2>3, <3>1, <3>3, <3>6 DEF At, Removes, Ending, Sections
    <3> QED BY <3>2, <3>4, <3>5, <3>6
  <2>9. CASE WriteAdded(p)
    <3>1. /\ pc[p] = "add_write" /\ pc'[p] = "harvest" /\ UNCHANGED <<done, backup>>
          /\ Shown' = [Shown EXCEPT ![Current(p)] = request[p].version]
      BY <1>1, <2>9, ShownWritten DEF WriteAdded, Goto
    <3> QED BY <1>2, <2>1, <2>2, <3>1 DEF At, Removes, Ending
  <2>10. CASE WriteRemoved(p)
    <3>1. /\ pc[p] = "remove_write" /\ UNCHANGED <<done, backup>> /\ Shown \in Sections
          /\ pc'[p] = IF Adding(p) THEN "add_xml" ELSE "disable"
          /\ Shown' = [Shown EXCEPT ![Current(p)] = None]
      BY <1>1, <2>10, ShownWritten DEF WriteRemoved, Goto
    <3>2. Shown = Reached(p, done[p]) /\ backup[p] = accepted /\ Current(p) \in Layer
          /\ done[p] < Len(Changes(p))
      BY <1>2, <1>5, <3>1 DEF At, Removes
    <3>3. CASE Adding(p)
      <4>1. /\ Shown' \in Sections
            /\ [Shown' EXCEPT ![Current(p)] = request[p].version]
                 = [Shown EXCEPT ![Current(p)] = request[p].version]
        BY <3>1, <3>2 DEF Sections
      <4>2. [Shown EXCEPT ![Current(p)] = request[p].version] = Reached(p, done[p] + 1)
        BY <1>8, <3>2, <3>3
      <4> QED BY <2>1, <2>2, <2>3, <3>1, <3>2, <3>3, <4>1, <4>2 DEF At, Removes, Ending, Sections
    <3>4. CASE ~Adding(p)
      <4>1. Shown' = Reached(p, done[p] + 1)
        BY <1>8, <3>1, <3>2, <3>4
      <4> QED BY <2>1, <2>2, <3>1, <3>2, <3>4, <4>1 DEF At, Removes, Ending
    <3> QED BY <3>3, <3>4
  <2>11. CASE AddCollection(p) \/ DisableCollection(p)
    <3>1. /\ pc[p] \in {"harvest", "disable"} /\ pc'[p] = "next" /\ done'[p] = done[p] + 1
          /\ UNCHANGED backup /\ Shown' = Shown
      BY <1>1, <2>11, ShownKept DEF AddCollection, DisableCollection, Harvest, Goto
    <3> QED BY <1>2, <2>1, <2>2, <3>1 DEF At, Removes, Ending
  <2>12. CASE CommitMapCache(p) \/ Commit(p)
    <3>1. /\ pc[p] \in Ending /\ pc'[p] \in Ending /\ UNCHANGED <<done, backup>> /\ Shown' = Shown
      BY <1>1, <2>12, ShownKept DEF CommitMapCache, Commit, Goto, Ending
    <3> QED BY <1>2, <2>1, <2>2, <3>1 DEF At, Removes, Ending
  <2>13. CASE RollBack(p) \/ GiveUpWaiting(p) \/ Fail(p)
    <3>1. pc[p] \notin {"idle", "enter"} /\ pc'[p] \in {"fail", "restore"} /\ UNCHANGED backup
      BY <1>1, <2>13 DEF RollBack, GiveUpWaiting, Fail, Goto
    <3> QED BY <1>2, <2>1, <3>1 DEF At, Removes, Ending
  <2> QED BY <1>12, <2>1, <2>4, <2>5, <2>6, <2>7, <2>8, <2>9, <2>10, <2>11, <2>12, <2>13 DEF Step
<1> QED BY <1>3, <1>10, <1>11, <1>12

\* Which steps change what is harvested.
LEMMA HarvestOfStep ==
  ASSUME TypeInv, AloneInv, HarvestInv,
         NEW p \in Proc, Step(p) \/ GiveUpWaiting(p) \/ Fail(p)
  PROVE  HarvestInv'
<1> DEFINE Quiet == "harvest" \notin Range(faults)
    Touched(q, l) == \E i \in 1 .. done[q] : Changes(q)[i] = l
    Same(q) == \A l \in Layer :
      l \notin refused \/ Touched(q, l) => (l \in harvested <=> Reached(q, done[q])[l] # None)
<1> HIDE DEF Quiet, Touched, Same
<1>1. /\ ~overlapped /\ Quiet =>
           /\ Idle => \A l \in Layer \ refused : l \in harvested <=> accepted[l] # None
           /\ \A q \in Proc : pc[q] # "idle" => Same(q)
      /\ (~overlapped' /\ Quiet' =>
           /\ Idle' => \A l \in Layer \ refused' : l \in harvested' <=> accepted'[l] # None
           /\ \A q \in Proc : pc'[q] # "idle" => Same(q)') => HarvestInv'
  BY DEF HarvestInv, Quiet, Touched, Same
<1>2. faults' = faults \/ \E kind : Fault(kind)
  <2>1. CASE UNCHANGED history
    BY <2>1 DEF history
  <2>2. CASE EnterFileTransaction(p) \/ NextChange(p) \/ ReadXml(p) \/ OpenXml(p)
             \/ InsertLayer(p) \/ UpdateLayer(p) \/ WriteAdded(p) \/ WriteRemoved(p)
    BY <2>1, <2>2 DEF EnterFileTransaction, NextChange, ReadXml, OpenXml,
      InsertLayer, UpdateLayer, WriteAdded, WriteRemoved
  <2>3. CASE AddCollection(p) \/ DisableCollection(p) \/ LeaveFileTransaction(p) \/ RestoreXml(p) \/ Fail(p)
    BY <2>3 DEF AddCollection, DisableCollection, Harvest, LeaveFileTransaction, RestoreXml, Fail
  <2>4. CASE CommitMapCache(p) \/ Commit(p) \/ RollBack(p) \/ GiveUpWaiting(p)
    BY <2>1, <2>4 DEF CommitMapCache, Commit, RollBack, GiveUpWaiting
  <2> QED BY <2>2, <2>3, <2>4 DEF Step
<1>3. /\ Quiet' => Quiet
      /\ \A kind : Fault(kind) => kind \in Range(faults')
  BY <1>2, FaultType DEF Quiet, TypeInv
<1> SUFFICES ASSUME ~overlapped, Quiet'
             PROVE  /\ Idle' => \A l \in Layer \ refused' : l \in harvested' <=> accepted'[l] # None
                    /\ \A q \in Proc : pc'[q] # "idle" => Same(q)'
  BY <1>1, BusyOfStep
<1>4. /\ \A q \in Proc \ {p} : pc'[q] = "idle"
      /\ pc[p] # "idle" /\ pc \in [Proc -> Places] /\ done \in [Proc -> Nat]
      /\ pc'[p] = "idle" => LeaveFileTransaction(p) \/ RestoreXml(p)
      /\ pc'[p] # "idle" => UNCHANGED <<accepted, request, refused>>
  BY BusyOfStep, PlaceOfStep DEF AloneInv, TypeInv, TypeOK
<1>5. Same(p)
  BY <1>1, <1>3, <1>4
<1>6. PICK n \in Nat : n = Len(Changes(p)) /\ DOMAIN Changes(p) = 1 .. n /\ done[p] <= n
  BY ChangesFacts, LenProperties DEF TypeInv, ProgressInv
<1>7. CASE LeaveFileTransaction(p)
  <2>1. /\ pc[p] = "leave" /\ pc'[p] = "idle" /\ UNCHANGED harvested
        /\ accepted' = [l \in Layer |-> Wanted(p, l)] /\ refused' = refused \ ToSet(Changes(p))
    BY <1>4, <1>7 DEF LeaveFileTransaction, Goto, stores
  <2>2. done[p] = n /\ accepted' = Reached(p, done[p])
    BY <1>6, <2>1, ReachedEnds DEF TypeInv, ProgressInv, Ending
  <2>3. \A l \in Layer : l \in ToSet(Changes(p)) => Touched(p, l)
    BY <1>6, <2>2 DEF ToSet, Touched
  <2> QED BY <1>4, <1>5, <2>1, <2>2, <2>3 DEF Same
<1>8. CASE RestoreXml(p)
  <2>1. /\ pc[p] = "restore" /\ pc'[p] = "idle" /\ UNCHANGED <<harvested, accepted>>
        /\ refused' = refused \cup ToSet(Changes(p))
    BY <1>4, <1>8 DEF RestoreXml, Goto
  <2>2. ASSUME NEW l \in Layer \ refused' PROVE Reached(p, done[p])[l] = accepted[l]
    <3>1. \A i \in 1 .. n : Changes(p)[i] # l
      BY <1>6, <2>1, <2>2 DEF ToSet
    <3>2. \A i \in 1 .. done[p] : i \in 1 .. n
      BY <1>4, <1>6
    <3> QED BY <3>1, <3>2 DEF Reached
  <2> QED BY <1>4, <1>5, <2>1, <2>2 DEF Same
<1>9. CASE ~LeaveFileTransaction(p) /\ ~RestoreXml(p)
  <2>1. pc'[p] # "idle" /\ ~Idle' /\ UNCHANGED <<accepted, request, refused>>
    BY <1>4, <1>9 DEF Idle
  <2>2. \A k : Reached(p, k)' = Reached(p, k)
    BY <2>1 DEF Reached, Changes
  <2>3. CASE UNCHANGED <<done, harvested>>
    BY <1>4, <1>5, <2>1, <2>2, <2>3 DEF Same, Touched, Changes
  <2>4. CASE AddCollection(p) \/ DisableCollection(p)
    <3>1. ~Fault("harvest")
      BY <1>3 DEF Quiet
    <3>2. /\ done'[p] = done[p] + 1 /\ pc[p] \in {"harvest", "disable"}
          /\ harvested' = IF pc[p] = "harvest" THEN harvested \cup {Current(p)} ELSE harvested \ {Current(p)}
      BY <1>4, <2>4, <3>1 DEF AddCollection, DisableCollection, Harvest
    <3>3. /\ done[p] < Len(Changes(p)) /\ Current(p) \in Layer
          /\ Adding(p) <=> pc[p] = "harvest"
      BY <3>2, ChangesFacts DEF TypeInv, ProgressInv, Adds
    <3>4. Reached(p, done[p] + 1)
            = [Reached(p, done[p]) EXCEPT ![Current(p)] = IF Adding(p) THEN request[p].version ELSE None]
      BY <3>3, ReachedNext
    <3>5. request[p].version # None
      BY <1>4, RequestFacts, LayerAssumption
    <3>6. \A l \in Layer : Touched(p, l)' => Touched(p, l) \/ l = Current(p)
      <4>1. 1 .. done[p] + 1 = (1 .. done[p]) \cup {done[p] + 1}
        BY <1>4
      <4> QED BY <2>1, <3>2, <4>1 DEF Touched, Changes, Current
    <3>7. DOMAIN Reached(p, done[p]) = Layer
      BY DEF Reached
    <3>8. Same(p)'
      <4> SUFFICES ASSUME NEW l \in Layer, l \notin refused \/ Touched(p, l)'
                   PROVE  l \in harvested' <=> Reached(p, done[p] + 1)[l] # None
        BY <2>1, <2>2, <3>2 DEF Same
      <4>1. CASE l = Current(p)
        BY <3>2, <3>3, <3>4, <3>5, <3>7, <4>1
      <4>2. CASE l # Current(p)
        <5>1. l \in harvested <=> Reached(p, done[p])[l] # None
          BY <1>5, <3>6, <4>2 DEF Same
        <5> QED BY <3>2, <3>3, <3>4, <3>7, <4>2, <5>1
      <4> QED BY <4>1, <4>2
    <3> QED BY <1>4, <2>1, <3>8
  <2>5. CASE EnterFileTransaction(p) \/ NextChange(p) \/ ReadXml(p) \/ OpenXml(p)
             \/ InsertLayer(p) \/ UpdateLayer(p) \/ WriteAdded(p) \/ WriteRemoved(p)
    BY <2>3, <2>5 DEF EnterFileTransaction, NextChange, ReadXml, OpenXml,
      InsertLayer, UpdateLayer, WriteAdded, WriteRemoved, stores
  <2>6. CASE CommitMapCache(p) \/ Commit(p) \/ RollBack(p) \/ GiveUpWaiting(p) \/ Fail(p)
    BY <2>3, <2>6 DEF CommitMapCache, Commit, RollBack, GiveUpWaiting, Fail, stores
  <2> QED BY <1>9, <2>4, <2>5, <2>6 DEF Step
<1> QED BY <1>7, <1>8, <1>9

LEMMA HistoryOfBegin ==
  ASSUME TypeInv, TypeInv', StepInv, HarvestInv, NEW p \in Proc, NEW r \in RequestsOf[p], Begin(p, r)
  PROVE  StepInv' /\ HarvestInv'
<1> SUFFICES ASSUME ~overlapped' PROVE StepInv' /\ HarvestInv'
  BY DEF StepInv, HarvestInv
<1>1. /\ ~overlapped /\ Idle /\ pc' = [pc EXCEPT ![p] = "enter"] /\ done' = [done EXCEPT ![p] = 0]
      /\ UNCHANGED <<xml, harvested, refused, accepted, faults>>
      /\ pc \in [Proc -> Places] /\ done \in [Proc -> Nat]
  BY DEF Begin, Goto, stores, Idle, TypeInv, TypeOK
<1>2. pc'[p] = "enter" /\ done'[p] = 0 /\ (\A q \in Proc \ {p} : pc'[q] = "idle") /\ ~Idle'
  BY <1>1 DEF Idle
<1>3. xml' = accepted'
  BY <1>1 DEF StepInv
<1>4. StepInv'
  BY <1>2, <1>3 DEF StepInv, At, Removes, Ending
<1>5. Reached(p, done[p])' = accepted
  BY <1>1, <1>2 DEF Reached, TypeInv, TypeOK, Sections
<1>6. HarvestInv'
  BY <1>1, <1>2, <1>5 DEF HarvestInv
<1> QED BY <1>4, <1>6

LEMMA HistoryOfNext ==
  ASSUME TypeInv, TypeInv', AloneInv, ServedInv, StepInv, HarvestInv, [Next]_vars
  PROVE  StepInv' /\ HarvestInv'
<1>1. ASSUME UNCHANGED vars PROVE StepInv' /\ HarvestInv'
  <2>1. UNCHANGED <<xml, lock, pc, request, done, backup, seen, harvested, refused,
                    accepted, overlapped, faults>>
    BY <1>1 DEF vars, stores, open, history
  <2>2. /\ Shown' = Shown /\ Idle' = Idle
        /\ \A p \in Proc : /\ Changes(p)' = Changes(p) /\ Current(p)' = Current(p)
                           /\ \A k : Reached(p, k)' = Reached(p, k)
    BY <2>1 DEF Shown, Idle, Reached, Current, Changes
  <2>3. StepInv'
    <3>1. \A p \in Proc : At(p)' = At(p)
      BY <2>1, <2>2 DEF At, Sections
    <3> QED BY <2>1, <2>2, <3>1 DEF StepInv
  <2>4. HarvestInv'
    BY <2>1, <2>2 DEF HarvestInv
  <2> QED BY <2>3, <2>4
<1> QED BY <1>1, StepsOfStep, HarvestOfStep, HistoryOfBegin DEF Next, Wait

-----------------------------------------------------------------------------
IInv == TypeInv /\ DatabasesInv /\ AloneInv /\ StepInv /\ HarvestInv /\ ServedInv

LEMMA InitInvariant == ASSUME Init PROVE IInv
<1>1. TypeInv
  BY TypeOfInit
<1>2. faults = <<>> /\ Range(faults) = {}
  BY DEF Init, Range
<1>3. DatabasesInv
  BY DEF Init, DatabasesInv, RowsInv, SourcesInv, DatabasesAgree, NoChange, Removes
<1>4. Shown = xml /\ xml \in Sections /\ Idle
  BY <1>1 DEF Init, Shown, TypeInv, TypeOK, Sections, Idle
<1>5. AloneInv /\ StepInv /\ HarvestInv
  BY <1>4 DEF Init, AloneInv, StepInv, At, HarvestInv, Removes, Ending
<1>6. ServedInv
  BY <1>4 DEF Init, ServedInv, BackupInv, ShownInv, RowShown, NoChange, Opened
<1> QED BY <1>1, <1>3, <1>5, <1>6 DEF IInv

LEMMA NextInvariant == ASSUME IInv, [Next]_vars PROVE IInv'
<1>1. TypeInv'
  BY TypeOfNext DEF IInv
<1> QED BY <1>1, DatabasesOfNext, AloneOfNext, ServedOfNext, HistoryOfNext DEF IInv, DatabasesInv

\* The invariant on which the others rest.
THEOREM Invariant == Spec => []IInv
<1>1. Init => IInv
  BY InitInvariant
<1>2. IInv /\ [Next]_vars => IInv'
  BY NextInvariant
<1> QED BY <1>1, <1>2, PTL DEF Spec

\* Types, how far each request is, and who holds the lock of mapcache.xml: every write of
\* it is made by the process that holds the lock, with what it has read under it.
THEOREM Typing == Spec => [](TypeOK /\ ProgressInv /\ LockInv)
<1>1. IInv => TypeOK /\ ProgressInv /\ LockInv
  BY DEF IInv, TypeInv
<1> QED BY <1>1, Invariant, PTL

\* A layer exists in both databases or in none, whatever processes, layers and requests
\* there are and whichever step fails, unless it is a commit.
THEOREM OneLayerTwoDatabases == Spec => []DatabasesAgree
<1>1. IInv => DatabasesAgree
  BY DEF IInv, DatabasesInv
<1> QED BY <1>1, Invariant, PTL

\* Requests that do not overlap are atomic for mapcache.xml: after each it has what the
\* accepted ones asked for and nothing of the others, for requests of any length that
\* name a layer as often as they like.
THEOREM XmlAtomic == Spec => []XmlAsAccepted
<1>1. IInv => XmlAsAccepted
  BY DEF IInv, StepInv, XmlAsAccepted
<1> QED BY <1>1, Invariant, PTL

\* What MapCache serves agrees with the main database, also after requests that overlapped
\* as long as none of them was refused, and with what is harvested.
THEOREM RowsServed == Spec => []ServedAsConfigured
<1>1. ASSUME IInv, Idle PROVE ServedAsConfigured
  <2>1. Shown = xml
    BY <1>1 DEF IInv, TypeInv, TypeOK, LockInv, Shown, Idle, Writing
  <2>2. ASSUME ~restored, NEW l \in Layer, xml[l] # None PROVE layers[l] = xml[l]
    <3>1. NoneFails
      BY <1>1 DEF Idle, NoneFails
    <3>2. \A p \in Proc : change[p][l] = Unchanged
      BY <1>1 DEF IInv, DatabasesInv, RowsInv, Idle, NoChange
    <3> QED BY <1>1, <2>1, <2>2, <3>1, <3>2 DEF IInv, ServedInv, ShownInv, RowShown
  <2>3. ASSUME ~overlapped, "harvest" \notin Range(faults)
        PROVE  \A l \in Layer \ refused : l \in harvested <=> xml[l] # None
    BY <1>1, <2>3 DEF IInv, HarvestInv, StepInv
  <2> QED BY <2>2, <2>3 DEF ServedAsConfigured
<1>2. IInv => ServedAsConfigured
  BY <1>1 DEF ServedAsConfigured
<1> QED BY <1>2, Invariant, PTL

================================================================================
