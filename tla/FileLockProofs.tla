---------------------------- MODULE FileLockProofs ----------------------------
(***************************************************************************)
(* What FileLock guarantees for any number of processes, any timeouts and  *)
(* any kills.  The inductive invariant says, as long as every decision to  *)
(* delete was unambiguous: an owner's file is under the path, and a        *)
(* process about to delete is alone in that and will delete the file of a  *)
(* dead process.                                                           *)
(***************************************************************************)
EXTENDS FileLock, TLAPS

\* A process that is about to create the file has an attempt left.
TriesLeft == \A p \in Proc : pc[p] \in {"idle", "create"} => tries[p] < MaxTries

\* A process that has a file open to judge it has the file of somebody.
SeenSomebody == \A p \in Proc : pc[p] \in {"read", "unlink"} => seen[p] \in Proc

\* While nothing ambiguous was done, whoever is about to delete is alone and
\* deletes the file of a dead process.
SoleReclaimer ==
  clean => \A p \in Proc : pc[p] = "unlink" =>
             /\ path = seen[p]
             /\ ~Alive(seen[p])
             /\ \A q \in Proc : pc[q] = "unlink" => q = p

IInv ==
  /\ TypeOK /\ TriesLeft /\ SeenSomebody
  /\ SoleReclaimer /\ ExclusiveWhenClean /\ NoAbandonedFile

LEMMA InitInv == Init => IInv
BY FileLockAssumption
   DEF Init, IInv, TypeOK, TriesLeft, SeenSomebody, SoleReclaimer, ExclusiveWhenClean,
       NoAbandonedFile, Step, Owners

-----------------------------------------------------------------------------
(* Each action preserves the invariant.                                     *)

LEMMA BeginInv == ASSUME IInv, NEW p \in Proc, Begin(p) PROVE IInv'
BY DEF IInv, TypeOK, TriesLeft, SeenSomebody, SoleReclaimer, ExclusiveWhenClean,
       NoAbandonedFile, Step, Owners, Alive, Goto, Begin

LEMMA CreateInv == ASSUME IInv, NEW p \in Proc, Create(p) PROVE IInv'
<1> USE DEF IInv, Goto, Create
<1>1. TypeOK' /\ TriesLeft' /\ SeenSomebody'
  BY FileLockAssumption DEF TypeOK, TriesLeft, SeenSomebody, Step
<1>2. CASE path = None
  \* Nobody owns the lock and nobody is about to delete: their files would be
  \* under the path.
  <2>1. clean => /\ \A q \in Proc : pc[q] # "unlink"
                 /\ Owners = {}
    BY <1>2, FileLockAssumption DEF SoleReclaimer, ExclusiveWhenClean, SeenSomebody, Owners
  <2>2. Owners' = Owners \cup {p} /\ path' = p
    BY <1>2 DEF Owners, TypeOK
  <2>3. clean' = clean /\ \A q \in Proc : pc'[q] = "unlink" => pc[q] = "unlink"
    BY <1>2 DEF TypeOK
  <2> QED
    BY <1>1, <2>1, <2>2, <2>3 DEF SoleReclaimer, ExclusiveWhenClean, NoAbandonedFile
<1>3. CASE path # None
  BY <1>1, <1>3 DEF TypeOK, SoleReclaimer, ExclusiveWhenClean, NoAbandonedFile, Owners, Alive
<1> QED
  BY <1>2, <1>3

LEMMA WriteInv == ASSUME IInv, NEW p \in Proc, Write(p) PROVE IInv'
BY DEF IInv, TypeOK, TriesLeft, SeenSomebody, SoleReclaimer, ExclusiveWhenClean,
       NoAbandonedFile, Step, Owners, Alive, Goto, Write

LEMMA OpenInv == ASSUME IInv, NEW p \in Proc, Open(p) PROVE IInv'
<1> USE DEF IInv, Goto, Open
<1>1. TypeOK' /\ TriesLeft' /\ SeenSomebody'
  BY DEF TypeOK, TriesLeft, SeenSomebody, Step
<1>2. SoleReclaimer'
  <2>1. \A q \in Proc : /\ pc'[q] = "unlink" => pc[q] = "unlink" /\ seen'[q] = seen[q]
                        /\ pc[q] = "dead" => pc'[q] = "dead"
    BY DEF TypeOK
  <2>2. path' = path /\ clean' = clean
    OBVIOUS
  <2> QED
    BY <2>1, <2>2 DEF SoleReclaimer, SeenSomebody, Alive
<1>3. ExclusiveWhenClean' /\ NoAbandonedFile'
  BY DEF TypeOK, ExclusiveWhenClean, NoAbandonedFile, Owners, Alive
<1> QED
  BY <1>1, <1>2, <1>3

LEMMA ReadInv == ASSUME IInv, NEW p \in Proc, Read(p) PROVE IInv'
<1> USE DEF IInv, Goto, Read
<1>1. TypeOK' /\ TriesLeft' /\ SeenSomebody'
  BY DEF TypeOK, TriesLeft, SeenSomebody, Step
<1>2. SoleReclaimer'
  <2>1. \A q \in Proc : /\ q # p => pc'[q] = pc[q]
                        /\ pc[q] = "dead" => pc'[q] = "dead"
    BY DEF TypeOK
  <2>2. path' = path /\ seen' = seen /\ (clean' => clean)
    OBVIOUS
  <2>3. CASE pc'[p] # "unlink"
    BY <2>1, <2>2, <2>3 DEF SoleReclaimer, SeenSomebody, Alive
  <2>4. CASE pc'[p] = "unlink"
    <3>1. clean' => Unambiguous(p)
      BY <2>4 DEF TypeOK
    <3> QED
      BY <2>1, <2>2, <3>1 DEF SoleReclaimer, SeenSomebody, Alive, Unambiguous
  <2> QED
    BY <2>3, <2>4
<1>3. ExclusiveWhenClean' /\ NoAbandonedFile'
  BY DEF TypeOK, ExclusiveWhenClean, NoAbandonedFile, Owners, Alive
<1> QED
  BY <1>1, <1>2, <1>3

LEMMA UnlinkInv == ASSUME IInv, NEW p \in Proc, Unlink(p) PROVE IInv'
<1> USE DEF IInv, Goto, Unlink
<1>1. TypeOK' /\ TriesLeft' /\ SeenSomebody'
  BY DEF TypeOK, TriesLeft, SeenSomebody, Step
<1>2. clean => Owners = {} /\ \A q \in Proc : pc[q] = "unlink" => q = p
  \* The file of an owner is under the path, but that is a dead process's.
  BY DEF SoleReclaimer, ExclusiveWhenClean, Owners, Alive
<1>3. Owners' = Owners /\ clean' = clean /\ path' = None
  BY DEF Owners, TypeOK
<1>4. \A q \in Proc : pc'[q] = "unlink" => pc[q] = "unlink" /\ q # p
  BY DEF TypeOK
<1> QED
  BY <1>1, <1>2, <1>3, <1>4 DEF SoleReclaimer, ExclusiveWhenClean, NoAbandonedFile

LEMMA WaitInv == ASSUME IInv, NEW p \in Proc, Retry(p) \/ Refuse(p) PROVE IInv'
<1> USE DEF IInv, Goto, Retry, Refuse
<1>1. TypeOK' /\ TriesLeft' /\ SeenSomebody'
  BY DEF TypeOK, TriesLeft, SeenSomebody, Step
<1>2. SoleReclaimer'
  <2>1. \A q \in Proc : /\ pc'[q] = "unlink" => pc[q] = "unlink" /\ seen'[q] = seen[q]
                        /\ pc[q] = "dead" => pc'[q] = "dead"
    BY DEF TypeOK
  <2>2. path' = path /\ clean' = clean
    OBVIOUS
  <2> QED
    BY <2>1, <2>2 DEF SoleReclaimer, SeenSomebody, Alive
<1>3. ExclusiveWhenClean' /\ NoAbandonedFile'
  BY DEF TypeOK, ExclusiveWhenClean, NoAbandonedFile, Owners, Alive
<1> QED
  BY <1>1, <1>2, <1>3

LEMMA ReleaseInv == ASSUME IInv, NEW p \in Proc, Release(p) PROVE IInv'
<1> USE DEF IInv, Goto, Release
<1>1. TypeOK' /\ TriesLeft' /\ SeenSomebody'
  BY DEF TypeOK, TriesLeft, SeenSomebody, Step
<1>2. clean => Owners = {p} /\ \A q \in Proc : pc[q] # "unlink"
  \* Who is about to delete would have the file of a dead process in front.
  BY DEF SoleReclaimer, ExclusiveWhenClean, Owners, Alive
<1>3. Owners' = Owners \ {p} /\ clean' = clean /\ path' = None
  BY DEF Owners, TypeOK
<1>4. \A q \in Proc : pc'[q] = "unlink" => pc[q] = "unlink"
  BY DEF TypeOK
<1> QED
  BY <1>1, <1>2, <1>3, <1>4 DEF SoleReclaimer, ExclusiveWhenClean, NoAbandonedFile

LEMMA EndInv == ASSUME IInv, NEW p \in Proc, Kill(p) \/ Exit(p) PROVE IInv'
<1> USE DEF IInv, Goto, Kill, Exit, Over
<1>1. TypeOK' /\ TriesLeft' /\ SeenSomebody'
  BY DEF TypeOK, TriesLeft, SeenSomebody, Step
<1>2. SoleReclaimer'
  <2>1. \A q \in Proc : /\ pc'[q] = "unlink" => pc[q] = "unlink" /\ seen'[q] = seen[q]
                        /\ pc[q] = "dead" => pc'[q] = "dead"
    BY DEF TypeOK
  <2>2. path' = path /\ clean' = clean
    OBVIOUS
  <2> QED
    BY <2>1, <2>2 DEF SoleReclaimer, SeenSomebody, Alive
<1>3. ExclusiveWhenClean' /\ NoAbandonedFile'
  BY DEF TypeOK, ExclusiveWhenClean, NoAbandonedFile, Owners, Alive
<1> QED
  BY <1>1, <1>2, <1>3

LEMMA NextInv == IInv /\ [Next]_vars => IInv'
<1> SUFFICES ASSUME IInv, [Next]_vars PROVE IInv'
  OBVIOUS
<1>1. CASE UNCHANGED vars
  BY <1>1 DEF vars, IInv, TypeOK, TriesLeft, SeenSomebody, SoleReclaimer,
              ExclusiveWhenClean, NoAbandonedFile, Owners, Alive
<1>2. CASE Next
  BY <1>2, BeginInv, CreateInv, WriteInv, OpenInv, ReadInv, UnlinkInv, WaitInv, ReleaseInv,
     EndInv DEF Next, Progress
<1> QED
  BY <1>1, <1>2

LEMMA Invariance == Spec => []IInv
BY InitInv, NextInv, PTL DEF Spec

-----------------------------------------------------------------------------
\* Processes, files and histories stay what they are meant to be; no attempt
\* goes beyond the timeout.
THEOREM TypeCorrect == Spec => []TypeOK
BY Invariance, PTL DEF IInv

(***************************************************************************)
(* As long as no process decides to delete a file that is not there any    *)
(* more, whose creator is alive, or that another process is about to       *)
(* delete, every process between Create and Release has its own file under *)
(* the path.                                                               *)
(***************************************************************************)
THEOREM ExclusionWhenClean == Spec => []ExclusiveWhenClean
BY Invariance, PTL DEF IInv

\* Hence FileLock excludes as its docstring says, up to such decisions.
THEOREM MutualExclusionWhenClean == Spec => [](clean => MutualExclusion)
<1>1. IInv => (clean => MutualExclusion)
  BY DEF IInv, ExclusiveWhenClean, MutualExclusion, Owners, Holders
<1> QED
  BY <1>1, Invariance, PTL

\* Whatever is deleted ambiguously, no process that is still there leaves its
\* lock file behind (what __del__ is for).
THEOREM NoFileAbandoned == Spec => []NoAbandonedFile
BY Invariance, PTL DEF IInv

===============================================================================
