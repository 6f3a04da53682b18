------------------------ MODULE MetadataWrite_proofs ------------------------
(***************************************************************************)
(* For any number of calls, recoveries and faults: the types (TypeCorrect), *)
(* the original bytes are never lost (OriginalIsKept), and the journal says *)
(* nothing the three directory entries contradict (VerdictIsTrue).         *)
(*                                                                         *)
(* The last one rests on the lease.  Only the holder of an unexpired lease *)
(* journals, and as long as nobody strayed only the holder has touched the *)
(* files; so whatever a holder has read since it took the lease - what the *)
(* status is, how the files are arranged - is still true when it acts on   *)
(* it.  Knows(p) says for every step of a call what that is.               *)
(***************************************************************************)
EXTENDS MetadataWrite, TLAPS

(* Nobody else has touched the book, and no call has touched a file after  *)
(* it had lost its lease.                                                  *)
Clean == ~strayed /\ ~meddled

(* The journal grows along the table of transitions.                       *)
JournalInv ==
    /\ status = "CREATED" => "PREPARED" \notin journal
    /\ "EXCHANGED" \in journal => "PREPARED" \in journal
    /\ status = "ORIGINAL_PRESERVED" => "EXCHANGED" \in journal

(* Before PREPARED the book is where it was and nothing but a draft is     *)
(* new; afterwards the three names are in one of three arrangements.       *)
FilesInv ==
    Clean =>
        /\ "PREPARED" \notin journal =>
              source = "ORIGINAL" /\ draft # "ORIGINAL" /\ recovery = "MISSING"
        /\ "PREPARED" \in journal =>
              Classify \in {"drafted", "exchanged", "preserved"}

(* What a status promises that asks for nothing more.                      *)
VerdictInv ==
    Clean =>
        /\ status = "VERIFIED" => Classify = "preserved"
        /\ status = "RECOVERED" => Classify = "drafted"
        /\ status \in FailBeforeExchange /\ "EXCHANGED" \notin journal
              => source = "ORIGINAL"

BeforePrepared == {"bind", "stage", "draft gate", "draft", "copy", "prepare"}
BeforeExchanged == {"exchange gate", "exchange", "exchanged"}
BeforePreserved == {"preserve gate", "preserve", "read back", "preserved"}
Synchronizing == {"settle", "sync exchanged", "sync preserved"}
Restoring == {"restore gate", "unpreserve", "swap back", "restored"}

(* The exchange is journalled and the run has not come to its end.         *)
Restorable ==
    \/ status \in {"EXCHANGED", "ORIGINAL_PRESERVED", Manual}
    \/ status \in {"VALIDATION_FAILED", "FENCED_OUT"} /\ "EXCHANGED" \in journal

(* What a call at a step knows of the journal.                             *)
StatusAt(step) ==
    /\ step \in BeforePrepared => status = "CREATED"
    /\ step \in BeforeExchanged => status = "PREPARED"
    /\ step \in BeforePreserved => status = "EXCHANGED"
    /\ step = "failed" => status \in {"CREATED", "PREPARED", "EXCHANGED"}
    /\ step \in Synchronizing =>
          Restorable \/ status \in {"CREATED", "PREPARED", None}
    /\ step \in Restoring => Restorable

(* What it knows of the files, between a check and the step it is for.     *)
FilesAt(step) ==
    /\ step = "exchange" => Classify = "drafted"
    /\ step \in {"preserve", "swap back"} => Classify = "exchanged"
    /\ step = "unpreserve" => Classify = "preserved"

Knows(p) == Fence(p) /\ Clean => StatusAt(pc[p]) /\ FilesAt(pc[p])

IInv ==
    /\ TypeOK
    /\ JournalInv /\ FilesInv /\ VerdictInv
    /\ \A p \in Process : Knows(p)

-----------------------------------------------------------------------------
(* The parts of TypeOK.                                                    *)

Steps(p) == IF p \in Executor THEN ExecutorStep ELSE RecoveryStep
Codes == FailBeforeExchange \cup {Manual, None}

CallsTyped ==
    /\ pc \in [Process -> ExecutorStep \cup RecoveryStep]
    /\ \A e \in Executor : pc[e] \in ExecutorStep
    /\ \A r \in Recoverer : pc[r] \in RecoveryStep
    /\ code \in [Process -> Codes]

StoreTyped ==
    /\ status \in Status \cup {None}
    /\ journal \subseteq Status
    /\ status = None <=> journal = {}
    /\ status \in journal \cup {None}
    /\ bound \in BOOLEAN
    /\ recon \in {"VERIFIED", "RECOVERED", None}
    /\ recon # None => recon = status
    /\ scanned \subseteq Content

FilesTyped ==
    /\ source \in Content /\ draft \in Content /\ recovery \in Content
    /\ strayed \in BOOLEAN /\ meddled \in BOOLEAN

RestTyped ==
    /\ auth \in {"valid", "expired"}
    /\ row \in Lease
    /\ index \in Content
    /\ readBack \in BOOLEAN
    /\ faults \in 0..MaxFaults

(* Together they are TypeOK.                                               *)
LEMMA TypeParts ==
  /\ TypeOK <=> CallsTyped /\ StoreTyped /\ FilesTyped /\ RestTyped
  /\ TypeOK' <=> CallsTyped' /\ StoreTyped' /\ FilesTyped' /\ RestTyped'
  BY DEF TypeOK, CallsTyped, StoreTyped, FilesTyped, RestTyped, Codes

(* The three names, for each answer of classify.                           *)
Arranged(s, d, r) == source = s /\ draft = d /\ recovery = r

(* classify tells four arrangements from all others.                       *)
LEMMA Arrangements ==
  /\ Classify = "original" <=> Arranged("ORIGINAL", "MISSING", "MISSING")
  /\ Classify = "drafted" <=> Arranged("ORIGINAL", "OUTPUT", "MISSING")
  /\ Classify = "exchanged" <=> Arranged("OUTPUT", "ORIGINAL", "MISSING")
  /\ Classify = "preserved" <=> Arranged("OUTPUT", "MISSING", "ORIGINAL")
  BY DEF Classify, Arranged

(* The same of the next state.                                             *)
LEMMA NextArrangements ==
  /\ Classify' = "original" <=> Arranged("ORIGINAL", "MISSING", "MISSING")'
  /\ Classify' = "drafted" <=> Arranged("ORIGINAL", "OUTPUT", "MISSING")'
  /\ Classify' = "exchanged" <=> Arranged("OUTPUT", "ORIGINAL", "MISSING")'
  /\ Classify' = "preserved" <=> Arranged("OUTPUT", "MISSING", "ORIGINAL")'
  BY DEF Classify, Arranged

(* Names that nobody touches stay arranged as they are.                    *)
LEMMA ClassifySame ==
  ASSUME UNCHANGED <<source, draft, recovery>>
  PROVE  Classify' = Classify
  BY DEF Classify

(* Processes and statuses are told apart from the two markers.             *)
LEMMA MarkerFacts ==
  /\ None \notin Status /\ Gone # None
  /\ \A p \in Process : p # None /\ p # Gone
  /\ \A e \in Executor : e \in Process /\ e \notin Recoverer
  /\ \A r \in Recoverer : r \in Process /\ r \notin Executor
  /\ MaxFaults \in Nat
  BY ConstantsAssumption DEF Process

-----------------------------------------------------------------------------
(* Effects.                                                                *)

(* The call p goes to a step, the others stay where they are.              *)
Goes(p, step) ==
    /\ CallsTyped'
    /\ pc'[p] = step
    /\ \A q \in Process \ {p} : pc'[q] = pc[q]

(* What Goto does to the calls.                                            *)
LEMMA GotoEffect ==
  ASSUME CallsTyped, NEW p \in Process, NEW step \in Steps(p), Goto(p, step),
         code' \in [Process -> Codes]
  PROVE  Goes(p, step)
  <1>1. /\ pc' = [pc EXCEPT ![p] = step]
        /\ step \in ExecutorStep \cup RecoveryStep
        /\ p \in Executor => step \in ExecutorStep
        /\ p \in Recoverer => step \in RecoveryStep
    BY MarkerFacts DEF Goto, Steps
  <1> QED
    BY <1>1, MarkerFacts DEF CallsTyped, Goes, Process

(* What Fail does to the calls.                                            *)
LEMMA FailEffect ==
  ASSUME CallsTyped, NEW e \in Executor, NEW c \in Codes, Fail(e, c)
  PROVE  Goes(e, "failed")
  <1>1. code' \in [Process -> Codes]
    BY DEF Fail, CallsTyped
  <1>2. "failed" \in Steps(e) /\ Goto(e, "failed") /\ e \in Process
    BY MarkerFacts DEF Fail, Steps, ExecutorStep
  <1> QED
    BY <1>1, <1>2, GotoEffect

(* What a step of p leaves behind: everything but the other calls' share   *)
(* of the invariant, and what they need for it.                            *)
Safe(p) ==
    /\ TypeOK'
    /\ JournalInv' /\ FilesInv' /\ VerdictInv'
    /\ Knows(p)'
    /\ \A q \in Process \ {p} : pc'[q] = pc[q] /\ (Fence(q)' => Fence(q))
    /\ Clean' => Clean
    /\ \/ UNCHANGED <<status, journal, source, draft, recovery>>
       \/ Fence(p) \/ ~Clean' \/ row.for = "new"

(* Whoever else has the lease knows what it knew: it did not have the      *)
(* lease if p has changed anything.                                        *)
LEMMA SafeIsEnough ==
  ASSUME IInv, NEW p \in Process, Safe(p)
  PROVE  IInv'
  <1> SUFFICES ASSUME NEW q \in Process \ {p}, Fence(q)', Clean'
               PROVE  StatusAt(pc[q])' /\ FilesAt(pc[q])'
    BY DEF Safe, IInv, Knows
  <1>1. Fence(q) /\ Clean /\ pc'[q] = pc[q]
    BY DEF Safe
  <1>2. StatusAt(pc[q]) /\ FilesAt(pc[q])
    BY <1>1 DEF IInv, Knows
  <1>3. UNCHANGED <<status, journal, source, draft, recovery>>
    BY <1>1 DEF Safe, Fence
  <1> QED
    BY <1>1, <1>2, <1>3, ClassifySame DEF StatusAt, FilesAt, Restorable

(* Steps that touch neither the status nor the files: calls that go on,    *)
(* take the lease or give it back.                                         *)
LEMMA TurnIsSafe ==
  ASSUME IInv, NEW p \in Process, NEW step, Goes(p, step),
         StoreTyped', RestTyped',
         UNCHANGED <<status, journal, files>>,
         \A q \in Process \ {p} : Fence(q)' => Fence(q),
         Fence(p)' /\ Clean => StatusAt(step) /\ FilesAt(step)
  PROVE  Safe(p)
  <1>1. TypeOK' /\ Clean' = Clean /\ Classify' = Classify
    BY TypeParts, ClassifySame DEF Goes, FilesTyped, files, IInv, Clean
  <1>2. JournalInv' /\ FilesInv' /\ VerdictInv'
    BY <1>1 DEF IInv, JournalInv, FilesInv, VerdictInv, files
  <1>3. Knows(p)'
    BY <1>1 DEF Knows, Goes, StatusAt, FilesAt, Restorable
  <1> QED
    BY <1>1, <1>2, <1>3 DEF Safe, Goes, files

(* What an event keeps, if it says what is so.                             *)
Truthful(s) ==
    Clean => /\ s \in {"PREPARED", "RECOVERED"} => Classify = "drafted"
             /\ s \in FailBeforeExchange /\ "EXCHANGED" \notin journal
                   => source = "ORIGINAL"

(* An event appended by the holder of the lease.                           *)
LEMMA AppendIsSafe ==
  ASSUME IInv, NEW p \in Process, NEW step, Goes(p, step), RestTyped',
         NEW s \in Status \ {"CREATED", "VERIFIED"}, Append(p, s), Truthful(s),
         UNCHANGED <<row, files>>,
         Clean => StatusAt(step)' /\ FilesAt(step)
  PROVE  Safe(p)
  <1>1. /\ Fence(p) /\ Follows(s)
        /\ status' = s /\ journal' = journal \cup {s} /\ scanned' = {}
        /\ UNCHANGED <<bound, recon>>
    BY DEF Append
  <1>2. CallsTyped /\ StoreTyped /\ FilesTyped
    BY TypeParts DEF IInv
  <1>3. recon = None
    BY <1>1, <1>2, MarkerFacts DEF Follows, StoreTyped, Status, Phase,
       FailBeforeExchange, Manual
  <1>4. StoreTyped'
    BY <1>1, <1>2, <1>3, MarkerFacts DEF StoreTyped
  <1>5. TypeOK' /\ Clean' = Clean /\ Classify' = Classify
    BY <1>2, <1>4, TypeParts, ClassifySame DEF Goes, FilesTyped, files, Clean
  <1>6. JournalInv'
    BY <1>1, <1>2, MarkerFacts
       DEF IInv, JournalInv, Follows, StoreTyped, Manual,
       Status, Phase
  <1>7. FilesInv'
    BY <1>1, <1>5 DEF IInv, FilesInv, files, Truthful
  <1>8. VerdictInv'
    BY <1>1, <1>5 DEF VerdictInv, files, Truthful
  <1>9. Knows(p)'
    BY <1>5 DEF Knows, Goes, FilesAt
  <1>10. \A q \in Process \ {p} : Fence(q)' = Fence(q)
    BY DEF Fence
  <1> QED
    BY <1>1, <1>5, <1>6, <1>7, <1>8, <1>9, <1>10 DEF Safe, Goes

(* A step that touches the files: it is a stray one or the holder's.       *)
LEMMA TouchIsSafe ==
  ASSUME IInv, NEW p \in Process, NEW step, Goes(p, step), RestTyped',
         UNCHANGED <<row, store, meddled>>, Stray(p),
         source' \in Content, draft' \in Content, recovery' \in Content,
         Fence(p) /\ Clean =>
            FilesInv' /\ VerdictInv' /\ StatusAt(step) /\ FilesAt(step)'
  PROVE  Safe(p)
  <1>1. StoreTyped /\ FilesTyped
    BY TypeParts DEF IInv
  <1>2. StoreTyped' /\ FilesTyped'
    BY <1>1 DEF StoreTyped, FilesTyped, store, Stray
  <1>3. TypeOK' /\ UNCHANGED <<status, journal>>
    BY <1>2, TypeParts DEF Goes, store
  <1>4. Clean' => Fence(p) /\ Clean
    BY <1>1 DEF Clean, Stray, FilesTyped
  <1>5. JournalInv'
    BY <1>3 DEF IInv, JournalInv
  <1>6. FilesInv' /\ VerdictInv'
    BY <1>4 DEF FilesInv, VerdictInv
  <1>7. Knows(p)'
    BY <1>3, <1>4 DEF Knows, Goes, StatusAt, Restorable
  <1>8. \A q \in Process \ {p} : Fence(q)' = Fence(q)
    BY DEF Fence
  <1> QED
    BY <1>3, <1>4, <1>5, <1>6, <1>7, <1>8 DEF Safe, Goes

(* What the invariant says of the types, part by part.                     *)
LEMMA Typed ==
  ASSUME IInv
  PROVE  CallsTyped /\ StoreTyped /\ FilesTyped /\ RestTyped
  BY TypeParts DEF IInv

(* The counter of faults stays within its bound.                           *)
LEMMA FaultTyped ==
  ASSUME RestTyped, UNCHANGED faults \/ Fault
  PROVE  faults' \in 0..MaxFaults
  BY MarkerFacts DEF RestTyped, Fault

(* Nobody has the lease who did not have it, if the row is as it was.      *)
LEMMA FenceSame ==
  ASSUME UNCHANGED row
  PROVE  \A q : Fence(q)' = Fence(q)
  BY DEF Fence

(* A call that only goes on.                                               *)
LEMMA StepIsSafe ==
  ASSUME IInv, NEW p \in Process, NEW step, Goes(p, step),
         UNCHANGED <<auth, row, store, files, index>>,
         readBack' \in BOOLEAN, UNCHANGED faults \/ Fault,
         Fence(p) /\ Clean => StatusAt(step) /\ FilesAt(step)
  PROVE  Safe(p)
  <1>1. StoreTyped' /\ RestTyped'
    BY Typed, FaultTyped DEF StoreTyped, RestTyped, store
  <1> QED
    BY <1>1, FenceSame, TurnIsSafe DEF store

(* Steps at which a call knows nothing that could be lost.                 *)
Aimless == {"idle", "lease", "new lease", "create", "dispatch", "manual",
            "release", "hand off", "scan", "lock", "confirm", "recover", "done"}

(* Nothing is asked of the state at these steps.                           *)
LEMMA AimlessKnowsNothing ==
  ASSUME NEW step \in Aimless
  PROVE  StatusAt(step) /\ FilesAt(step) /\ StatusAt(step)' /\ FilesAt(step)'
  BY DEF Aimless, StatusAt, FilesAt, BeforePrepared, BeforeExchanged,
     BeforePreserved, Synchronizing, Restoring

(* The steps of the handlers and of recover() belong to every call.        *)
LEMMA CommonSteps ==
  ASSUME NEW p \in Process
  PROVE  /\ Settling \cup Handing \cup {"idle", "lease"} \subseteq Steps(p)
         /\ p \in Executor => Steps(p) = ExecutorStep
         /\ p \in Recoverer => Steps(p) = RecoveryStep
         /\ Rest(p) \in Steps(p) /\ Rest(p) \in Aimless
  BY MarkerFacts DEF Steps, ExecutorStep, RecoveryStep, Rest, Process, Aimless

(* A failing call of execute() whose status is one it may fail in.         *)
LEMMA FailIsSafe ==
  ASSUME IInv, NEW e \in Executor, NEW c \in Codes, Fail(e, c),
         UNCHANGED <<auth, row, store, files, index>>,
         readBack' \in BOOLEAN, UNCHANGED faults \/ Fault,
         Fence(e) /\ Clean => status \in {"CREATED", "PREPARED", "EXCHANGED"}
  PROVE  Safe(e)
  <1>1. Goes(e, "failed") /\ e \in Process
    BY Typed, FailEffect, MarkerFacts
  <1>2. Fence(e) /\ Clean => StatusAt("failed") /\ FilesAt("failed")
    BY DEF StatusAt, FilesAt, BeforePrepared, BeforeExchanged, BeforePreserved,
       Synchronizing, Restoring
  <1> QED
    BY <1>1, <1>2, StepIsSafe

(* A call of execute() that only goes on.                                  *)
LEMMA GotoIsSafe ==
  ASSUME IInv, NEW p \in Process, NEW step \in Steps(p), Goto(p, step),
         UNCHANGED <<auth, row, store, files, index, code>>,
         readBack' \in BOOLEAN, UNCHANGED faults \/ Fault,
         Fence(p) /\ Clean => StatusAt(step) /\ FilesAt(step)
  PROVE  Safe(p)
  <1>1. Goes(p, step)
    BY Typed, GotoEffect DEF CallsTyped
  <1> QED
    BY <1>1, StepIsSafe

(* An event of execute(): appended, refused or failed.                     *)
LEMMA AppendOrFailIsSafe ==
  ASSUME IInv, NEW e \in Executor, NEW next \in ExecutorStep,
         NEW s \in Status \ {"CREATED", "VERIFIED"}, AppendOrFail(e, s, next),
         UNCHANGED readBack, Truthful(s),
         status' = s => StatusAt(next)',
         Clean => FilesAt(next),
         Fence(e) /\ Clean => status \in {"CREATED", "PREPARED", "EXCHANGED"}
  PROVE  Safe(e)
  <1>0. /\ e \in Process /\ readBack' \in BOOLEAN
        /\ UNCHANGED <<auth, row, files, index>>
        /\ {"FENCED_OUT", "VALIDATION_FAILED"} \subseteq Codes
        /\ next \in Steps(e)
    BY Typed, MarkerFacts
       DEF AppendOrFail, RestTyped, Codes, FailBeforeExchange,
       Steps
  <1>1. CASE Append(e, s) /\ Goto(e, next) /\ UNCHANGED <<code, faults>>
    <2>1. Goes(e, next)
      BY <1>0, <1>1, Typed, GotoEffect DEF CallsTyped
    <2>2. RestTyped'
      BY <1>0, <1>1, Typed DEF RestTyped
    <2>3. status' = s
      BY <1>1 DEF Append
    <2> QED
      BY <1>0, <1>1, <2>1, <2>2, <2>3, AppendIsSafe
  <1>2. CASE Cannot(e, s) /\ Fail(e, "FENCED_OUT") /\ UNCHANGED faults
    BY <1>0, <1>2, FailIsSafe DEF Cannot
  <1>3. CASE Fault /\ Fail(e, "VALIDATION_FAILED") /\ UNCHANGED store
    BY <1>0, <1>3, FailIsSafe
  <1> QED
    BY <1>1, <1>2, <1>3 DEF AppendOrFail

(* An event of _recover_session: appended, refused or failed.              *)
LEMMA AppendOrGiveUpIsSafe ==
  ASSUME IInv, NEW p \in Process, NEW next \in Steps(p),
         NEW s \in Status \ {"CREATED", "VERIFIED"}, AppendOrGiveUp(p, s, next),
         UNCHANGED readBack, Truthful(s),
         Append(p, s) => StatusAt(next)',
         Clean => FilesAt(next)
  PROVE  Safe(p)
  <1>0. /\ readBack' \in BOOLEAN
        /\ UNCHANGED <<auth, row, files, index, code>>
        /\ "release" \in Steps(p) /\ "manual" \in Steps(p)
        /\ "release" \in Aimless /\ "manual" \in Aimless
    BY Typed, CommonSteps
       DEF AppendOrGiveUp, RestTyped, Settling, Handing, Aimless
  <1>1. CASE Append(p, s) /\ Goto(p, next) /\ UNCHANGED faults
    <2>1. Goes(p, next)
      BY <1>0, <1>1, Typed, GotoEffect DEF CallsTyped
    <2>2. RestTyped'
      BY <1>0, <1>1, Typed DEF RestTyped
    <2> QED
      BY <1>0, <1>1, <2>1, <2>2, AppendIsSafe
  <1>2. CASE Cannot(p, s) /\ Goto(p, "release") /\ UNCHANGED faults
    BY <1>0, <1>2, GotoIsSafe, AimlessKnowsNothing DEF Cannot
  <1>3. CASE Fault /\ Goto(p, "manual") /\ UNCHANGED store
    BY <1>0, <1>3, GotoIsSafe, AimlessKnowsNothing
  <1> QED
    BY <1>1, <1>2, <1>3 DEF AppendOrGiveUp

-----------------------------------------------------------------------------
(* The steps of execute().                                                 *)

(* What the call that has the lease knows where it is.                     *)
LEMMA Known ==
  ASSUME IInv, NEW p \in Process, Fence(p), Clean
  PROVE  StatusAt(pc[p]) /\ FilesAt(pc[p])
  BY DEF IInv, Knows

(* The end of execute() is not a step with knowledge.                      *)
LEMMA StartExecuteSafe ==
  ASSUME IInv, NEW e \in Executor, StartExecute(e)
  PROVE  Safe(e)
  <1>1. PICK step \in {"done", "lease", "new lease"} : Goto(e, step)
    BY DEF StartExecute
  <1>2. step \in Steps(e) /\ step \in Aimless /\ e \in Process
    BY MarkerFacts DEF Steps, ExecutorStep, Handing, Aimless
  <1> QED
    BY <1>1, <1>2, Typed, GotoIsSafe, AimlessKnowsNothing
       DEF StartExecute, RestTyped

(* Whoever takes the lease is at a step that knows nothing yet.            *)
LEMMA AcquireSafe ==
  ASSUME IInv, NEW p \in Process, NEW next \in Steps(p) \cap Aimless,
         NEW otherwise \in Steps(p) \cap Aimless, NEW for \in {"new", "run"},
         \/ row' = HeldBy(p, for) /\ Goto(p, next)
         \/ UNCHANGED row /\ Goto(p, otherwise),
         UNCHANGED <<auth, store, files, index, code, readBack, faults>>
  PROVE  Safe(p)
  <1>1. PICK step \in Steps(p) \cap Aimless : Goto(p, step)
    OBVIOUS
  <1>2. Goes(p, step)
    BY <1>1, Typed, GotoEffect DEF CallsTyped
  <1>3. row' \in Lease
    <2>1. HeldBy(p, for) \in Lease
      BY DEF Lease, HeldBy
    <2>2. row \in Lease
      BY Typed DEF RestTyped
    <2> QED
      BY <2>1, <2>2
  <1>4. StoreTyped' /\ RestTyped'
    BY <1>3, Typed DEF StoreTyped, RestTyped, store
  <1>5. \A q \in Process \ {p} : Fence(q)' => Fence(q)
    BY DEF Fence, HeldBy
  <1> QED
    BY <1>1, <1>2, <1>4, <1>5, TurnIsSafe, AimlessKnowsNothing DEF store

(* execute() finds a run and takes the lease for it.                       *)
LEMMA AcquireRunLeaseSafe ==
  ASSUME IInv, NEW e \in Executor, AcquireRunLease(e)
  PROVE  Safe(e)
  <1>1. /\ {"dispatch", "done"} \subseteq Steps(e) \cap Aimless
        /\ e \in Process
    BY MarkerFacts DEF Steps, ExecutorStep, Handing, Aimless
  <1> QED
    BY <1>1, AcquireSafe DEF AcquireRunLease, Acquire

(* execute() finds no run and takes the lease for a new id.                *)
LEMMA AcquireNewLeaseSafe ==
  ASSUME IInv, NEW e \in Executor, AcquireNewLease(e)
  PROVE  Safe(e)
  <1>1. /\ {"create", "done"} \subseteq Steps(e) \cap Aimless
        /\ e \in Process
    BY MarkerFacts DEF Steps, ExecutorStep, Handing, Aimless
  <1> QED
    BY <1>1, AcquireSafe DEF AcquireNewLease

(* A new run: no call had the lease for it, and nothing has happened.      *)
LEMMA CreateRunSafe ==
  ASSUME IInv, NEW e \in Executor, CreateRun(e)
  PROVE  Safe(e)
  <1>1. /\ {"dispatch", "release"} \subseteq Steps(e) \cap Aimless
        /\ e \in Process /\ e # None
    BY MarkerFacts DEF Steps, ExecutorStep, Handing, Aimless
  <1>2. /\ UNCHANGED <<auth, bound, recon, scanned, files, index, code, readBack,
                       faults>>
    BY DEF CreateRun
  <1>3. CASE /\ row.by = e /\ ~row.expired /\ status = None
             /\ status' = "CREATED" /\ journal' = {"CREATED"}
             /\ row' = [row EXCEPT !.for = "run"]
             /\ Goto(e, "dispatch")
    <2>1. Goes(e, "dispatch")
      BY <1>1, <1>2, <1>3, Typed, GotoEffect DEF CallsTyped
    <2>2. /\ row \in [for : {"new", "run"}, by : Process \cup {Gone}, expired : BOOLEAN]
          /\ row' = [for |-> "run", by |-> e, expired |-> FALSE]
      <3>1. row \in Lease /\ row # Free
        BY <1>1, <1>3, Typed DEF RestTyped, Free
      <3>2. row \in [for : {"new", "run"}, by : Process \cup {Gone}, expired : BOOLEAN]
        BY <3>1 DEF Lease
      <3>3. row = [for |-> row.for, by |-> row.by, expired |-> row.expired]
        BY <3>2
      <3>4. row.expired = FALSE
        BY <1>3, <3>2
      <3>5. row' = [for |-> "run", by |-> row.by, expired |-> row.expired]
        BY <1>3, <3>3
      <3> QED
        BY <1>3, <3>2, <3>4, <3>5
    <2>3. RestTyped'
      BY <1>1, <1>2, <2>2, Typed DEF RestTyped, Lease
    <2>4. StoreTyped'
      BY <1>2, <1>3, Typed, MarkerFacts DEF StoreTyped, Status, Phase
    <2>5. TypeOK' /\ Clean' = Clean /\ Classify' = Classify
      BY <1>2, <2>1, <2>3, <2>4, Typed, TypeParts, ClassifySame
         DEF Goes, FilesTyped, files, Clean
    <2>6. journal = {}
      BY <1>3, Typed DEF StoreTyped
    <2>7. JournalInv' /\ FilesInv' /\ VerdictInv'
      BY <1>2, <1>3, <2>5, <2>6
         DEF IInv, JournalInv, FilesInv, VerdictInv, files,
         FailBeforeExchange
    <2>8. Knows(e)'
      BY <1>1, <2>1, AimlessKnowsNothing DEF Goes, Knows
    <2>9. \A q \in Process \ {e} : ~Fence(q)'
      BY <2>2 DEF Fence
    <2>10. Fence(e) \/ row.for = "new"
      BY <1>3, <2>2 DEF Fence
    <2> QED
      BY <2>1, <2>5, <2>7, <2>8, <2>9, <2>10 DEF Safe, Goes
  <1>4. CASE Goto(e, "release") /\ UNCHANGED <<row, status, journal>>
    BY <1>1, <1>2, <1>4, Typed, GotoIsSafe, AimlessKnowsNothing
       DEF store, RestTyped
  <1> QED
    BY <1>3, <1>4 DEF CreateRun

(* Only a run at CREATED is executed.                                      *)
LEMMA DispatchSafe ==
  ASSUME IInv, NEW e \in Executor, Dispatch(e)
  PROVE  Safe(e)
  <1>1. PICK step \in {"release", "bind", "hand off"} :
           Goto(e, step) /\ (step = "bind" => Fence(e) /\ status = "CREATED")
    BY DEF Dispatch
  <1>2. step \in Steps(e) /\ e \in Process
    BY MarkerFacts DEF Steps, ExecutorStep, Handing
  <1>3. StatusAt(step) /\ FilesAt(step)
    BY <1>1 DEF StatusAt, FilesAt, BeforePrepared, BeforeExchanged,
       BeforePreserved, Synchronizing, Restoring
  <1> QED
    BY <1>1, <1>2, <1>3, Typed, GotoIsSafe DEF Dispatch, RestTyped

(* What a call knows before PREPARED.                                      *)
LEMMA KnownCreated ==
  ASSUME IInv, NEW p \in Process, Fence(p), Clean, pc[p] \in BeforePrepared
  PROVE  status = "CREATED"
  BY Known DEF StatusAt

(* What a call knows between PREPARED and EXCHANGED.                       *)
LEMMA KnownPrepared ==
  ASSUME IInv, NEW p \in Process, Fence(p), Clean, pc[p] \in BeforeExchanged
  PROVE  /\ status = "PREPARED"
         /\ pc[p] = "exchange" => Classify = "drafted"
  BY Known DEF StatusAt, FilesAt

(* What a call knows between EXCHANGED and ORIGINAL_PRESERVED.             *)
LEMMA KnownExchanged ==
  ASSUME IInv, NEW p \in Process, Fence(p), Clean, pc[p] \in BeforePreserved
  PROVE  /\ status = "EXCHANGED"
         /\ pc[p] = "preserve" => Classify = "exchanged"
  BY Known DEF StatusAt, FilesAt

(* What a call knows that restores the original.                           *)
LEMMA KnownRestorable ==
  ASSUME IInv, NEW p \in Process, Fence(p), Clean, pc[p] \in Restoring
  PROVE  /\ Restorable
         /\ pc[p] = "swap back" => Classify = "exchanged"
         /\ pc[p] = "unpreserve" => Classify = "preserved"
  BY Known DEF StatusAt, FilesAt

(* The statuses the steps of execute() are made at.                        *)
LEMMA ForwardStatus ==
  /\ \A step \in BeforePrepared : status = "CREATED" => StatusAt(step)
  /\ \A step \in BeforeExchanged : status = "PREPARED" => StatusAt(step)
  /\ \A step \in BeforePreserved : status = "EXCHANGED" => StatusAt(step)
  /\ \A step \in BeforeExchanged : status' = "PREPARED" => StatusAt(step)'
  /\ \A step \in BeforePreserved : status' = "EXCHANGED" => StatusAt(step)'
  BY DEF StatusAt, BeforePrepared, BeforeExchanged, BeforePreserved,
     Synchronizing, Restoring

(* Steps that promise nothing about the files.                             *)
LEMMA NoFiles ==
  ASSUME NEW step, step \notin {"exchange", "preserve", "swap back", "unpreserve"}
  PROVE  FilesAt(step) /\ FilesAt(step)'
  BY DEF FilesAt

(* The codes of the handler.                                               *)
LEMMA CodeFacts ==
  /\ FailBeforeExchange \subseteq Codes /\ Manual \in Codes
  /\ {"STALE", "TOOL_UNAVAILABLE", "VALIDATION_FAILED", "FENCED_OUT"} \subseteq Codes
  BY DEF Codes, FailBeforeExchange

(* The binding is part of the store, but not of what anybody knows.        *)
LEMMA BindBackendSafe ==
  ASSUME IInv, NEW e \in Executor, BindBackend(e)
  PROVE  Safe(e)
  <1>1. /\ e \in Process /\ "stage" \in Steps(e)
        /\ UNCHANGED <<auth, row, status, journal, recon, scanned, files, index,
                       readBack, faults>>
    BY MarkerFacts DEF Steps, ExecutorStep, BindBackend
  <1>2. CASE /\ status = "CREATED"
             /\ bound' = TRUE /\ Goto(e, "stage") /\ UNCHANGED code
    <2>1. Goes(e, "stage")
      BY <1>1, <1>2, Typed, GotoEffect DEF CallsTyped
    <2>2. StoreTyped' /\ RestTyped'
      BY <1>1, <1>2, Typed DEF StoreTyped, RestTyped
    <2>3. StatusAt("stage") /\ FilesAt("stage")
      BY <1>2, ForwardStatus, NoFiles DEF BeforePrepared
    <2> QED
      BY <1>1, <2>1, <2>2, <2>3, FenceSame, TurnIsSafe
  <1>3. CASE Fail(e, "FENCED_OUT") /\ UNCHANGED bound
    <2>1. pc[e] \in BeforePrepared
      BY DEF BindBackend, BeforePrepared
    <2> QED
      BY <1>1, <1>3, <2>1, Typed, KnownCreated, CodeFacts, FailIsSafe
         DEF store, RestTyped
  <1> QED
    BY <1>2, <1>3 DEF BindBackend

(* Building the output touches nothing.                                    *)
LEMMA StageSafe ==
  ASSUME IInv, NEW e \in Executor, Stage(e)
  PROVE  Safe(e)
  <1>1. /\ e \in Process /\ "draft gate" \in Steps(e)
        /\ pc[e] \in BeforePrepared /\ "draft gate" \in BeforePrepared
        /\ UNCHANGED <<auth, row, store, files, index, readBack>>
        /\ readBack' \in BOOLEAN
    BY Typed, MarkerFacts
       DEF Steps, ExecutorStep, Stage, BeforePrepared, RestTyped
  <1>2. CASE Goto(e, "draft gate") /\ UNCHANGED <<code, faults>>
    BY <1>1, <1>2, KnownCreated, ForwardStatus, NoFiles, GotoIsSafe
  <1>3. ASSUME NEW c \in Codes, Fail(e, c), UNCHANGED faults \/ Fault
        PROVE  Safe(e)
    BY <1>1, <1>3, KnownCreated, FailIsSafe
  <1> QED
    BY <1>2, <1>3, CodeFacts DEF Stage

(* The gate before the draft.                                              *)
LEMMA DraftGateSafe ==
  ASSUME IInv, NEW e \in Executor, DraftGate(e)
  PROVE  Safe(e)
  <1>1. /\ e \in Process /\ {"prepare", "draft"} \subseteq Steps(e)
        /\ pc[e] \in BeforePrepared /\ {"prepare", "draft"} \subseteq BeforePrepared
        /\ UNCHANGED <<auth, row, store, files, index, readBack, faults>>
        /\ readBack' \in BOOLEAN
    BY Typed, MarkerFacts
       DEF Steps, ExecutorStep, DraftGate, BeforePrepared, RestTyped
  <1>2. ASSUME NEW step \in {"prepare", "draft"}, Goto(e, step), UNCHANGED code
        PROVE  Safe(e)
    BY <1>1, <1>2, KnownCreated, ForwardStatus, NoFiles, GotoIsSafe
  <1>3. ASSUME NEW c \in Codes, Fail(e, c)
        PROVE  Safe(e)
    BY <1>1, <1>3, KnownCreated, FailIsSafe
  <1> QED
    BY <1>2, <1>3, CodeFacts DEF DraftGate

(* The gate before the exchange.                                           *)
LEMMA ExchangeGateSafe ==
  ASSUME IInv, NEW e \in Executor, ExchangeGate(e)
  PROVE  Safe(e)
  <1>1. /\ e \in Process /\ "exchange" \in Steps(e)
        /\ pc[e] \in BeforeExchanged /\ "exchange" \in BeforeExchanged
        /\ UNCHANGED <<auth, row, store, files, index, readBack, faults>>
        /\ readBack' \in BOOLEAN
    BY Typed, MarkerFacts
       DEF Steps, ExecutorStep, ExchangeGate, BeforeExchanged,
       RestTyped
  <1>2. CASE Classify = "drafted" /\ Goto(e, "exchange") /\ UNCHANGED code
    <2>1. FilesAt("exchange")
      BY <1>2 DEF FilesAt
    <2> QED
      BY <1>1, <1>2, <2>1, KnownPrepared, ForwardStatus, GotoIsSafe
  <1>3. ASSUME NEW c \in Codes, Fail(e, c)
        PROVE  Safe(e)
    BY <1>1, <1>3, KnownPrepared, FailIsSafe
  <1> QED
    BY <1>2, <1>3, CodeFacts DEF ExchangeGate

(* The gate before the original moves.                                     *)
LEMMA PreserveGateSafe ==
  ASSUME IInv, NEW e \in Executor, PreserveGate(e)
  PROVE  Safe(e)
  <1>1. /\ e \in Process /\ "preserve" \in Steps(e)
        /\ pc[e] \in BeforePreserved /\ "preserve" \in BeforePreserved
        /\ UNCHANGED <<auth, row, store, files, index, readBack, faults>>
        /\ readBack' \in BOOLEAN
    BY Typed, MarkerFacts
       DEF Steps, ExecutorStep, PreserveGate, BeforePreserved,
       RestTyped
  <1>2. CASE Classify = "exchanged" /\ Goto(e, "preserve") /\ UNCHANGED code
    <2>1. FilesAt("preserve")
      BY <1>2 DEF FilesAt
    <2> QED
      BY <1>1, <1>2, <2>1, KnownExchanged, ForwardStatus, GotoIsSafe
  <1>3. ASSUME NEW c \in Codes, Fail(e, c)
        PROVE  Safe(e)
    BY <1>1, <1>3, KnownExchanged, FailIsSafe
  <1> QED
    BY <1>2, <1>3, CodeFacts DEF PreserveGate

(* The book is read back.                                                  *)
LEMMA ReadBackSafe ==
  ASSUME IInv, NEW e \in Executor, ReadBack(e)
  PROVE  Safe(e)
  <1>1. /\ e \in Process /\ "preserved" \in Steps(e)
        /\ pc[e] \in BeforePreserved /\ "preserved" \in BeforePreserved
        /\ UNCHANGED <<auth, row, store, files, index>>
        /\ readBack' \in BOOLEAN
    BY Typed, MarkerFacts
       DEF Steps, ExecutorStep, ReadBack, BeforePreserved, RestTyped
  <1>2. CASE Goto(e, "preserved") /\ UNCHANGED <<code, faults>>
    BY <1>1, <1>2, KnownExchanged, ForwardStatus, NoFiles, GotoIsSafe
  <1>3. ASSUME NEW c \in Codes, Fail(e, c), UNCHANGED faults \/ Fault
        PROVE  Safe(e)
    BY <1>1, <1>3, KnownExchanged, FailIsSafe
  <1> QED
    BY <1>2, <1>3, CodeFacts DEF ReadBack

-----------------------------------------------------------------------------
(* The events of execute().                                                *)

(* PREPARED is journalled over a drafted output.                           *)
LEMMA PrepareSafe ==
  ASSUME IInv, NEW e \in Executor, Prepare(e)
  PROVE  Safe(e)
  <1>1. /\ e \in Process /\ "exchange gate" \in ExecutorStep
        /\ pc[e] \in BeforePrepared /\ "exchange gate" \in BeforeExchanged
        /\ "PREPARED" \in Status \ {"CREATED", "VERIFIED"}
        /\ UNCHANGED readBack /\ readBack' \in BOOLEAN
    BY Typed, MarkerFacts
       DEF ExecutorStep, Prepare, BeforePrepared, BeforeExchanged,
       RestTyped, Status, Phase
  <1>2. CASE Classify = "drafted" /\ AppendOrFail(e, "PREPARED", "exchange gate")
    <2>1. Truthful("PREPARED")
      BY <1>2 DEF Truthful, FailBeforeExchange
    <2> QED
      BY <1>1, <1>2, <2>1, KnownCreated, ForwardStatus, NoFiles,
         AppendOrFailIsSafe
  <1>3. ASSUME NEW c \in Codes, Fail(e, c),
               UNCHANGED <<auth, row, store, files, index, faults>>
        PROVE  Safe(e)
    BY <1>1, <1>3, KnownCreated, FailIsSafe
  <1> QED
    BY <1>2, <1>3, CodeFacts DEF Prepare

(* EXCHANGED is journalled over exchanged names.                           *)
LEMMA JournalExchangedSafe ==
  ASSUME IInv, NEW e \in Executor, JournalExchanged(e)
  PROVE  Safe(e)
  <1>1. /\ e \in Process /\ "preserve gate" \in ExecutorStep
        /\ pc[e] \in BeforeExchanged /\ "preserve gate" \in BeforePreserved
        /\ "EXCHANGED" \in Status \ {"CREATED", "VERIFIED"}
        /\ UNCHANGED readBack /\ readBack' \in BOOLEAN
    BY Typed, MarkerFacts DEF ExecutorStep, JournalExchanged, BeforePreserved,
       BeforeExchanged, RestTyped, Status, Phase
  <1>2. CASE AppendOrFail(e, "EXCHANGED", "preserve gate")
    <2>1. Truthful("EXCHANGED")
      BY DEF Truthful, FailBeforeExchange
    <2> QED
      BY <1>1, <1>2, <2>1, KnownPrepared, ForwardStatus, NoFiles,
         AppendOrFailIsSafe
  <1>3. ASSUME NEW c \in Codes, Fail(e, c),
               UNCHANGED <<auth, row, store, files, index, faults>>
        PROVE  Safe(e)
    BY <1>1, <1>3, KnownPrepared, FailIsSafe
  <1> QED
    BY <1>2, <1>3, CodeFacts DEF JournalExchanged

(* ORIGINAL_PRESERVED is journalled after the book was read back.          *)
LEMMA JournalPreservedSafe ==
  ASSUME IInv, NEW e \in Executor, JournalPreserved(e)
  PROVE  Safe(e)
  <1>1. /\ e \in Process /\ "hand off" \in ExecutorStep /\ "hand off" \in Aimless
        /\ pc[e] \in BeforePreserved
        /\ "ORIGINAL_PRESERVED" \in Status \ {"CREATED", "VERIFIED"}
        /\ UNCHANGED readBack
        /\ AppendOrFail(e, "ORIGINAL_PRESERVED", "hand off")
    BY MarkerFacts DEF ExecutorStep, Handing, JournalPreserved, BeforePreserved,
       Status, Phase, Aimless
  <1>2. Truthful("ORIGINAL_PRESERVED")
    BY DEF Truthful, FailBeforeExchange
  <1> QED
    BY <1>1, <1>2, KnownExchanged, AimlessKnowsNothing, AppendOrFailIsSafe

(* A status that is open promises nothing about the files.                 *)
LEMMA OpenVerdict ==
  ASSUME UNCHANGED <<status, journal>>,
         Restorable \/ status \in {"CREATED", "PREPARED", "EXCHANGED"}
  PROVE  VerdictInv'
  BY DEF VerdictInv, Restorable, FailBeforeExchange, Manual

(* Where the book and its draft are while the run is at CREATED.           *)
LEMMA FilesBeforePrepared ==
  ASSUME IInv, Clean, status = "CREATED"
  PROVE  /\ "PREPARED" \notin journal
         /\ source = "ORIGINAL" /\ draft # "ORIGINAL" /\ recovery = "MISSING"
  BY DEF IInv, JournalInv, FilesInv

(* A run that is not at CREATED any more and not at its end is prepared.   *)
LEMMA PreparedJournal ==
  ASSUME IInv, status \in {"PREPARED", "EXCHANGED", "ORIGINAL_PRESERVED"}
  PROVE  "PREPARED" \in journal
  BY Typed, MarkerFacts DEF IInv, JournalInv, StoreTyped, Status, Phase

(* The draft is created.                                                   *)
LEMMA CreateDraftSafe ==
  ASSUME IInv, NEW e \in Executor, CreateDraft(e)
  PROVE  Safe(e)
  <1>1. /\ e \in Process /\ "copy" \in Steps(e)
        /\ pc[e] \in BeforePrepared /\ "copy" \in BeforePrepared
        /\ UNCHANGED <<auth, row, store, source, recovery, meddled, index, readBack,
                       faults>>
    BY MarkerFacts DEF Steps, ExecutorStep, CreateDraft, BeforePrepared
  <1>2. CASE draft' = "OTHER" /\ Stray(e) /\ Goto(e, "copy") /\ UNCHANGED code
    <2>1. Goes(e, "copy")
      BY <1>1, <1>2, Typed, GotoEffect DEF CallsTyped
    <2>2. RestTyped' /\ source' \in Content /\ draft' \in Content /\ recovery' \in Content
      BY <1>1, <1>2, Typed DEF RestTyped, FilesTyped, Content
    <2>3. ASSUME Fence(e), Clean
          PROVE  FilesInv' /\ VerdictInv' /\ StatusAt("copy") /\ FilesAt("copy")'
      <3>1. status = "CREATED"
        BY <1>1, <2>3, KnownCreated
      <3>2. FilesInv'
        BY <1>1, <1>2, <2>3, <3>1, FilesBeforePrepared DEF FilesInv, store
      <3> QED
        BY <1>1, <3>1, <3>2, OpenVerdict, ForwardStatus, NoFiles DEF store
    <2> QED
      BY <1>1, <1>2, <2>1, <2>2, <2>3, TouchIsSafe
  <1>3. CASE Fail(e, "VALIDATION_FAILED") /\ UNCHANGED <<draft, strayed>>
    BY <1>1, <1>3, Typed, KnownCreated, CodeFacts, FailIsSafe
       DEF files, RestTyped
  <1> QED
    BY <1>2, <1>3 DEF CreateDraft

(* The draft is filled, or the copy fails.                                 *)
LEMMA CopyOutputSafe ==
  ASSUME IInv, NEW e \in Executor, CopyOutput(e)
  PROVE  Safe(e)
  <1>1. /\ e \in Process /\ "prepare" \in Steps(e)
        /\ pc[e] \in BeforePrepared /\ "prepare" \in BeforePrepared
        /\ UNCHANGED <<auth, row, store, source, recovery, meddled, index, readBack>>
        /\ Stray(e)
        /\ UNCHANGED faults \/ Fault
        /\ draft' \in {draft, "OUTPUT"}
    BY MarkerFacts DEF Steps, ExecutorStep, CopyOutput, BeforePrepared
  <1>2. PICK step \in {"prepare", "failed"} : Goes(e, step)
    <2>1. CASE Goto(e, "prepare") /\ UNCHANGED code
      BY <1>1, <2>1, Typed, GotoEffect DEF CallsTyped
    <2>2. CASE Fail(e, "VALIDATION_FAILED")
      BY <2>2, Typed, CodeFacts, FailEffect
    <2> QED
      BY <2>1, <2>2 DEF CopyOutput
  <1>3. RestTyped' /\ source' \in Content /\ draft' \in Content /\ recovery' \in Content
    BY <1>1, Typed, FaultTyped DEF RestTyped, FilesTyped, Content
  <1>4. ASSUME Fence(e), Clean
        PROVE  FilesInv' /\ VerdictInv' /\ StatusAt(step) /\ FilesAt(step)'
    <2>1. status = "CREATED"
      BY <1>1, <1>4, KnownCreated
    <2>2. FilesInv'
      BY <1>1, <1>4, <2>1, FilesBeforePrepared DEF FilesInv, store
    <2>3. StatusAt(step)
      BY <2>1 DEF StatusAt, BeforePrepared, BeforeExchanged, BeforePreserved,
         Synchronizing, Restoring
    <2> QED
      BY <1>1, <2>1, <2>2, <2>3, OpenVerdict, NoFiles DEF store
  <1> QED
    BY <1>1, <1>2, <1>3, <1>4, TouchIsSafe

(* What an exchange of the two names makes of them.                        *)
LEMMA SwapEffect ==
  ASSUME NEW p, Swap(p)
  PROVE  /\ source' = draft /\ draft' = source
         /\ Stray(p) /\ UNCHANGED <<recovery, meddled>>
         /\ Classify = "drafted" => Classify' = "exchanged"
         /\ Classify = "exchanged" => Classify' = "drafted"
  BY Arrangements, NextArrangements DEF Swap, Arranged

(* The files of a run that is prepared.                                    *)
LEMMA FilesAfterPrepared ==
  ASSUME UNCHANGED journal, "PREPARED" \in journal,
         Classify' \in {"drafted", "exchanged", "preserved"}
  PROVE  FilesInv'
  BY DEF FilesInv

(* Output and original exchange their names, or the call fails.            *)
LEMMA ExchangeSafe ==
  ASSUME IInv, NEW e \in Executor, Exchange(e)
  PROVE  Safe(e)
  <1>1. /\ e \in Process /\ "exchanged" \in Steps(e)
        /\ pc[e] = "exchange" /\ pc[e] \in BeforeExchanged
        /\ "exchanged" \in BeforeExchanged
        /\ UNCHANGED <<auth, row, store, index, readBack>>
        /\ UNCHANGED faults \/ Fault
    BY MarkerFacts DEF Steps, ExecutorStep, Exchange, BeforeExchanged
  <1>2. CASE Fail(e, "VALIDATION_FAILED") /\ UNCHANGED files
    BY <1>1, <1>2, Typed, KnownPrepared, CodeFacts, FailIsSafe DEF RestTyped
  <1>3. CASE /\ Swap(e)
             /\ \/ Goto(e, "exchanged") /\ UNCHANGED code
                \/ Fail(e, "VALIDATION_FAILED")
    <2>1. PICK step \in {"exchanged", "failed"} : Goes(e, step)
      BY <1>1, <1>3, Typed, GotoEffect, CodeFacts, FailEffect DEF CallsTyped
    <2>2. RestTyped' /\ source' \in Content /\ draft' \in Content /\ recovery' \in Content
      BY <1>1, <1>3, Typed, FaultTyped, SwapEffect DEF RestTyped, FilesTyped
    <2>3. ASSUME Fence(e), Clean
          PROVE  FilesInv' /\ VerdictInv' /\ StatusAt(step) /\ FilesAt(step)'
      <3>1. status = "PREPARED" /\ Classify = "drafted"
        BY <1>1, <2>3, KnownPrepared
      <3>2. FilesInv'
        BY <1>1, <1>3, <3>1, SwapEffect, PreparedJournal, FilesAfterPrepared
           DEF store
      <3>3. StatusAt(step)
        BY <3>1 DEF StatusAt, BeforePrepared, BeforeExchanged, BeforePreserved,
           Synchronizing, Restoring
      <3> QED
        BY <1>1, <3>1, <3>2, <3>3, OpenVerdict, NoFiles DEF store
    <2> QED
      BY <1>1, <1>3, <2>1, <2>2, <2>3, SwapEffect, TouchIsSafe
  <1> QED
    BY <1>2, <1>3 DEF Exchange

(* The original moves to its private name, or the call fails.              *)
LEMMA PreserveOriginalSafe ==
  ASSUME IInv, NEW e \in Executor, PreserveOriginal(e)
  PROVE  Safe(e)
  <1>1. /\ e \in Process /\ "read back" \in Steps(e)
        /\ pc[e] = "preserve" /\ pc[e] \in BeforePreserved
        /\ "read back" \in BeforePreserved
        /\ UNCHANGED <<auth, row, store, index, readBack>>
        /\ UNCHANGED faults \/ Fault
    BY MarkerFacts DEF Steps, ExecutorStep, PreserveOriginal, BeforePreserved
  <1>2. CASE Fail(e, "VALIDATION_FAILED") /\ UNCHANGED files
    BY <1>1, <1>2, Typed, KnownExchanged, CodeFacts, FailIsSafe DEF RestTyped
  <1>3. CASE /\ recovery' = draft /\ draft' = "MISSING" /\ Stray(e)
             /\ UNCHANGED <<source, meddled>>
             /\ \/ Goto(e, "read back") /\ UNCHANGED code
                \/ Fail(e, "VALIDATION_FAILED")
    <2>1. PICK step \in {"read back", "failed"} : Goes(e, step)
      BY <1>1, <1>3, Typed, GotoEffect, CodeFacts, FailEffect DEF CallsTyped
    <2>2. RestTyped' /\ source' \in Content /\ draft' \in Content /\ recovery' \in Content
      BY <1>1, <1>3, Typed, FaultTyped DEF RestTyped, FilesTyped, Content
    <2>3. ASSUME Fence(e), Clean
          PROVE  FilesInv' /\ VerdictInv' /\ StatusAt(step) /\ FilesAt(step)'
      <3>1. status = "EXCHANGED" /\ Classify = "exchanged"
        BY <1>1, <2>3, KnownExchanged
      <3>2. Classify' = "preserved"
        BY <1>3, <3>1, Arrangements, NextArrangements DEF Arranged
      <3>3. FilesInv'
        BY <1>1, <3>1, <3>2, PreparedJournal, FilesAfterPrepared DEF store
      <3>4. StatusAt(step)
        BY <3>1 DEF StatusAt, BeforePrepared, BeforeExchanged, BeforePreserved,
           Synchronizing, Restoring
      <3> QED
        BY <1>1, <3>1, <3>3, <3>4, OpenVerdict, NoFiles DEF store
    <2> QED
      BY <1>1, <1>3, <2>1, <2>2, <2>3, TouchIsSafe
  <1> QED
    BY <1>2, <1>3 DEF PreserveOriginal

(* The handler of execute() closes a run that exchanged nothing and sends  *)
(* any other to _recover_session.                                          *)
LEMMA HandleFailureSafe ==
  ASSUME IInv, NEW e \in Executor, HandleFailure(e)
  PROVE  Safe(e)
  <1>1. /\ e \in Process /\ {"settle", "release"} \subseteq Steps(e)
        /\ "release" \in Aimless
        /\ pc[e] = "failed"
        /\ UNCHANGED <<auth, row, files, index, readBack>> /\ readBack' \in BOOLEAN
        /\ code \in [Process -> Codes] /\ code[e] \in Codes
    BY Typed, MarkerFacts DEF Steps, ExecutorStep, Settling, Handing, Aimless,
       HandleFailure, RestTyped, CallsTyped
  <1>2. CASE /\ Goto(e, "settle")
             /\ code' = [code EXCEPT ![e] = IF @ = "FENCED_OUT" THEN @
                                            ELSE "VALIDATION_FAILED"]
             /\ UNCHANGED <<store, faults>>
    <2>1. code' \in [Process -> Codes]
      BY <1>1, <1>2, CodeFacts
    <2>2. Goes(e, "settle")
      BY <1>1, <1>2, <2>1, Typed, GotoEffect
    <2>3. ASSUME Fence(e), Clean
          PROVE  StatusAt("settle") /\ FilesAt("settle")
      <3>1. status \in {"CREATED", "PREPARED", "EXCHANGED"}
        BY <1>1, <2>3, Known DEF StatusAt
      <3> QED
        BY <3>1, NoFiles DEF StatusAt, BeforePrepared, BeforeExchanged,
           BeforePreserved, Synchronizing, Restoring, Restorable
    <2> QED
      BY <1>1, <1>2, <2>2, <2>3, StepIsSafe
  <1>3. CASE /\ "PREPARED" \notin journal
             /\ Append(e, code[e])
             /\ Goto(e, "release") /\ UNCHANGED <<code, faults>>
    <2>1. code[e] \in Status \ {"CREATED", "VERIFIED"}
      BY <1>1, <1>3, MarkerFacts DEF Append, Follows, Codes, Status,
         FailBeforeExchange, Phase, Manual
    <2>2. Truthful(code[e])
      <3>1. code[e] \notin {"PREPARED", "RECOVERED"}
        BY <1>1, <2>1, MarkerFacts DEF Codes, FailBeforeExchange, Manual
      <3>2. Clean => source = "ORIGINAL"
        BY <1>3 DEF IInv, FilesInv
      <3> QED
        BY <3>1, <3>2 DEF Truthful
    <2>3. Goes(e, "release")
      BY <1>1, <1>3, Typed, GotoEffect
    <2>4. RestTyped'
      BY <1>1, <1>3, Typed DEF RestTyped
    <2> QED
      BY <1>1, <1>3, <2>1, <2>2, <2>3, <2>4, AimlessKnowsNothing, AppendIsSafe
  <1>4. CASE /\ Goto(e, "release") /\ UNCHANGED <<store, code>>
             /\ UNCHANGED faults \/ Fault
    BY <1>1, <1>4, AimlessKnowsNothing, GotoIsSafe
  <1> QED
    BY <1>2, <1>3, <1>4 DEF HandleFailure, Cannot

-----------------------------------------------------------------------------
(* The steps of recover() and of _recover_session.                         *)

(* The operator calls recover().                                           *)
LEMMA StartRecoverSafe ==
  ASSUME IInv, NEW r \in Recoverer, StartRecover(r)
  PROVE  Safe(r)
  <1>1. "lease" \in Steps(r) /\ "lease" \in Aimless /\ r \in Process
    BY MarkerFacts DEF Steps, RecoveryStep, Aimless
  <1> QED
    BY <1>1, Typed, GotoIsSafe, AimlessKnowsNothing DEF StartRecover, RestTyped

(* recover() takes the lease.                                              *)
LEMMA AcquireRecoveryLeaseSafe ==
  ASSUME IInv, NEW r \in Recoverer, AcquireRecoveryLease(r)
  PROVE  Safe(r)
  <1>1. /\ {"recover", "idle"} \subseteq Steps(r) \cap Aimless
        /\ r \in Process
    BY MarkerFacts DEF Steps, RecoveryStep, Aimless
  <1> QED
    BY <1>1, AcquireSafe DEF AcquireRecoveryLease, Acquire

(* Both take it again after the scan.                                      *)
LEMMA ReacquireLeaseSafe ==
  ASSUME IInv, NEW p \in Process, ReacquireLease(p)
  PROVE  Safe(p)
  <1>1. {"confirm", Rest(p)} \subseteq Steps(p) \cap Aimless
    BY CommonSteps DEF Handing, Aimless
  <1> QED
    BY <1>1, AcquireSafe DEF ReacquireLease, Acquire

(* recover() reads how far the run came.                                   *)
LEMMA RecoverRunSafe ==
  ASSUME IInv, NEW r \in Recoverer, RecoverRun(r)
  PROVE  Safe(r)
  <1>1. /\ r \in Process
        /\ {"settle", "release", "hand off", "manual"} \subseteq Steps(r)
        /\ {"release", "hand off", "manual"} \subseteq Aimless
        /\ UNCHANGED <<auth, row, files, index, code, readBack, faults>>
        /\ readBack' \in BOOLEAN
    BY Typed, MarkerFacts DEF Steps, RecoveryStep, Settling, Handing, Aimless,
       RecoverRun, RestTyped
  <1>2. ASSUME NEW step \in {"release", "hand off", "manual"}, Goto(r, step),
               UNCHANGED store
        PROVE  Safe(r)
    BY <1>1, <1>2, AimlessKnowsNothing, GotoIsSafe
  <1>3. CASE /\ status = "CREATED" /\ Append(r, "CANCELLED") /\ Goto(r, "release")
    <2>1. "CANCELLED" \in Status \ {"CREATED", "VERIFIED"}
      BY DEF Status, FailBeforeExchange
    <2>2. Truthful("CANCELLED")
      BY <1>3, FilesBeforePrepared DEF Truthful
    <2>3. Goes(r, "release") /\ RestTyped'
      BY <1>1, <1>3, Typed, GotoEffect DEF CallsTyped, RestTyped
    <2> QED
      BY <1>1, <1>3, <2>1, <2>2, <2>3, AimlessKnowsNothing, AppendIsSafe
  <1>4. CASE /\ ~Closed /\ status # "RECOVERED"
             /\ Goto(r, "settle") /\ UNCHANGED store
    <2>1. Restorable \/ status \in {"CREATED", "PREPARED", None}
      BY <1>4, Typed DEF Closed, Restorable, StoreTyped, Status, Phase,
         FailBeforeExchange, Manual
    <2>2. StatusAt("settle") /\ FilesAt("settle")
      BY <2>1, NoFiles DEF StatusAt, BeforePrepared, BeforeExchanged,
         BeforePreserved, Synchronizing, Restoring
    <2> QED
      BY <1>1, <1>4, <2>2, GotoIsSafe
  <1> QED
    BY <1>2, <1>3, <1>4 DEF RecoverRun, Cannot

(* The verdict of _recover_session is a status and says what is so.        *)
LEMMA VerdictIsTruthful ==
  ASSUME IInv, NEW p \in Process, Verdict(p) # Manual
  PROVE  Verdict(p) \in Status \ {"CREATED", "VERIFIED"} /\ Truthful(Verdict(p))
  <1>1. FailureStatus(p) \in FailBeforeExchange \cup {Manual}
    BY Typed DEF FailureStatus, CallsTyped, Codes, FailBeforeExchange
  <1>2. \/ Verdict(p) = "RECOVERED" /\ Classify = "drafted"
        \/ Verdict(p) \in FailBeforeExchange /\ Classify \in {"original", "drafted"}
    BY <1>1 DEF Verdict, FailBeforeExchange
  <1>3. CASE Verdict(p) = "RECOVERED" /\ Classify = "drafted"
    BY <1>3 DEF Truthful, Status, Phase, FailBeforeExchange
  <1>4. CASE Verdict(p) \in FailBeforeExchange /\ Classify \in {"original", "drafted"}
    BY <1>4, Arrangements
       DEF Truthful, Status, Phase, FailBeforeExchange, Arranged
  <1> QED
    BY <1>2, <1>3, <1>4

(* _recover_session looks at the files.                                    *)
LEMMA SettleSafe ==
  ASSUME IInv, NEW p \in Process, Settle(p)
  PROVE  Safe(p)
  <1>1. /\ Settling \cup Handing \subseteq Steps(p)
        /\ pc[p] = "settle"
        /\ UNCHANGED readBack /\ readBack' \in BOOLEAN
    BY Typed, CommonSteps DEF Settle, RestTyped
  <1>2. ASSUME NEW step \in {"release", "manual"}, Goto(p, step),
               UNCHANGED <<auth, row, store, files, index, code>>,
               UNCHANGED faults \/ Fault
        PROVE  Safe(p)
    BY <1>1, <1>2, GotoIsSafe, AimlessKnowsNothing
       DEF Settling, Handing, Aimless
  <1>3. ASSUME NEW step \in {"sync exchanged", "sync preserved"}, Turn(p, step)
        PROVE  Safe(p)
    <2>1. ASSUME Fence(p), Clean
          PROVE  StatusAt(step) /\ FilesAt(step)
      BY <1>1, <2>1, Known, NoFiles
         DEF StatusAt, BeforePrepared, BeforeExchanged,
         BeforePreserved, Synchronizing, Restoring
    <2> QED
      BY <1>1, <1>3, <2>1, GotoIsSafe DEF Turn, Settling
  <1>4. ASSUME NEW step \in {"hand off", "release"}, Verdict(p) # Manual,
               AppendOrGiveUp(p, Verdict(p), step)
        PROVE  Safe(p)
    <2>1. step \in Steps(p) /\ step \in Aimless
      BY <1>1 DEF Settling, Handing, Aimless
    <2> QED
      BY <1>1, <1>4, <2>1, VerdictIsTruthful, AimlessKnowsNothing,
         AppendOrGiveUpIsSafe
  <1> QED
    BY <1>2, <1>3, <1>4 DEF Settle, Turn

(* The journal is brought up to what the files prove.                      *)
LEMMA SynchronizeSafe ==
  ASSUME IInv, NEW p \in Process, NEW found \in {"sync exchanged", "sync preserved"},
         Synchronize(p, found)
  PROVE  Safe(p)
  <1>1. /\ Settling \cup Handing \subseteq Steps(p)
        /\ pc[p] = found
        /\ UNCHANGED readBack /\ readBack' \in BOOLEAN
        /\ {"EXCHANGED", "ORIGINAL_PRESERVED"} \subseteq Status \ {"CREATED", "VERIFIED"}
    BY Typed, CommonSteps DEF Synchronize, RestTyped, Status, Phase
  <1>2. \A s \in {"EXCHANGED", "ORIGINAL_PRESERVED"} : Truthful(s)
    BY DEF Truthful, FailBeforeExchange
  <1>3. Restorable' => StatusAt(found)' /\ StatusAt("restore gate")'
    BY DEF StatusAt, BeforePrepared, BeforeExchanged, BeforePreserved,
       Synchronizing, Restoring
  <1>4. ASSUME NEW s \in {"EXCHANGED", "ORIGINAL_PRESERVED"}, AppendOrGiveUp(p, s, found)
        PROVE  Safe(p)
    <2>1. Append(p, s) => StatusAt(found)'
      BY <1>3 DEF Append, Restorable
    <2>2. found \in Steps(p)
      BY <1>1 DEF Settling
    <2> QED
      BY <1>1, <1>2, <1>4, <2>1, <2>2, NoFiles, AppendOrGiveUpIsSafe
  <1>5. ASSUME code[p] # None, status \in {"EXCHANGED", "ORIGINAL_PRESERVED"},
               AppendOrGiveUp(p, FailureStatus(p), "restore gate")
        PROVE  Safe(p)
    <2>1. /\ FailureStatus(p) \in FailBeforeExchange \cup {Manual}
          /\ "EXCHANGED" \in journal
      BY <1>5, Typed, MarkerFacts DEF FailureStatus, CallsTyped, Codes, IInv,
         JournalInv, StoreTyped, Status, Phase
    <2>2. /\ FailureStatus(p) \in Status \ {"CREATED", "VERIFIED"}
          /\ Truthful(FailureStatus(p))
      BY <2>1 DEF Truthful, Status, FailBeforeExchange, Manual
    <2>3. Append(p, FailureStatus(p)) => StatusAt("restore gate")'
      BY <1>3, <1>5, <2>1
         DEF Append, Restorable, Follows, FailBeforeExchange, Manual
    <2>4. "restore gate" \in Steps(p)
      BY <1>1 DEF Settling
    <2> QED
      BY <1>1, <1>5, <2>2, <2>3, <2>4, NoFiles, AppendOrGiveUpIsSafe
  <1>6. CASE /\ status \in {"EXCHANGED", "ORIGINAL_PRESERVED", Manual,
                            "VALIDATION_FAILED", "FENCED_OUT"}
             /\ Turn(p, "restore gate")
    <2>1. ASSUME Fence(p), Clean
          PROVE  StatusAt("restore gate") /\ FilesAt("restore gate")
      <3>1. Restorable \/ status \in {"CREATED", "PREPARED", None}
        BY <1>1, <2>1, Known DEF StatusAt, Synchronizing
      <3>2. Restorable
        BY <1>6, <3>1, MarkerFacts DEF Manual, Status, Phase, FailBeforeExchange
      <3> QED
        BY <3>2, NoFiles DEF StatusAt, BeforePrepared, BeforeExchanged,
           BeforePreserved, Synchronizing, Restoring
    <2> QED
      BY <1>1, <1>6, <2>1, GotoIsSafe DEF Turn, Settling
  <1>7. CASE Turn(p, "manual")
    BY <1>1, <1>7, GotoIsSafe, AimlessKnowsNothing DEF Turn, Settling, Aimless
  <1> QED
    BY <1>4, <1>5, <1>6, <1>7 DEF Synchronize

(* The files are looked at again before they are moved back.               *)
LEMMA RestoreGateSafe ==
  ASSUME IInv, NEW p \in Process, RestoreGate(p)
  PROVE  Safe(p)
  <1>1. /\ Settling \cup Handing \subseteq Steps(p)
        /\ pc[p] \in Restoring
        /\ UNCHANGED <<auth, row, store, files, index, code, readBack, faults>>
        /\ readBack' \in BOOLEAN
    BY Typed, CommonSteps DEF RestoreGate, RestTyped, Restoring
  <1>2. PICK step \in {"release", "unpreserve", "swap back", "restored"} :
           /\ Goto(p, step)
           /\ step = "unpreserve" => Classify = "preserved"
           /\ step = "swap back" => Classify = "exchanged"
    BY DEF RestoreGate
  <1>3. ASSUME Fence(p), Clean
        PROVE  StatusAt(step) /\ FilesAt(step)
    <2>1. Restorable
      BY <1>1, <1>3, KnownRestorable
    <2> QED
      BY <1>2, <2>1 DEF StatusAt, FilesAt, BeforePrepared, BeforeExchanged,
         BeforePreserved, Synchronizing, Restoring
  <1> QED
    BY <1>1, <1>2, <1>3, GotoIsSafe DEF Settling, Handing

(* Names that are not where the index expects them: the run is prepared.   *)
LEMMA MovedMeansPrepared ==
  ASSUME IInv, Clean, Classify \in {"exchanged", "preserved"}
  PROVE  "PREPARED" \in journal
  BY Arrangements DEF IInv, FilesInv, Arranged

(* The original comes back from its private name, or it does not.          *)
LEMMA UnpreserveSafe ==
  ASSUME IInv, NEW p \in Process, Unpreserve(p)
  PROVE  Safe(p)
  <1>1. /\ Settling \cup Handing \subseteq Steps(p)
        /\ pc[p] \in Restoring /\ pc[p] = "unpreserve"
        /\ UNCHANGED <<auth, row, store, index, code, readBack>>
        /\ readBack' \in BOOLEAN
        /\ UNCHANGED faults \/ Fault
    BY Typed, CommonSteps DEF Unpreserve, RestTyped, Restoring
  <1>2. CASE Goto(p, "restored") /\ UNCHANGED files
    <2>1. ASSUME Fence(p), Clean
          PROVE  StatusAt("restored") /\ FilesAt("restored")
      <3>1. Restorable
        BY <1>1, <2>1, KnownRestorable
      <3> QED
        BY <3>1, NoFiles DEF StatusAt, BeforePrepared, BeforeExchanged,
           BeforePreserved, Synchronizing, Restoring
    <2> QED
      BY <1>1, <1>2, <2>1, GotoIsSafe DEF Settling
  <1>3. CASE /\ draft' = recovery /\ recovery' = "MISSING" /\ Stray(p)
             /\ UNCHANGED <<source, meddled>>
             /\ \/ Goto(p, "swap back") \/ Goto(p, "restored")
    <2>1. PICK step \in {"swap back", "restored"} : Goto(p, step)
      BY <1>3
    <2>2. Goes(p, step)
      BY <1>1, <2>1, Typed, GotoEffect DEF CallsTyped, Settling
    <2>3. RestTyped' /\ source' \in Content /\ draft' \in Content /\ recovery' \in Content
      BY <1>1, <1>3, Typed, FaultTyped DEF RestTyped, FilesTyped, Content
    <2>4. ASSUME Fence(p), Clean
          PROVE  FilesInv' /\ VerdictInv' /\ StatusAt(step) /\ FilesAt(step)'
      <3>1. Restorable /\ Classify = "preserved"
        BY <1>1, <2>4, KnownRestorable
      <3>2. Classify' = "exchanged"
        BY <1>3, <3>1, Arrangements, NextArrangements DEF Arranged
      <3>3. FilesInv'
        BY <1>1, <2>4, <3>1, <3>2, MovedMeansPrepared, FilesAfterPrepared
           DEF store
      <3>4. StatusAt(step) /\ FilesAt(step)'
        BY <3>1, <3>2 DEF StatusAt, FilesAt, BeforePrepared, BeforeExchanged,
           BeforePreserved, Synchronizing, Restoring
      <3> QED
        BY <1>1, <3>1, <3>3, <3>4, OpenVerdict DEF store
    <2> QED
      BY <1>1, <1>3, <2>2, <2>3, <2>4, TouchIsSafe
  <1> QED
    BY <1>2, <1>3 DEF Unpreserve

(* The names are exchanged back, or they are not.                          *)
LEMMA SwapBackSafe ==
  ASSUME IInv, NEW p \in Process, SwapBack(p)
  PROVE  Safe(p)
  <1>1. /\ Settling \cup Handing \subseteq Steps(p)
        /\ pc[p] \in Restoring /\ pc[p] = "swap back"
        /\ UNCHANGED <<auth, row, store, index, code, readBack>>
        /\ readBack' \in BOOLEAN
        /\ UNCHANGED faults \/ Fault
        /\ Goto(p, "restored")
    BY Typed, CommonSteps DEF SwapBack, RestTyped, Restoring
  <1>2. ASSUME Fence(p), Clean
        PROVE  Restorable /\ Classify = "exchanged" /\ StatusAt("restored")
    <2>1. Restorable /\ Classify = "exchanged"
      BY <1>1, <1>2, KnownRestorable
    <2> QED
      BY <2>1 DEF StatusAt, BeforePrepared, BeforeExchanged, BeforePreserved,
         Synchronizing, Restoring
  <1>3. CASE UNCHANGED files
    BY <1>1, <1>2, <1>3, NoFiles, GotoIsSafe DEF Settling
  <1>4. CASE Swap(p)
    <2>1. Goes(p, "restored")
      BY <1>1, Typed, GotoEffect DEF CallsTyped, Settling
    <2>2. RestTyped' /\ source' \in Content /\ draft' \in Content /\ recovery' \in Content
      BY <1>1, <1>4, Typed, FaultTyped, SwapEffect DEF RestTyped, FilesTyped
    <2>3. ASSUME Fence(p), Clean
          PROVE  FilesInv' /\ VerdictInv'
      <3>1. FilesInv'
        BY <1>1, <1>2, <1>4, <2>3, SwapEffect, MovedMeansPrepared,
           FilesAfterPrepared
           DEF store
      <3> QED
        BY <1>1, <1>2, <2>3, <3>1, OpenVerdict DEF store
    <2> QED
      BY <1>1, <1>2, <1>4, <2>1, <2>2, <2>3, NoFiles, SwapEffect, TouchIsSafe
  <1> QED
    BY <1>3, <1>4 DEF SwapBack

(* RECOVERED is journalled over a drafted output.                          *)
LEMMA JournalRecoveredSafe ==
  ASSUME IInv, NEW p \in Process, JournalRecovered(p)
  PROVE  Safe(p)
  <1>1. /\ Settling \cup Handing \subseteq Steps(p)
        /\ UNCHANGED readBack /\ readBack' \in BOOLEAN
        /\ "RECOVERED" \in Status \ {"CREATED", "VERIFIED"}
    BY Typed, CommonSteps DEF JournalRecovered, RestTyped, Status
  <1>2. ASSUME NEW step \in {"hand off", "release"}, Classify = "drafted",
               AppendOrGiveUp(p, "RECOVERED", step)
        PROVE  Safe(p)
    <2>1. Truthful("RECOVERED")
      BY <1>2 DEF Truthful, FailBeforeExchange
    <2>2. step \in Steps(p) /\ step \in Aimless
      BY <1>1 DEF Handing, Aimless
    <2> QED
      BY <1>1, <1>2, <2>1, <2>2, AimlessKnowsNothing, AppendOrGiveUpIsSafe
  <1>3. CASE Turn(p, "manual")
    BY <1>1, <1>3, GotoIsSafe, AimlessKnowsNothing DEF Turn, Settling, Aimless
  <1> QED
    BY <1>2, <1>3 DEF JournalRecovered

(* MANUAL_RECOVERY_REQUIRED is journalled if it may be.                    *)
LEMMA JournalManualSafe ==
  ASSUME IInv, NEW p \in Process, JournalManual(p)
  PROVE  Safe(p)
  <1>1. /\ "release" \in Steps(p) /\ "release" \in Aimless
        /\ Goto(p, "release")
        /\ UNCHANGED <<auth, row, files, index, code, readBack>>
        /\ readBack' \in BOOLEAN
        /\ Manual \in Status \ {"CREATED", "VERIFIED"}
    BY Typed, CommonSteps
       DEF JournalManual, RestTyped, Handing, Aimless, Status, Manual
  <1>2. CASE Append(p, Manual) /\ UNCHANGED faults
    <2>1. Truthful(Manual)
      BY DEF Truthful, FailBeforeExchange, Manual
    <2>2. Goes(p, "release") /\ RestTyped'
      BY <1>1, <1>2, Typed, GotoEffect DEF CallsTyped, RestTyped
    <2> QED
      BY <1>1, <1>2, <2>1, <2>2, AimlessKnowsNothing, AppendIsSafe
  <1>3. CASE UNCHANGED store /\ (UNCHANGED faults \/ Fault)
    BY <1>1, <1>3, AimlessKnowsNothing, GotoIsSafe
  <1> QED
    BY <1>2, <1>3 DEF JournalManual, Cannot

-----------------------------------------------------------------------------
(* The lease is given back, the root is scanned, the run is confirmed.     *)

(* A row that is free, or whose holder is gone, is nobody's.               *)
LEMMA LostRow ==
  ASSUME IInv, NEW p \in Process, row' \in {Free, row, Abandoned(p)}
  PROVE  row' \in Lease /\ \A q \in Process : Fence(q)' => Fence(q)
  <1>1. row \in Lease
    BY Typed DEF RestTyped
  <1>2. CASE row' = Free
    BY <1>2, MarkerFacts DEF Lease, Fence, Free
  <1>3. CASE row' = row
    BY <1>1, <1>3 DEF Fence
  <1>4. CASE row.by = p /\ row' = [row EXCEPT !.by = Gone]
    <2>1. row # Free
      BY <1>4, MarkerFacts DEF Free
    <2>2. row \in [for : {"new", "run"}, by : Process \cup {Gone}, expired : BOOLEAN]
      BY <1>1, <2>1 DEF Lease
    <2>3. /\ row' \in [for : {"new", "run"}, by : Process \cup {Gone}, expired : BOOLEAN]
          /\ row'.by = Gone
      BY <1>4, <2>2
    <2> QED
      BY <2>3, MarkerFacts DEF Lease, Fence
  <1> QED
    BY <1>2, <1>3, <1>4 DEF Abandoned

(* A call that loses the lease, or gives it back, and ends or waits.       *)
LEMMA LoseIsSafe ==
  ASSUME IInv, NEW p \in Process, NEW step \in Steps(p) \cap Aimless,
         row' \in {Free, row, Abandoned(p)}, Goto(p, step),
         code' = [code EXCEPT ![p] = None], UNCHANGED faults \/ Fault,
         UNCHANGED <<auth, store, files, index, readBack>>
  PROVE  Safe(p)
  <1>1. code' \in [Process -> Codes]
    BY Typed DEF CallsTyped, Codes
  <1>2. Goes(p, step)
    BY <1>1, Typed, GotoEffect
  <1>3. StoreTyped' /\ RestTyped'
    BY Typed, FaultTyped, LostRow DEF StoreTyped, RestTyped, store
  <1> QED
    BY <1>2, <1>3, LostRow, AimlessKnowsNothing, TurnIsSafe DEF store

(* Release and hand-off.                                                   *)
LEMMA ReleaseSafe ==
  ASSUME IInv, NEW p \in Process, Release(p) \/ HandOff(p)
  PROVE  Safe(p)
  <1>1. {"scan", Rest(p)} \subseteq Steps(p) \cap Aimless
    BY CommonSteps DEF Handing, Aimless
  <1>2. ASSUME NEW step \in {"scan", Rest(p)}, ReleaseTo(p, step)
        PROVE  Safe(p)
    BY <1>1, <1>2, LoseIsSafe DEF ReleaseTo
  <1> QED
    BY <1>2 DEF Release, HandOff

(* A call dies.                                                            *)
LEMMA CrashSafe ==
  ASSUME IInv, NEW p \in Process, Crash(p)
  PROVE  Safe(p)
  BY CommonSteps, LoseIsSafe DEF Crash

(* A scan sees the book.                                                   *)
LEMMA ReconcileSafe ==
  ASSUME IInv, NEW p \in Process, Reconcile(p)
  PROVE  Safe(p)
  <1>1. {"lock", Rest(p)} \subseteq Steps(p) \cap Aimless
    BY CommonSteps DEF Handing, Aimless
  <1>2. PICK step \in {"lock", Rest(p)} : Goto(p, step)
    BY DEF Reconcile
  <1>3. /\ UNCHANGED <<auth, row, status, journal, bound, recon, files, code, readBack,
                       faults>>
        /\ index' \in {index, source} /\ scanned' \subseteq scanned \cup {source}
    BY DEF Reconcile, Observe
  <1>4. Goes(p, step)
    BY <1>1, <1>2, <1>3, Typed, GotoEffect DEF CallsTyped
  <1>5. StoreTyped' /\ RestTyped'
    BY <1>3, Typed DEF StoreTyped, RestTyped, FilesTyped
  <1> QED
    BY <1>1, <1>3, <1>4, <1>5, FenceSame, AimlessKnowsNothing, TurnIsSafe

(* The outcome is recorded over files that are as it says.                 *)
LEMMA ConfirmSafe ==
  ASSUME IInv, NEW p \in Process, Confirm(p)
  PROVE  Safe(p)
  <1>1. /\ "release" \in Steps(p) /\ "release" \in Aimless
        /\ Goto(p, "release")
        /\ UNCHANGED <<auth, row, bound, scanned, files, index, code, readBack, faults>>
        /\ readBack' \in BOOLEAN
    BY Typed, CommonSteps DEF Confirm, RestTyped, Handing, Aimless
  <1>2. CASE /\ Fence(p) /\ status = ExpectedStatus(p)
             /\ Classify = ExpectedPhysical(p)
             /\ recon' = Outcome(p)
             /\ status' = Outcome(p)
             /\ journal' = journal \cup {Outcome(p)}
    <2>1. \/ /\ status = "RECOVERED" /\ status' = "RECOVERED"
             /\ recon' = "RECOVERED" /\ journal' = journal \cup {"RECOVERED"}
             /\ Classify = "drafted"
          \/ /\ status = "ORIGINAL_PRESERVED" /\ status' = "VERIFIED"
             /\ recon' = "VERIFIED" /\ journal' = journal \cup {"VERIFIED"}
             /\ Classify = "preserved"
      BY <1>2 DEF ExpectedStatus, ExpectedPhysical, Outcome
    <2>2. Goes(p, "release") /\ RestTyped'
      BY <1>1, Typed, GotoEffect DEF CallsTyped, RestTyped
    <2>3. StoreTyped'
      BY <1>1, <2>1, Typed, MarkerFacts DEF StoreTyped, Status, Phase
    <2>4. TypeOK' /\ Clean' = Clean /\ Classify' = Classify
      BY <1>1, <2>2, <2>3, Typed, TypeParts, ClassifySame
         DEF Goes, FilesTyped, files,
         Clean
    <2>5. JournalInv' /\ FilesInv' /\ VerdictInv'
      BY <1>1, <2>1, <2>4 DEF IInv, JournalInv, FilesInv, VerdictInv, files,
         FailBeforeExchange
    <2>6. Knows(p)'
      BY <1>1, <2>2, AimlessKnowsNothing DEF Goes, Knows
    <2> QED
      BY <1>1, <1>2, <2>2, <2>4, <2>5, <2>6, FenceSame DEF Safe, Goes
  <1>3. CASE UNCHANGED <<recon, status, journal>>
    BY <1>1, <1>3, AimlessKnowsNothing, GotoIsSafe DEF store
  <1> QED
    BY <1>2, <1>3 DEF Confirm, RecoveryGate

-----------------------------------------------------------------------------
(* Time and others.                                                        *)

(* What happens without any call.                                          *)
LEMMA OthersKeepIt ==
  ASSUME IInv,
         UNCHANGED <<status, journal, bound, recon, draft, recovery, strayed, pc, code>>,
         scanned' \subseteq Content, RestTyped',
         \/ UNCHANGED <<source, meddled>>
         \/ meddled' /\ meddled' \in BOOLEAN /\ source' \in Content,
         \A q \in Process : Fence(q)' => Fence(q)
  PROVE  IInv'
  <1>1. CallsTyped' /\ StoreTyped' /\ FilesTyped'
    BY Typed DEF CallsTyped, StoreTyped, FilesTyped
  <1>2. Clean' => Clean /\ UNCHANGED <<source, draft, recovery>> /\ Classify' = Classify
    BY ClassifySame DEF Clean
  <1>3. JournalInv'
    BY DEF IInv, JournalInv
  <1>4. FilesInv' /\ VerdictInv'
    BY <1>2 DEF IInv, FilesInv, VerdictInv
  <1>5. ASSUME NEW q \in Process
        PROVE  Knows(q)'
    BY <1>2 DEF IInv, Knows, StatusAt, FilesAt, Restorable
  <1> QED
    BY <1>1, <1>3, <1>4, <1>5, TypeParts DEF IInv

(* Leases and authorizations run out, others scan or change the book.      *)
LEMMA EnvironmentKeepsIt ==
  ASSUME IInv, AuthorizationExpires \/ LeaseExpires \/ ForeignScan \/ Meddle
  PROVE  IInv'
  <1>1. CASE AuthorizationExpires
    <2>1. RestTyped' /\ scanned' \subseteq Content
      BY <1>1, Typed, FaultTyped
         DEF AuthorizationExpires, RestTyped, StoreTyped, store
    <2> QED
      BY <1>1, <2>1, FenceSame, OthersKeepIt
         DEF AuthorizationExpires, store, files
  <1>2. CASE LeaseExpires
    <2>1. row \in [for : {"new", "run"}, by : Process \cup {Gone}, expired : BOOLEAN]
      BY <1>2, Typed DEF LeaseExpires, RestTyped, Lease, Free
    <2>2. row' \in Lease /\ row'.expired
      BY <1>2, <2>1 DEF LeaseExpires, Lease
    <2>3. RestTyped' /\ scanned' \subseteq Content
      BY <1>2, <2>2, Typed, FaultTyped
         DEF LeaseExpires, RestTyped, StoreTyped, store
    <2>4. \A q \in Process : ~Fence(q)'
      BY <2>2 DEF Fence
    <2> QED
      BY <1>2, <2>3, <2>4, OthersKeepIt DEF LeaseExpires, store, files
  <1>3. CASE ForeignScan
    <2>1. RestTyped' /\ scanned' \subseteq Content
      BY <1>3, Typed, FaultTyped
         DEF ForeignScan, Observe, RestTyped, StoreTyped,
         FilesTyped
    <2> QED
      BY <1>3, <2>1, FenceSame, OthersKeepIt DEF ForeignScan, files
  <1>4. CASE Meddle
    <2>1. RestTyped' /\ scanned' \subseteq Content /\ source' \in Content
      BY <1>4, Typed, FaultTyped
         DEF Meddle, RestTyped, StoreTyped, store, Content
    <2> QED
      BY <1>4, <2>1, FenceSame, OthersKeepIt DEF Meddle, store
  <1> QED
    BY <1>1, <1>2, <1>3, <1>4

-----------------------------------------------------------------------------
(* The invariant.                                                          *)

(* Before the first call nothing has been journalled or moved.             *)
LEMMA InitIInv == Init => IInv
  <1> SUFFICES ASSUME Init
               PROVE  IInv
    OBVIOUS
  <1>1. CallsTyped
    BY MarkerFacts
       DEF Init, CallsTyped, Process, ExecutorStep, RecoveryStep, Codes
  <1>2. StoreTyped
    BY DEF Init, StoreTyped
  <1>3. FilesTyped /\ RestTyped
    <2>1. FilesTyped
      BY DEF Init, FilesTyped, Content
    <2>2. row \in Lease
      BY DEF Init, Lease
    <2>3. auth \in {"valid", "expired"} /\ index \in Content /\ readBack \in BOOLEAN
      BY DEF Init, Content
    <2>4. faults \in 0..MaxFaults
      BY MarkerFacts DEF Init
    <2> QED
      BY <2>1, <2>2, <2>3, <2>4 DEF RestTyped
  <1>4. JournalInv /\ FilesInv /\ VerdictInv
    BY MarkerFacts DEF Init, JournalInv, FilesInv, VerdictInv, Status, Phase,
       FailBeforeExchange
  <1>5. \A p \in Process : ~Fence(p)
    BY MarkerFacts DEF Init, Fence, Free
  <1> QED
    BY <1>1, <1>2, <1>3, <1>4, <1>5, TypeParts DEF IInv, Knows

(* The steps execute() and recover() share.                                *)
LEMMA SettleStepSafe ==
  ASSUME IInv, NEW p \in Process, SettleStep(p)
  PROVE  Safe(p)
  BY SettleSafe, SynchronizeSafe, RestoreGateSafe, UnpreserveSafe, SwapBackSafe,
     JournalRecoveredSafe, JournalManualSafe, ReleaseSafe, ReconcileSafe,
     ReacquireLeaseSafe, ConfirmSafe
     DEF SettleStep

(* Every step of a call of execute().                                      *)
LEMMA ExecuteStepSafe ==
  ASSUME IInv, NEW e \in Executor, StartExecute(e) \/ ExecuteStep(e)
  PROVE  Safe(e)
  <1>1. ASSUME SettleStep(e)
        PROVE  Safe(e)
    BY <1>1, SettleStepSafe, MarkerFacts
  <1> QED
    BY <1>1, StartExecuteSafe, AcquireRunLeaseSafe, AcquireNewLeaseSafe,
       CreateRunSafe, DispatchSafe, BindBackendSafe, StageSafe, DraftGateSafe,
       CreateDraftSafe, CopyOutputSafe, PrepareSafe, ExchangeGateSafe, ExchangeSafe,
       JournalExchangedSafe, PreserveGateSafe, PreserveOriginalSafe, ReadBackSafe,
       JournalPreservedSafe, HandleFailureSafe
       DEF ExecuteStep

(* Every step of an operator's call of recover().                          *)
LEMMA RecoverStepSafe ==
  ASSUME IInv, NEW r \in Recoverer, StartRecover(r) \/ RecoverStep(r)
  PROVE  Safe(r)
  <1>1. ASSUME SettleStep(r)
        PROVE  Safe(r)
    BY <1>1, SettleStepSafe, MarkerFacts
  <1> QED
    BY <1>1, StartRecoverSafe, AcquireRecoveryLeaseSafe, RecoverRunSafe
       DEF RecoverStep

(* Every step keeps the invariant.                                         *)
LEMMA NextIInv == IInv /\ [Next]_vars => IInv'
  <1> SUFFICES ASSUME IInv, [Next]_vars
               PROVE  IInv'
    OBVIOUS
  <1>1. ASSUME NEW e \in Executor, StartExecute(e) \/ ExecuteStep(e)
        PROVE  IInv'
    BY <1>1, ExecuteStepSafe, SafeIsEnough, MarkerFacts
  <1>2. ASSUME NEW r \in Recoverer, StartRecover(r) \/ RecoverStep(r)
        PROVE  IInv'
    BY <1>2, RecoverStepSafe, SafeIsEnough, MarkerFacts
  <1>3. ASSUME NEW p \in Process, Crash(p)
        PROVE  IInv'
    BY <1>3, CrashSafe, SafeIsEnough
  <1>4. CASE AuthorizationExpires \/ LeaseExpires \/ ForeignScan \/ Meddle
    BY <1>4, EnvironmentKeepsIt
  <1>5. CASE UNCHANGED vars
    <2>1. RestTyped' /\ scanned' \subseteq Content
      BY <1>5, Typed DEF vars, store, files, RestTyped, StoreTyped
    <2> QED
      BY <1>5, <2>1, FenceSame, OthersKeepIt DEF vars, store, files
  <1> QED
    BY <1>1, <1>2, <1>3, <1>4, <1>5 DEF Next

(* So it holds of every state.                                             *)
LEMMA SpecIInv == Spec => []IInv
  BY InitIInv, NextIInv, PTL DEF Spec

(* Journal, lease, files, index and calls keep their types, the stored     *)
(* outcome is the status of the run, and the status is one of the journal. *)
THEOREM TypeCorrect == Spec => []TypeOK
  <1>1. IInv => TypeOK
    BY DEF IInv
  <1> QED
    BY SpecIInv, <1>1, PTL

(* VERIFIED, RECOVERED and the statuses before the exchange are true of    *)
(* the three directory entries, and the output never takes the place of    *)
(* the book before PREPARED is journalled, whatever call or recovery       *)
(* stopped where, unless a call that had lost its lease or somebody else   *)
(* has touched the files.                                                  *)
THEOREM VerdictIsTrue == Spec => []VerdictMatchesTheFiles
  <1>1. IInv => VerdictMatchesTheFiles
    BY DEF IInv, VerdictInv, FilesInv, Clean, VerdictMatchesTheFiles
  <1> QED
    BY SpecIInv, <1>1, PTL

-----------------------------------------------------------------------------
(* The original bytes.                                                     *)

(* Every system call moves contents between names or fills the draft.      *)
Shuffles ==
    \/ UNCHANGED <<source, draft, recovery>>
    \/ source' = draft /\ draft' = source /\ recovery' = recovery
    \/ draft = "MISSING" /\ draft' = "OTHER" /\ UNCHANGED <<source, recovery>>
    \/ draft = "OTHER" /\ draft' = "OUTPUT" /\ UNCHANGED <<source, recovery>>
    \/ recovery = "MISSING" /\ recovery' = draft /\ UNCHANGED source
    \/ draft = "MISSING" /\ draft' = recovery /\ UNCHANGED source

(* The steps execute() and recover() share.                                *)
LEMMA SettleShuffles ==
  ASSUME NEW p, SettleStep(p)
  PROVE  Shuffles /\ UNCHANGED meddled
  <1>1. CASE Unpreserve(p)
    BY <1>1 DEF Unpreserve, files, Shuffles
  <1>2. CASE SwapBack(p)
    BY <1>2 DEF SwapBack, Swap, files, Shuffles
  <1>3. CASE Settle(p) \/ RestoreGate(p) \/ JournalRecovered(p) \/ JournalManual(p)
    BY <1>3 DEF Settle, RestoreGate, JournalRecovered, JournalManual, Turn,
       AppendOrGiveUp, files, Shuffles
  <1>4. CASE Synchronize(p, "sync exchanged") \/ Synchronize(p, "sync preserved")
    BY <1>4 DEF Synchronize, Turn, AppendOrGiveUp, files, Shuffles
  <1>5. CASE \/ Release(p) \/ HandOff(p) \/ Reconcile(p) \/ ReacquireLease(p)
             \/ Confirm(p)
    BY <1>5 DEF Release, HandOff, ReleaseTo, Reconcile, ReacquireLease, Acquire,
       Confirm, files, Shuffles
  <1> QED
    BY <1>1, <1>2, <1>3, <1>4, <1>5 DEF SettleStep

(* The steps of execute().                                                 *)
LEMMA ExecuteShuffles ==
  ASSUME NEW e, StartExecute(e) \/ ExecuteStep(e)
  PROVE  Shuffles /\ UNCHANGED meddled
  <1>1. CASE CreateDraft(e)
    BY <1>1 DEF CreateDraft, Shuffles
  <1>2. CASE CopyOutput(e)
    BY <1>2 DEF CopyOutput, Shuffles
  <1>3. CASE Exchange(e)
    BY <1>3 DEF Exchange, Swap, files, Shuffles
  <1>4. CASE PreserveOriginal(e)
    BY <1>4 DEF PreserveOriginal, files, Shuffles
  <1>5. CASE \/ StartExecute(e) \/ AcquireRunLease(e) \/ AcquireNewLease(e)
             \/ CreateRun(e) \/ Dispatch(e) \/ BindBackend(e) \/ Stage(e)
             \/ DraftGate(e)
    BY <1>5
       DEF StartExecute, AcquireRunLease, Acquire, AcquireNewLease, CreateRun,
       Dispatch, BindBackend, Stage, DraftGate, files, Shuffles
  <1>6. CASE Prepare(e) \/ JournalExchanged(e) \/ JournalPreserved(e)
    BY <1>6
       DEF Prepare, JournalExchanged, JournalPreserved, AppendOrFail, files,
       Shuffles
  <1>7. CASE \/ ExchangeGate(e) \/ PreserveGate(e) \/ ReadBack(e)
             \/ HandleFailure(e)
    BY <1>7
       DEF ExchangeGate, PreserveGate, ReadBack, HandleFailure, files, Shuffles
  <1> QED
    BY <1>1, <1>2, <1>3, <1>4, <1>5, <1>6, <1>7, SettleShuffles DEF ExecuteStep

(* Everything that happens but a change by somebody else.                  *)
LEMMA NextShuffles ==
  ASSUME [Next]_vars
  PROVE  (Shuffles /\ UNCHANGED meddled) \/ meddled'
  <1>1. ASSUME NEW r, StartRecover(r) \/ AcquireRecoveryLease(r) \/ RecoverRun(r)
        PROVE  Shuffles /\ UNCHANGED meddled
    BY <1>1
       DEF StartRecover, AcquireRecoveryLease, Acquire, RecoverRun, files,
           Shuffles
  <1>2. CASE \/ AuthorizationExpires \/ LeaseExpires \/ ForeignScan
             \/ (\E p \in Process : Crash(p)) \/ UNCHANGED vars
    BY <1>2
       DEF AuthorizationExpires, LeaseExpires, ForeignScan, Crash, vars, files,
       Shuffles
  <1>3. CASE Meddle
    BY <1>3 DEF Meddle
  <1> QED
    BY <1>1, <1>2, <1>3, ExecuteShuffles, SettleShuffles DEF Next, RecoverStep

(* The original bytes stay under one of the three names: whatever is       *)
(* interrupted, repeated or done by a call that has lost its lease, and    *)
(* wherever execute() and recover() interleave; no assumption is made on   *)
(* who strayed.                                                            *)
THEOREM OriginalIsKept == Spec => []OriginalSurvives
  <1>1. Init => OriginalSurvives
    BY DEF Init, OriginalSurvives
  <1>2. OriginalSurvives /\ [Next]_vars => OriginalSurvives'
    <2> SUFFICES ASSUME OriginalSurvives, [Next]_vars, ~meddled'
                 PROVE  "ORIGINAL" \in {source', draft', recovery'}
      BY DEF OriginalSurvives
    <2>1. Shuffles /\ UNCHANGED meddled
      BY NextShuffles
    <2>2. "ORIGINAL" \in {source, draft, recovery}
      BY <2>1 DEF OriginalSurvives
    <2> QED
      BY <2>1, <2>2 DEF Shuffles
  <1> QED
    BY <1>1, <1>2, PTL DEF Spec
=============================================================================
