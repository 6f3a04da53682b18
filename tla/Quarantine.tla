------------------------------ MODULE Quarantine ------------------------------
(***************************************************************************)
(* Moving one duplicate candidate into quarantine, and recovering a move   *)
(* that did not report its end: QuarantineOperatorService                  *)
(* (workflows/quarantine_operation.py), its executor and its recovery      *)
(* (quarantine/executor.py, quarantine/recovery.py) and the journal        *)
(* (persistence/quarantine.py).                                            *)
(*                                                                         *)
(* The rename is no part of any transaction, and the journal is written    *)
(* before and after it.  All that keeps an executor and a recovery apart   *)
(* is the write lease of the root.  The lease is ScanRootLease's, reduced  *)
(* to who holds it for which run and whether it has expired: tokens and    *)
(* epochs only tell one holder from another.  Reading the row and changing *)
(* it are one action here, because the change re-tests what was read.      *)
(***************************************************************************)
EXTENDS Naturals

CONSTANTS
    Executor,     \* calls of execute(); each draws its own run id
    Recoverer,    \* operator processes that call recover()
    Auth,         \* authorizations, all for the same candidate
    AuthOf,       \* the authorization an execute() call is given
    MaxFaults,    \* bound: crashes, suspensions and transient database errors
    MaxMeddles,   \* bound: changes of the files by somebody else
    Gone,         \* stands for a holder that takes no further step
    None

Incomplete == {"PREPARED", "MOVED", "VERIFIED"}
Terminal == {"COMPLETED", "VALIDATION_FAILED", "MANUAL_REVIEW", "CANCELLED"}

ASSUME ConstantsAssumption ==
    /\ AuthOf \in [Executor -> Auth]
    /\ Executor \cap Recoverer = {}
    /\ {None, Gone} \cap (Executor \cup Recoverer) = {}
    /\ None \notin Incomplete \cup Terminal
    /\ Gone # None
    /\ MaxFaults \in Nat
    /\ MaxMeddles \in Nat

VARIABLES
    auth,         \* auth[a]: "none", "valid", "expired"
    row,          \* the lease: which run it is for, who holds it, expired
    journal,      \* journal[e]: the last event of e's run, None if not persisted
    src,          \* what is at the candidate's path
    tgt,          \* tgt[a]: what is at the opaque target path of a
    pc,           \* the next step of every process
    job,          \* job[r]: the run a recoverer works on
    phys,         \* phys[r]: what its last inspection found
    moved,        \* history: moved[e], e's os.rename succeeded
    outlived,     \* history: the calls that still ran when their lease expired
    faults,
    meddles

vars == <<auth, row, journal, src, tgt, pc, job, phys, moved, outlived, faults,
          meddles>>
files == <<src, tgt, moved>>
bounds == <<outlived, faults, meddles>>
recovery == <<job, phys>>

Process == Executor \cup Recoverer

(* "touched" has the candidate's bytes and another modification time.      *)
Content == {"book", "touched", "other"}
SameBytes == {"book", "touched"}
Entry == Content \cup {"absent"}

ExecutorStep == {"idle", "acquire", "revalidate", "prepare", "check", "move",
                 "moved", "verify", "verified", "complete", "invalid", "review",
                 "release", "done"}
RecoveryStep == {"idle", "acquire", "reread", "inspect", "confirm", "append",
                 "free", "release"}

Free == [run |-> None, by |-> None, expired |-> FALSE]
Lease == {Free} \cup [run : Executor, by : Process \cup {Gone}, expired : BOOLEAN]
HeldBy(e, p) == [run |-> e, by |-> p, expired |-> FALSE]

TypeOK ==
    /\ auth \in [Auth -> {"none", "valid", "expired"}]
    /\ row \in Lease
    /\ journal \in [Executor -> Incomplete \cup Terminal \cup {None}]
    /\ src \in Entry
    /\ tgt \in [Auth -> Entry]
    /\ pc \in [Process -> ExecutorStep \cup RecoveryStep]
    /\ \A e \in Executor : pc[e] \in ExecutorStep
    /\ \A r \in Recoverer : pc[r] \in RecoveryStep
    /\ job \in [Recoverer -> Executor \cup {None}]
    /\ phys \in [Recoverer -> {"source", "target", "ambiguous"}]
    /\ moved \in [Executor -> BOOLEAN]
    /\ outlived \subseteq Process
    /\ faults \in 0..MaxFaults
    /\ meddles \in 0..MaxMeddles

Init ==
    /\ auth = [a \in Auth |-> "none"]
    /\ row = Free
    /\ journal = [e \in Executor |-> None]
    /\ src = "book"
    /\ tgt = [a \in Auth |-> "absent"]
    /\ pc = [p \in Process |-> "idle"]
    /\ job = [r \in Recoverer |-> None]
    /\ phys = [r \in Recoverer |-> "ambiguous"]
    /\ moved = [e \in Executor |-> FALSE]
    /\ outlived = {}
    /\ faults = 0
    /\ meddles = 0

Goto(p, step) == pc' = [pc EXCEPT ![p] = step]

Fault == faults < MaxFaults /\ faults' = faults + 1

-----------------------------------------------------------------------------
(* The authorization and the lease.                                        *)

(* authorize(): both files are verified; the snapshot is stored.           *)
Authorize(a) ==
    /\ auth[a] = "none"
    /\ src = "book"
    /\ auth' = [auth EXCEPT ![a] = "valid"]
    /\ UNCHANGED <<row, journal, pc, recovery, files, bounds>>

(* At most 15 minutes after it was granted.                                *)
AuthorizationExpires(a) ==
    /\ auth[a] = "valid"
    /\ auth' = [auth EXCEPT ![a] = "expired"]
    /\ UNCHANGED <<row, journal, pc, recovery, files, bounds>>

Working(p) == pc[p] \notin {"idle", "done"}

(* Nobody renews a lease: a call that is suspended for longer than 30      *)
(* minutes outlives it, and goes on without noticing.  That counts as a    *)
(* fault; the lease of a process that is gone always expires.  An          *)
(* authorization lives 15 minutes and is older than its call's lease.      *)
LeaseExpires ==
    /\ row.by # None
    /\ ~row.expired
    /\ row.by \in Executor => auth[AuthOf[row.by]] = "expired"
    /\ IF row.by = Gone \/ ~Working(row.by) THEN UNCHANGED faults ELSE Fault
    /\ row' = [row EXCEPT !.expired = TRUE]
    /\ outlived' = outlived \cup ({row.by} \cap Process)
    /\ UNCHANGED <<auth, journal, pc, recovery, files, meddles>>

(* The fence of a transaction of process p for run e.  An executor fences  *)
(* with the fixed time of its confirmation, which is before its lease was  *)
(* granted: for it the comparison with the expiry is always true.          *)
ExecutorFence(e) == row.by = e /\ row.run = e
RecoveryFence(r) == row.by = r /\ row.run = job[r] /\ ~row.expired

Abandoned(p) == IF row.by = p THEN [row EXCEPT !.by = Gone] ELSE row

(* _release_lease: only a lease that is still the caller's and unexpired;  *)
(* every error is swallowed, so the lease may also stay behind.            *)
ReleaseLease(p, next) ==
    /\ \/ /\ row.by = p /\ ~row.expired
          /\ row' = Free
          /\ UNCHANGED faults
       \/ /\ row.by # p \/ row.expired
          /\ UNCHANGED <<row, faults>>
       \/ /\ row.by = p
          /\ Fault
          /\ row' = Abandoned(p)
    /\ Goto(p, next)
    /\ UNCHANGED <<auth, journal, files, outlived, meddles>>

-----------------------------------------------------------------------------
(* execute()                                                               *)

(* Confirmation: the authorization must be valid and not consumed.         *)
Consumed(a) == \E e \in Executor : AuthOf[e] = a /\ journal[e] # None

Confirm(e) ==
    /\ pc[e] = "idle"
    /\ auth[AuthOf[e]] = "valid"
    /\ ~Consumed(AuthOf[e])
    /\ Goto(e, "acquire")
    /\ UNCHANGED <<auth, row, journal, recovery, files, bounds>>

(* _acquire_run_lease: a free slot, or the expired lease of a quarantine   *)
(* call that never persisted its run; anything else is FENCED_OUT.         *)
AcquireRunLease(e) ==
    /\ pc[e] = "acquire"
    /\ IF row.by = None \/ (row.expired /\ journal[row.run] = None)
       THEN row' = HeldBy(e, e) /\ Goto(e, "revalidate")
       ELSE Goto(e, "done") /\ UNCHANGED row
    /\ UNCHANGED <<auth, journal, recovery, files, bounds>>

(* The material is read again under the lease.  Plan, reviews or a changed *)
(* capability may have gone stale at any time: the call may always fail.   *)
Revalidate(e) ==
    /\ pc[e] = "revalidate"
    /\ \/ auth[AuthOf[e]] = "valid" /\ src = "book" /\ Goto(e, "prepare")
       \/ Goto(e, "release")
    /\ UNCHANGED <<auth, row, journal, recovery, files, bounds>>

PreparePerRun(e) ==
    /\ pc[e] = "prepare"
    /\ IF ExecutorFence(e)
       THEN journal' = [journal EXCEPT ![e] = "PREPARED"] /\ Goto(e, "check")
       ELSE Goto(e, "release") /\ UNCHANGED journal
    /\ UNCHANGED <<auth, row, recovery, files, bounds>>

(* create_confirmed_prepared_run: the run consumes its authorization.      *)
Prepare(e) ==
    /\ pc[e] = "prepare"
    /\ IF ExecutorFence(e) /\ ~Consumed(AuthOf[e])
       THEN journal' = [journal EXCEPT ![e] = "PREPARED"] /\ Goto(e, "check")
       ELSE Goto(e, "release") /\ UNCHANGED journal
    /\ UNCHANGED <<auth, row, recovery, files, bounds>>

(* _validate_before_move compares the bytes, not the modification time.    *)
Check(e) ==
    /\ pc[e] = "check"
    /\ Goto(e, IF src \in SameBytes /\ tgt[AuthOf[e]] = "absent"
               THEN "move" ELSE "invalid")
    /\ UNCHANGED <<auth, row, journal, recovery, files, bounds>>

(* os.rename: takes whatever is at the source now and replaces whatever is *)
(* at the target.  No fence and no transaction.                            *)
Move(e) ==
    /\ pc[e] = "move"
    /\ IF src = "absent"
       THEN Goto(e, "invalid") /\ UNCHANGED files
       ELSE /\ tgt' = [tgt EXCEPT ![AuthOf[e]] = src]
            /\ src' = "absent"
            /\ moved' = [moved EXCEPT ![e] = TRUE]
            /\ Goto(e, "moved")
    /\ UNCHANGED <<auth, row, journal, recovery, bounds>>

(* append_event: fence, then the transition table.                         *)
Follows(status) ==
    CASE status \in {"MOVED", "CANCELLED"} -> {"PREPARED"}
      [] status = "VERIFIED" -> {"MOVED"}
      [] status = "VALIDATION_FAILED" -> {"PREPARED", "MOVED"}
      [] status = "COMPLETED" -> {"VERIFIED"}
      [] OTHER -> Incomplete

(* Fenced out or a database error: the call ends and tries to release.     *)
AppendOrLeave(e, status, next) ==
    /\ \/ /\ ExecutorFence(e) /\ journal[e] \in Follows(status)
          /\ journal' = [journal EXCEPT ![e] = status]
          /\ Goto(e, next)
          /\ UNCHANGED faults
       \/ /\ ~(ExecutorFence(e) /\ journal[e] \in Follows(status))
          /\ Goto(e, "release")
          /\ UNCHANGED <<journal, faults>>
       \/ /\ Fault
          /\ Goto(e, "release")
          /\ UNCHANGED journal
    /\ UNCHANGED <<auth, row, recovery, files, outlived, meddles>>

AppendMoved(e) == pc[e] = "moved"    /\ AppendOrLeave(e, "MOVED", "verify")
AppendVerified(e) == pc[e] = "verified" /\ AppendOrLeave(e, "VERIFIED", "complete")
AppendCompleted(e) == pc[e] = "complete" /\ AppendOrLeave(e, "COMPLETED", "release")
AppendInvalid(e) == pc[e] = "invalid"  /\ AppendOrLeave(e, "VALIDATION_FAILED", "release")
AppendReview(e) == pc[e] = "review"   /\ AppendOrLeave(e, "MANUAL_REVIEW", "release")

(* _validate_after_move *)
Verify(e) ==
    /\ pc[e] = "verify"
    /\ Goto(e, IF src = "absent" /\ tgt[AuthOf[e]] \in SameBytes
               THEN "verified" ELSE "review")
    /\ UNCHANGED <<auth, row, journal, recovery, files, bounds>>

ExecutorRelease(e) ==
    /\ pc[e] = "release"
    /\ ReleaseLease(e, "done")
    /\ UNCHANGED recovery

ExecutorCrash(e) ==
    /\ Working(e)
    /\ Fault
    /\ Goto(e, "done")
    /\ row' = Abandoned(e)
    /\ UNCHANGED <<auth, journal, recovery, files, outlived, meddles>>

-----------------------------------------------------------------------------
(* recover()                                                               *)

StartIncompleteRecovery(r, e) ==
    /\ pc[r] = "idle"
    /\ journal[e] \in Incomplete
    /\ job' = [job EXCEPT ![r] = e]
    /\ Goto(r, "acquire")
    /\ UNCHANGED <<auth, row, journal, phys, files, bounds>>

(* A terminal run only has an expired lease of its own to give back.       *)
StartRecovery(r, e) ==
    /\ pc[r] = "idle"
    /\ journal[e] # None
    /\ journal[e] \in Incomplete \/ row.run = e
    /\ job' = [job EXCEPT ![r] = e]
    /\ Goto(r, IF journal[e] \in Incomplete THEN "acquire" ELSE "free")
    /\ UNCHANGED <<auth, row, journal, phys, files, bounds>>

TakeUnexpiredLease(r) ==
    /\ pc[r] = "acquire"
    /\ IF row.by = None \/ row.run = job[r]
       THEN row' = HeldBy(job[r], r) /\ Goto(r, "reread")
       ELSE Goto(r, "idle") /\ UNCHANGED row
    /\ UNCHANGED <<auth, journal, recovery, files, bounds>>

TakeOnlyFreeLease(r) ==
    /\ pc[r] = "acquire"
    /\ IF row.by = None
       THEN row' = HeldBy(job[r], r) /\ Goto(r, "reread")
       ELSE Goto(r, "idle") /\ UNCHANGED row
    /\ UNCHANGED <<auth, journal, recovery, files, bounds>>

(* _acquire_recovery_lease: a free slot or the expired lease of this run.  *)
AcquireRecoveryLease(r) ==
    /\ pc[r] = "acquire"
    /\ IF row.by = None \/ (row.expired /\ row.run = job[r])
       THEN row' = HeldBy(job[r], r) /\ Goto(r, "reread")
       ELSE Goto(r, "idle") /\ UNCHANGED row
    /\ UNCHANGED <<auth, journal, recovery, files, bounds>>

(* _release_expired_terminal_lease: take over, then release.               *)
FreeTerminalLease(r) ==
    /\ pc[r] = "free"
    /\ IF row.expired /\ row.run = job[r]
       THEN row' = HeldBy(job[r], r) /\ Goto(r, "release")
       ELSE Goto(r, "idle") /\ UNCHANGED row
    /\ UNCHANGED <<auth, journal, recovery, files, bounds>>

(* The run is read again under the lease, and the historical locator is    *)
(* fetched in a fenced transaction; its file need not be current any more. *)
Reread(r) ==
    /\ pc[r] = "reread"
    /\ Goto(r, IF journal[job[r]] \in Incomplete /\ RecoveryFence(r)
               THEN "inspect" ELSE "release")
    /\ UNCHANGED <<auth, row, journal, recovery, files, bounds>>

(* inspect_interim_quarantine_recovery: here the modification time counts. *)
Physical(a) ==
    IF src = "book" /\ tgt[a] = "absent" THEN "source"
    ELSE IF src = "absent" /\ tgt[a] = "book" THEN "target"
    ELSE "ambiguous"

(* The loop of recover_interim_quarantine reads the journal, then inspects.*)
Inspect(r) ==
    /\ pc[r] = "inspect"
    /\ LET found == Physical(AuthOf[job[r]])
           last == journal[job[r]]
       IN  /\ phys' = [phys EXCEPT ![r] = found]
           /\ Goto(r, IF last \notin Incomplete THEN "release"
                      ELSE IF last = "PREPARED" /\ found = "source" THEN "confirm"
                      ELSE "append")
    /\ UNCHANGED <<auth, row, journal, job, files, bounds>>

(* Before it cancels it looks a second time.                               *)
InspectAgain(r) ==
    /\ pc[r] = "confirm"
    /\ phys' = [phys EXCEPT ![r] = Physical(AuthOf[job[r]])]
    /\ Goto(r, "append")
    /\ UNCHANGED <<auth, row, journal, job, files, bounds>>

VerifiedWithoutTheTarget(r) ==
    LET last == journal[job[r]] IN
    CASE phys[r] = "source" /\ last = "PREPARED" -> "CANCELLED"
      [] phys[r] # "source" /\ last = "PREPARED" -> "MOVED"
      [] phys[r] # "source" /\ last = "MOVED" -> "VERIFIED"
      [] phys[r] # "source" /\ last = "VERIFIED" -> "COMPLETED"
      [] OTHER -> "MANUAL_REVIEW"

Recovered(r) ==
    LET last == journal[job[r]] IN
    CASE phys[r] = "source" /\ last = "PREPARED" -> "CANCELLED"
      [] phys[r] = "target" /\ last = "PREPARED" -> "MOVED"
      [] phys[r] = "target" /\ last = "MOVED" -> "VERIFIED"
      [] phys[r] = "target" /\ last = "VERIFIED" -> "COMPLETED"
      [] OTHER -> "MANUAL_REVIEW"

(* _append_recovery_event; the loop goes on until the run is terminal.     *)
AppendRecovered(r) ==
    /\ pc[r] = "append"
    /\ \/ /\ RecoveryFence(r)
          /\ journal[job[r]] \in Follows(Recovered(r))
          /\ journal' = [journal EXCEPT ![job[r]] = Recovered(r)]
          /\ Goto(r, "inspect")
          /\ UNCHANGED faults
       \/ /\ ~(RecoveryFence(r) /\ journal[job[r]] \in Follows(Recovered(r)))
          /\ Goto(r, "release")
          /\ UNCHANGED <<journal, faults>>
       \/ /\ Fault
          /\ Goto(r, "release")
          /\ UNCHANGED journal
    /\ UNCHANGED <<auth, row, recovery, files, outlived, meddles>>

RecoveryRelease(r) ==
    /\ pc[r] = "release"
    /\ ReleaseLease(r, "idle")
    /\ UNCHANGED recovery

RecoveryCrash(r) ==
    /\ Working(r)
    /\ Fault
    /\ Goto(r, "idle")
    /\ row' = Abandoned(r)
    /\ UNCHANGED <<auth, journal, recovery, files, outlived, meddles>>

-----------------------------------------------------------------------------
(* Somebody else changes the candidate, or puts a file at a target path.   *)
Meddle ==
    /\ meddles < MaxMeddles
    /\ meddles' = meddles + 1
    /\ \/ src' \in Entry \ {src} /\ UNCHANGED tgt
       \/ \E a \in Auth : /\ tgt[a] = "absent"
                          /\ tgt' = [tgt EXCEPT ![a] = "other"]
                          /\ UNCHANGED src
    /\ UNCHANGED <<auth, row, journal, pc, recovery, moved, outlived, faults>>

ExecutorStepOf(e) ==
    \/ AcquireRunLease(e) \/ Revalidate(e) \/ Prepare(e) \/ Check(e) \/ Move(e)
    \/ AppendMoved(e) \/ Verify(e) \/ AppendVerified(e) \/ AppendCompleted(e)
    \/ AppendInvalid(e) \/ AppendReview(e) \/ ExecutorRelease(e)

RecoveryStepOf(r) ==
    \/ AcquireRecoveryLease(r) \/ FreeTerminalLease(r) \/ Reread(r) \/ Inspect(r)
    \/ InspectAgain(r) \/ AppendRecovered(r) \/ RecoveryRelease(r)

Next ==
    \/ \E a \in Auth : Authorize(a) \/ AuthorizationExpires(a)
    \/ LeaseExpires
    \/ \E e \in Executor : Confirm(e) \/ ExecutorStepOf(e) \/ ExecutorCrash(e)
    \/ \E r \in Recoverer :
          \/ \E e \in Executor : StartRecovery(r, e)
          \/ RecoveryStepOf(r)
          \/ RecoveryCrash(r)
    \/ Meddle

Spec == Init /\ [][Next]_vars

(* A process that runs goes on running, an abandoned lease expires, and    *)
(* the operator calls recover() for every unfinished run again and again.  *)
(* Nobody is obliged to authorize or to execute anything.                  *)
Fairness ==
    /\ WF_vars(LeaseExpires)
    /\ \A e \in Executor : WF_vars(ExecutorStepOf(e))
    /\ \A r \in Recoverer : WF_vars(RecoveryStepOf(r))
    /\ \A r \in Recoverer, e \in Executor : SF_vars(StartRecovery(r, e))

FairSpec == Spec /\ Fairness

-----------------------------------------------------------------------------
(* ADR-0056: a run is a success only if the candidate's bytes are at its   *)
(* target, put there by its own rename.                                    *)
SuccessMeansQuarantined ==
    \A e \in Executor :
        journal[e] \in {"VERIFIED", "COMPLETED"} =>
            moved[e] /\ tgt[AuthOf[e]] \in SameBytes

(* Nothing is moved by a run that was not persisted, that failed its       *)
(* validation, or that recovery has cancelled - as long as the call does   *)
(* not outlive its lease.                                                  *)
NothingMovedWithoutARecord ==
    \A e \in Executor :
        moved[e] /\ e \notin outlived
            => journal[e] \in Incomplete \cup {"COMPLETED", "MANUAL_REVIEW"}

(* ADR-0056: an authorization is used once, although two calls may both    *)
(* confirm it when both see it unused, and although the file may be back   *)
(* at its place when the second one goes on.                               *)
AuthorizationIsUsedOnce ==
    \A e, f \in Executor : AuthOf[e] = AuthOf[f] /\ e # f =>
        /\ journal[e] = None \/ journal[f] = None
        /\ ~(moved[e] /\ moved[f])

(* A call that ended without its run persisted and its lease released: the *)
(* lease is no recovery's to take, only another execute() may replace it.  *)
RootHeldByALostCall ==
    /\ row.run # None
    /\ journal[row.run] = None
    /\ row.by = Gone \/ pc[row.by] = "done"

(* A persisted run ends: the executor ends it or a recovery does, whatever *)
(* crash interrupted either of them - unless the lease is one that no      *)
(* recovery may take.                                                      *)
EveryRunEnds ==
    \A e \in Executor :
        journal[e] \in Incomplete
            ~> journal[e] \in Terminal \/ RootHeldByALostCall

(* A run that ended does not block its root: the lease that a crash or a   *)
(* failed release left behind is given back.                               *)
EndedRunFreesTheRoot ==
    \A e \in Executor :
        (row.run = e /\ journal[e] # None) ~> row.run # e
=============================================================================
