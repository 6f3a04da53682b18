---------------------------- MODULE MetadataWrite ----------------------------
(***************************************************************************)
(* Writing a corrected title into one EPUB in place, and recovering a      *)
(* write that did not report its end: MetadataWriteOperatorService         *)
(* (workflows/metadata_write_operation.py), its executor                   *)
(* (metadata_write/executor.py), the three directory entries it works on   *)
(* (metadata_write/linux_backend.py) and the journal                       *)
(* (persistence/metadata_write.py).                                        *)
(*                                                                         *)
(* The finished output is copied to a draft beside the source, the two     *)
(* names are exchanged, the original then moves to a private directory.    *)
(* Every one of these steps is outside of any transaction; recovery finds  *)
(* out from the three entries and the journal how far they came, and goes  *)
(* back.  A write that went through is handed to a scan, which needs the   *)
(* root for itself, and is verified afterwards under a new lease.          *)
(*                                                                         *)
(* As in Quarantine the lease is reduced to its holder, what it is for and *)
(* whether it has expired.  One authorization, and so at most one run.     *)
(***************************************************************************)
EXTENDS Naturals

CONSTANTS
    Executor,     \* calls of execute() with the one authorization
    Recoverer,    \* operators that call recover() again and again
    MaxFaults,    \* bound: crashes, suspensions, failing calls and transactions,
                  \* an expired authorization, scans and changes by others
    Gone,         \* stands for a holder that takes no further step
    None

Process == Executor \cup Recoverer

Phase == {"CREATED", "PREPARED", "EXCHANGED", "ORIGINAL_PRESERVED", "VERIFIED"}
FailBeforeExchange ==
    {"STALE", "TOOL_UNAVAILABLE", "VALIDATION_FAILED", "FENCED_OUT", "CANCELLED"}
Manual == "MANUAL_RECOVERY_REQUIRED"
Status == Phase \cup FailBeforeExchange \cup {"RECOVERED", Manual}

ASSUME ConstantsAssumption ==
    /\ Executor \cap Recoverer = {}
    /\ {None, Gone} \cap (Process \cup Status) = {}
    /\ Gone # None
    /\ MaxFaults \in Nat

VARIABLES
    auth,         \* the authorization: "valid" or "expired"
    row,          \* the lease: what it is for, who holds it, expired
    status,       \* the status of the last event, None if there is no run
    journal,      \* the statuses of all events
    bound,        \* the backend binding is stored
    recon,        \* the outcome of the stored reconciliation, None if none
    source,       \* what is at the book's path
    draft,        \* what is at the draft's name beside it
    recovery,     \* what is at the original's name in the private directory
    index,        \* what the file record says is at the book's path
    scanned,      \* what scans begun after the last event have seen there
    pc,           \* the next step of every process
    code,         \* code[e]: the error e is handling, None if none
    readBack,     \* history: the post-write verification has succeeded
    strayed,      \* history: a file step of a process that had lost its lease
    meddled,      \* history: somebody else has changed the book
    faults

files == <<source, draft, recovery, strayed, meddled>>
store == <<status, journal, bound, recon, scanned>>
vars == <<auth, row, store, files, index, pc, code, readBack, faults>>

Content == {"ORIGINAL", "OUTPUT", "OTHER", "MISSING"}

(* "new": the lease was taken for a run id that is not persisted.          *)
Free == [for |-> None, by |-> None, expired |-> FALSE]
Lease == {Free} \cup
         [for : {"new", "run"}, by : Process \cup {Gone}, expired : BOOLEAN]
HeldBy(p, for) == [for |-> for, by |-> p, expired |-> FALSE]

Settling == {"settle", "sync exchanged", "sync preserved", "restore gate",
             "unpreserve", "swap back", "restored", "manual"}
Handing == {"release", "hand off", "scan", "lock", "confirm"}
ExecutorStep == Settling \cup Handing \cup
    {"idle", "lease", "new lease", "create", "dispatch", "bind", "stage", "draft gate", "draft",
     "copy", "prepare", "exchange gate", "exchange", "exchanged", "preserve gate",
     "preserve", "read back", "preserved", "failed", "done"}
RecoveryStep == Settling \cup Handing \cup {"idle", "lease", "recover"}

TypeOK ==
    /\ auth \in {"valid", "expired"}
    /\ row \in Lease
    /\ status \in Status \cup {None}
    /\ journal \subseteq Status
    /\ (status = None) = (journal = {}) /\ status \in journal \cup {None}
    /\ bound \in BOOLEAN
    /\ recon \in {"VERIFIED", "RECOVERED", None}
    /\ recon # None => recon = status
    /\ source \in Content /\ draft \in Content /\ recovery \in Content
    /\ index \in Content
    /\ scanned \subseteq Content
    /\ pc \in [Process -> ExecutorStep \cup RecoveryStep]
    /\ \A e \in Executor : pc[e] \in ExecutorStep
    /\ \A r \in Recoverer : pc[r] \in RecoveryStep
    /\ code \in [Process -> FailBeforeExchange \cup {Manual, None}]
    /\ readBack \in BOOLEAN /\ strayed \in BOOLEAN /\ meddled \in BOOLEAN
    /\ faults \in 0..MaxFaults

(* authorize() has verified a complete stage of the book the index knows.  *)
Init ==
    /\ auth = "valid"
    /\ row = Free
    /\ status = None /\ journal = {} /\ bound = FALSE /\ recon = None
    /\ source = "ORIGINAL" /\ draft = "MISSING" /\ recovery = "MISSING"
    /\ index = "ORIGINAL"
    /\ scanned = {}
    /\ pc = [p \in Process |-> "idle"]
    /\ code = [p \in Process |-> None]
    /\ readBack = FALSE /\ strayed = FALSE /\ meddled = FALSE
    /\ faults = 0

Goto(p, step) == pc' = [pc EXCEPT ![p] = step]

Fault == faults < MaxFaults /\ faults' = faults + 1

(* LinuxMetadataWriteSession.classify                                      *)
Classify ==
    CASE <<source, draft, recovery>> = <<"ORIGINAL", "MISSING", "MISSING">> -> "original"
      [] <<source, draft, recovery>> = <<"ORIGINAL", "OUTPUT", "MISSING">>  -> "drafted"
      [] <<source, draft, recovery>> = <<"OUTPUT", "ORIGINAL", "MISSING">>  -> "exchanged"
      [] <<source, draft, recovery>> = <<"OUTPUT", "MISSING", "ORIGINAL">>  -> "preserved"
      [] OTHER -> "ambiguous"

-----------------------------------------------------------------------------
(* The lease, the fence and the journal.                                   *)

Fence(p) == row.by = p /\ row.for = "run" /\ ~row.expired

AcquireFree(p, next, otherwise) ==
    /\ IF row = Free
       THEN row' = HeldBy(p, "run") /\ Goto(p, next)
       ELSE UNCHANGED row /\ Goto(p, otherwise)
    /\ UNCHANGED <<auth, store, files, index, code, readBack, faults>>

(* _acquire_run_lease: a free root, or the expired lease of the caller's   *)
(* own run.                                                                *)
Acquire(p, next, otherwise) ==
    /\ IF row = Free \/ (row.for = "run" /\ row.expired)
       THEN row' = HeldBy(p, "run") /\ Goto(p, next)
       ELSE UNCHANGED row /\ Goto(p, otherwise)
    /\ UNCHANGED <<auth, store, files, index, code, readBack, faults>>

Abandoned(p) == IF row.by = p THEN [row EXCEPT !.by = Gone] ELSE row

(* _release_lease swallows every error: the lease may stay behind.         *)
ReleaseTo(p, next) ==
    /\ \/ /\ row' = IF row.by = p /\ ~row.expired THEN Free ELSE Abandoned(p)
          /\ UNCHANGED faults
       \/ /\ row.by = p
          /\ Fault
          /\ row' = Abandoned(p)
    /\ Goto(p, next)
    /\ code' = [code EXCEPT ![p] = None]
    /\ UNCHANGED <<auth, store, files, index, readBack>>

(* _NEXT and _transition_allowed                                           *)
Follows(next) ==
    CASE next = "PREPARED" -> status = "CREATED"
      [] next = "EXCHANGED" -> status = "PREPARED"
      [] next = "ORIGINAL_PRESERVED" -> status = "EXCHANGED"
      [] next = "VERIFIED" -> status = "ORIGINAL_PRESERVED"
      [] next \in {"STALE", "TOOL_UNAVAILABLE", "CANCELLED"} ->
            status \in {"CREATED", "PREPARED"}
      [] next \in {"VALIDATION_FAILED", "FENCED_OUT"} ->
            status \in {"CREATED", "PREPARED", "EXCHANGED", "ORIGINAL_PRESERVED"}
      [] next = "RECOVERED" ->
            \/ status \in {"EXCHANGED", "ORIGINAL_PRESERVED", Manual}
            \/ status \in {"VALIDATION_FAILED", "FENCED_OUT"} /\ "EXCHANGED" \in journal
      [] next = Manual ->
            \/ status \in {"CREATED", "PREPARED", "EXCHANGED", "ORIGINAL_PRESERVED"}
            \/ status \in {"VALIDATION_FAILED", "FENCED_OUT"} /\ "EXCHANGED" \in journal
      [] OTHER -> FALSE

(* append_event in a transaction that begins with the fence.  Scans that   *)
(* began before the event are no evidence for what comes after it.         *)
Append(p, next) ==
    /\ Fence(p)
    /\ Follows(next)
    /\ status' = next
    /\ journal' = journal \cup {next}
    /\ scanned' = {}
    /\ UNCHANGED <<bound, recon>>

Cannot(p, next) == ~(Fence(p) /\ Follows(next)) /\ UNCHANGED store

(* A refused transaction is FENCED_OUT; one that fails for another reason  *)
(* is VALIDATION_FAILED.                                                   *)
Fail(e, c) == Goto(e, "failed") /\ code' = [code EXCEPT ![e] = c]

AppendOrFail(e, s, next) ==
    /\ \/ Append(e, s) /\ Goto(e, next) /\ UNCHANGED <<code, faults>>
       \/ Cannot(e, s) /\ Fail(e, "FENCED_OUT") /\ UNCHANGED faults
       \/ Fault /\ Fail(e, "VALIDATION_FAILED") /\ UNCHANGED store
    /\ UNCHANGED <<auth, row, files, index>>

-----------------------------------------------------------------------------
(* execute()                                                               *)

(* A stored reconciliation is the answer.                                  *)
StartExecute(e) ==
    /\ pc[e] = "idle"
    /\ Goto(e, IF recon # None THEN "done"
               ELSE IF status # None THEN "lease" ELSE "new lease")
    /\ UNCHANGED <<auth, row, store, files, index, code, readBack, faults>>

AcquireRunLease(e) == pc[e] = "lease" /\ Acquire(e, "dispatch", "done")

(* A call that finds no run draws the id of a new one: with it there is no *)
(* expired lease to take over, and nobody takes over from it.              *)
AcquireNewLease(e) ==
    /\ pc[e] = "new lease"
    /\ IF row = Free
       THEN row' = HeldBy(e, "new") /\ Goto(e, "create")
       ELSE UNCHANGED row /\ Goto(e, "done")
    /\ UNCHANGED <<auth, store, files, index, code, readBack, faults>>

CreateRunAgain(e) ==
    /\ pc[e] = "create"
    /\ IF row.by = e /\ ~row.expired /\ auth = "valid"
       THEN /\ status' = "CREATED" /\ journal' = {"CREATED"}
            /\ row' = [row EXCEPT !.for = "run"]
            /\ Goto(e, "dispatch")
       ELSE Goto(e, "release") /\ UNCHANGED <<row, status, journal>>
    /\ UNCHANGED <<auth, bound, recon, scanned, files, index, code, readBack, faults>>

(* create_run: consumes the authorization.                                 *)
CreateRun(e) ==
    /\ pc[e] = "create"
    /\ IF row.by = e /\ ~row.expired /\ status = None /\ auth = "valid"
       THEN /\ status' = "CREATED" /\ journal' = {"CREATED"}
            /\ row' = [row EXCEPT !.for = "run"]
            /\ Goto(e, "dispatch")
       ELSE Goto(e, "release") /\ UNCHANGED <<row, status, journal>>
    /\ UNCHANGED <<auth, bound, recon, scanned, files, index, code, readBack, faults>>

(* A run that came further than CREATED is not executed again: one that    *)
(* preserved the original is verified, any other is left to recover().     *)
Dispatch(e) ==
    /\ pc[e] = "dispatch"
    /\ Goto(e, CASE ~Fence(e) -> "release"
                 [] Fence(e) /\ status = "CREATED" -> "bind"
                 [] Fence(e) /\ status = "ORIGINAL_PRESERVED" -> "hand off"
                 [] OTHER -> "release")
    /\ UNCHANGED <<auth, row, store, files, index, code, readBack, faults>>

(* _require_live_execution_source, with the two minutes the lease must     *)
(* have left.                                                              *)
LiveGate(e, s) ==
    /\ Fence(e)
    /\ auth = "valid"
    /\ status = s
    /\ bound
    /\ index = "ORIGINAL"

BindBackend(e) ==
    /\ pc[e] = "bind"
    /\ IF Fence(e) /\ auth = "valid" /\ status = "CREATED"
       THEN bound' = TRUE /\ Goto(e, "stage") /\ UNCHANGED code
       ELSE Fail(e, "FENCED_OUT") /\ UNCHANGED bound
    /\ UNCHANGED <<auth, row, status, journal, recon, scanned, files, index,
                   readBack, faults>>

(* The output is built and validated in a private directory.               *)
Stage(e) ==
    /\ pc[e] = "stage"
    /\ \/ source = "ORIGINAL" /\ Goto(e, "draft gate") /\ UNCHANGED <<code, faults>>
       \/ source # "ORIGINAL" /\ Fail(e, "STALE") /\ UNCHANGED faults
       \/ /\ Fault
          /\ \E c \in {"TOOL_UNAVAILABLE", "VALIDATION_FAILED"} : Fail(e, c)
    /\ UNCHANGED <<auth, row, store, files, index, readBack>>

(* A gate and the classification after it are one step: what changes       *)
(* between the two is seen by the classification and prevents the step.    *)
DraftGate(e) ==
    /\ pc[e] = "draft gate"
    /\ IF ~LiveGate(e, "CREATED") THEN Fail(e, "FENCED_OUT")
       ELSE IF Classify = "drafted" THEN Goto(e, "prepare") /\ UNCHANGED code
       ELSE IF Classify = "original" THEN Goto(e, "draft") /\ UNCHANGED code
       ELSE Fail(e, Manual)
    /\ UNCHANGED <<auth, row, store, files, index, readBack, faults>>

Stray(p) == strayed' = (strayed \/ ~Fence(p))

(* prepare_output creates the draft exclusively, then fills it.            *)
CreateDraft(e) ==
    /\ pc[e] = "draft"
    /\ IF draft = "MISSING"
       THEN draft' = "OTHER" /\ Stray(e) /\ Goto(e, "copy") /\ UNCHANGED code
       ELSE Fail(e, "VALIDATION_FAILED") /\ UNCHANGED <<draft, strayed>>
    /\ UNCHANGED <<auth, row, store, source, recovery, meddled, index, readBack,
                   faults>>

(* The descriptor is written, whatever name it has by now: only a stray    *)
(* step could have moved it.                                               *)
CopyOutput(e) ==
    /\ pc[e] = "copy"
    /\ \/ /\ draft' = IF draft = "OTHER" THEN "OUTPUT" ELSE draft
          /\ UNCHANGED faults
          /\ IF source = "ORIGINAL" /\ draft = "OTHER" /\ recovery = "MISSING"
             THEN Goto(e, "prepare") /\ UNCHANGED code
             ELSE Fail(e, "VALIDATION_FAILED")
       \/ Fault /\ Fail(e, "VALIDATION_FAILED") /\ UNCHANGED draft
    /\ Stray(e)
    /\ UNCHANGED <<auth, row, store, source, recovery, meddled, index, readBack>>

Prepare(e) ==
    /\ pc[e] = "prepare"
    /\ IF LiveGate(e, "CREATED") /\ Classify = "drafted"
       THEN AppendOrFail(e, "PREPARED", "exchange gate")
       ELSE /\ Fail(e, IF LiveGate(e, "CREATED") THEN "STALE" ELSE "FENCED_OUT")
            /\ UNCHANGED <<auth, row, store, files, index, faults>>
    /\ UNCHANGED readBack

ExchangeGate(e) ==
    /\ pc[e] = "exchange gate"
    /\ IF ~LiveGate(e, "PREPARED") THEN Fail(e, "FENCED_OUT")
       ELSE IF Classify # "drafted" THEN Fail(e, "STALE")
       ELSE Goto(e, "exchange") /\ UNCHANGED code
    /\ UNCHANGED <<auth, row, store, files, index, readBack, faults>>

(* renameat2(RENAME_EXCHANGE) swaps the two names, whatever they hold.     *)
Swappable == "MISSING" \notin {source, draft}

SwapReplacing(p) ==
    source' = draft /\ draft' = "MISSING" /\ Stray(p) /\ UNCHANGED <<recovery, meddled>>

Swap(p) ==
    source' = draft /\ draft' = source /\ Stray(p) /\ UNCHANGED <<recovery, meddled>>

(* Any system call may fail, also the fsync after the swap.                *)
Exchange(e) ==
    /\ pc[e] = "exchange"
    /\ \/ /\ Swappable /\ Swap(e)
          /\ \/ Goto(e, "exchanged") /\ UNCHANGED <<code, faults>>
             \/ Fault /\ Fail(e, "VALIDATION_FAILED")
       \/ /\ (~Swappable /\ UNCHANGED faults) \/ Fault
          /\ Fail(e, "VALIDATION_FAILED") /\ UNCHANGED files
    /\ UNCHANGED <<auth, row, store, index, readBack>>

JournalExchanged(e) ==
    /\ pc[e] = "exchanged"
    /\ IF Classify = "exchanged"
       THEN AppendOrFail(e, "EXCHANGED", "preserve gate")
       ELSE /\ Fail(e, Manual)
            /\ UNCHANGED <<auth, row, store, files, index, faults>>
    /\ UNCHANGED readBack

(* require_recovery_source: valid after the authorization has expired and  *)
(* after the file record has moved on.                                     *)
RecoveryGate(p) ==
    /\ Fence(p)
    /\ bound
    /\ status \notin {"VERIFIED", "STALE", "TOOL_UNAVAILABLE", "CANCELLED"}

PreserveGate(e) ==
    /\ pc[e] = "preserve gate"
    /\ IF ~RecoveryGate(e) THEN Fail(e, "FENCED_OUT")
       ELSE IF Classify # "exchanged" THEN Fail(e, Manual)
       ELSE Goto(e, "preserve") /\ UNCHANGED code
    /\ UNCHANGED <<auth, row, store, files, index, readBack, faults>>

(* The original moves to its recovery name, which must be free.            *)
PreserveOriginal(e) ==
    /\ pc[e] = "preserve"
    /\ \/ /\ draft # "MISSING" /\ recovery = "MISSING"
          /\ recovery' = draft /\ draft' = "MISSING" /\ Stray(e)
          /\ \/ Goto(e, "read back") /\ UNCHANGED <<code, faults>>
             \/ Fault /\ Fail(e, "VALIDATION_FAILED")
          /\ UNCHANGED <<source, meddled>>
       \/ /\ ((draft = "MISSING" \/ recovery # "MISSING") /\ UNCHANGED faults) \/ Fault
          /\ Fail(e, "VALIDATION_FAILED") /\ UNCHANGED files
    /\ UNCHANGED <<auth, row, store, index, readBack>>

(* verify_postwrite_epub3_title_source: the book itself is read and        *)
(* validated again; only then ORIGINAL_PRESERVED is journalled.            *)
ReadBack(e) ==
    /\ pc[e] = "read back"
    /\ \/ /\ Classify = "preserved"
          /\ readBack' = TRUE
          /\ Goto(e, "preserved")
          /\ UNCHANGED <<code, faults>>
       \/ /\ Classify # "preserved" /\ Fail(e, Manual) /\ UNCHANGED <<readBack, faults>>
       \/ Fault /\ Fail(e, "VALIDATION_FAILED") /\ UNCHANGED readBack
    /\ UNCHANGED <<auth, row, store, files, index>>

JournalPreserved(e) ==
    /\ pc[e] = "preserved"
    /\ AppendOrFail(e, "ORIGINAL_PRESERVED", "hand off")
    /\ UNCHANGED readBack

(* The handler of execute_epub3_title_metadata_write.  Once PREPARED is    *)
(* recorded the exchange may have happened: the files decide.              *)
Over == FailBeforeExchange \cup {"RECOVERED", Manual, "VERIFIED"}

HandleFailure(e) ==
    /\ pc[e] = "failed"
    /\ \/ /\ "PREPARED" \in journal
          /\ Goto(e, "settle")
          /\ code' = [code EXCEPT ![e] = IF @ = "FENCED_OUT" THEN @ ELSE "VALIDATION_FAILED"]
          /\ UNCHANGED <<store, faults>>
       \/ /\ "PREPARED" \notin journal /\ status \notin Over
          /\ (Append(e, code[e]) \/ Cannot(e, code[e]))
          /\ Goto(e, "release") /\ UNCHANGED <<code, faults>>
       \/ /\ "PREPARED" \notin journal
          /\ (status \in Over /\ UNCHANGED faults) \/ Fault
          /\ Goto(e, "release") /\ UNCHANGED <<store, code>>
    /\ UNCHANGED <<auth, row, files, index, readBack>>

-----------------------------------------------------------------------------
(* recover()                                                               *)

StartRecover(r) ==
    /\ pc[r] = "idle"
    /\ status # None
    /\ recon = None
    /\ Goto(r, "lease")
    /\ UNCHANGED <<auth, row, store, files, index, code, readBack, faults>>

AcquireRecoveryLease(r) == pc[r] = "lease" /\ Acquire(r, "recover", "idle")

(* recover_epub3_title_metadata_write: a run that ended stays as it is; a  *)
(* restored one is handed to the scan.                                     *)
ClosedOrRestored ==
    \/ status \in {"VERIFIED", "CANCELLED", "STALE", "TOOL_UNAVAILABLE", "RECOVERED"}
    \/ status \in {"VALIDATION_FAILED", "FENCED_OUT"} /\ "EXCHANGED" \notin journal

Closed ==
    \/ status \in {"VERIFIED", "CANCELLED", "STALE", "TOOL_UNAVAILABLE"}
    \/ status \in {"VALIDATION_FAILED", "FENCED_OUT"} /\ "EXCHANGED" \notin journal

RecoverRun(r) ==
    /\ pc[r] = "recover"
    /\ \/ Closed /\ Goto(r, "release") /\ UNCHANGED store
       \/ status = "RECOVERED" /\ Goto(r, "hand off") /\ UNCHANGED store
       \/ /\ ~Closed /\ status # "RECOVERED" /\ ~bound
          /\ IF status = "CREATED"
             THEN (Append(r, "CANCELLED") \/ Cannot(r, "CANCELLED")) /\ Goto(r, "release")
             ELSE Goto(r, "manual") /\ UNCHANGED store
       \/ /\ ~Closed /\ status # "RECOVERED" /\ bound
          /\ Goto(r, "settle") /\ UNCHANGED store
    /\ UNCHANGED <<auth, row, files, index, code, readBack, faults>>

-----------------------------------------------------------------------------
(* _recover_session, in recover() and in the failure handler of execute(). *)

Turn(p, next) ==
    /\ Goto(p, next)
    /\ UNCHANGED <<auth, row, store, files, index, code, faults>>

(* A refusal ends the call, any other error asks for the operator.         *)
AppendOrGiveUp(p, s, next) ==
    /\ \/ Append(p, s) /\ Goto(p, next) /\ UNCHANGED faults
       \/ Cannot(p, s) /\ Goto(p, "release") /\ UNCHANGED faults
       \/ Fault /\ Goto(p, "manual") /\ UNCHANGED store
    /\ UNCHANGED <<auth, row, files, index, code>>

FailureStatus(p) == IF code[p] = None THEN "CANCELLED" ELSE code[p]

(* The event that closes the run when the original is at its place, Manual *)
(* when the files or the journal do not fit.                               *)
Verdict(p) ==
    CASE Classify = "original" /\ status = "CREATED" -> "CANCELLED"
      [] Classify = "drafted" /\ ("EXCHANGED" \in journal \/ status = Manual) -> "RECOVERED"
      [] Classify = "drafted" /\ "EXCHANGED" \notin journal
            /\ status \in {"CREATED", "PREPARED"} -> FailureStatus(p)
      [] OTHER -> Manual

Settle(p) ==
    /\ pc[p] = "settle"
    /\ \/ ~RecoveryGate(p) /\ Turn(p, "release")
       \/ RecoveryGate(p) /\ Classify = "exchanged" /\ Turn(p, "sync exchanged")
       \/ RecoveryGate(p) /\ Classify = "preserved" /\ Turn(p, "sync preserved")
       \/ /\ RecoveryGate(p) /\ Classify \notin {"exchanged", "preserved"}
          /\ IF Verdict(p) = Manual THEN Turn(p, "manual")
             ELSE AppendOrGiveUp(p, Verdict(p), IF Verdict(p) = "RECOVERED" /\ p \in Recoverer
                                                THEN "hand off" ELSE "release")
       \/ /\ Fault
          /\ Goto(p, "manual")
          /\ UNCHANGED <<auth, row, store, files, index, code>>
    /\ UNCHANGED readBack

(* _synchronize_exchange_events: the events the files prove are added one  *)
(* by one, then the failure that execute() met.                            *)
Synchronize(p, found) ==
    /\ pc[p] = found
    /\ CASE status = "PREPARED" -> AppendOrGiveUp(p, "EXCHANGED", found)
         [] status = "EXCHANGED" /\ found = "sync preserved" ->
               AppendOrGiveUp(p, "ORIGINAL_PRESERVED", found)
         [] /\ code[p] # None
            /\ \/ status = "EXCHANGED" /\ found = "sync exchanged"
               \/ status = "ORIGINAL_PRESERVED" ->
               AppendOrGiveUp(p, FailureStatus(p), "restore gate")
         [] OTHER ->
               Turn(p, IF status \in {"EXCHANGED", "ORIGINAL_PRESERVED", Manual,
                                      "VALIDATION_FAILED", "FENCED_OUT"}
                       THEN "restore gate" ELSE "manual")
    /\ UNCHANGED readBack

(* restore_original undoes the steps that were made, in reverse order.     *)
RestoreGate(p) ==
    /\ pc[p] = "restore gate"
    /\ Goto(p, CASE ~RecoveryGate(p) -> "release"
                 [] RecoveryGate(p) /\ Classify = "preserved" -> "unpreserve"
                 [] RecoveryGate(p) /\ Classify = "exchanged" -> "swap back"
                 [] OTHER -> "restored")
    /\ UNCHANGED <<auth, row, store, files, index, code, readBack, faults>>

Unpreserve(p) ==
    /\ pc[p] = "unpreserve"
    /\ \/ /\ recovery # "MISSING" /\ draft = "MISSING"
          /\ draft' = recovery /\ recovery' = "MISSING" /\ Stray(p)
          /\ \/ /\ Goto(p, IF source = "OUTPUT" /\ recovery = "ORIGINAL"
                           THEN "swap back" ELSE "restored")
                /\ UNCHANGED faults
             \/ Fault /\ Goto(p, "restored")
          /\ UNCHANGED <<source, meddled>>
       \/ /\ ((recovery = "MISSING" \/ draft # "MISSING") /\ UNCHANGED faults) \/ Fault
          /\ Goto(p, "restored") /\ UNCHANGED files
    /\ UNCHANGED <<auth, row, store, index, code, readBack>>

SwapBack(p) ==
    /\ pc[p] = "swap back"
    /\ \/ Swappable /\ Swap(p) /\ UNCHANGED faults
       \/ /\ (~Swappable /\ UNCHANGED faults) \/ Fault
          /\ UNCHANGED files
    /\ Goto(p, "restored")
    /\ UNCHANGED <<auth, row, store, index, code, readBack>>

JournalRecoveredUnseen(p) ==
    /\ pc[p] = "restored"
    /\ AppendOrGiveUp(p, "RECOVERED", IF p \in Recoverer THEN "hand off" ELSE "release")
    /\ UNCHANGED readBack

(* What restore_original returned or raised does not matter: the files do. *)
JournalRecovered(p) ==
    /\ pc[p] = "restored"
    /\ IF Classify = "drafted"
       THEN AppendOrGiveUp(p, "RECOVERED", IF p \in Recoverer THEN "hand off" ELSE "release")
       ELSE Turn(p, "manual")
    /\ UNCHANGED readBack

(* _append_manual_if_possible                                              *)
JournalManual(p) ==
    /\ pc[p] = "manual"
    /\ \/ Append(p, Manual) /\ UNCHANGED faults
       \/ Cannot(p, Manual) /\ UNCHANGED faults
       \/ Fault /\ UNCHANGED store
    /\ Goto(p, "release")
    /\ UNCHANGED <<auth, row, files, index, code, readBack>>

-----------------------------------------------------------------------------
(* The end of both: release, or hand the root to a scan and reconcile.     *)

Rest(p) == IF p \in Recoverer THEN "idle" ELSE "done"
Outcome(p) == IF p \in Recoverer THEN "RECOVERED" ELSE "VERIFIED"
ExpectedStatus(p) == IF p \in Recoverer THEN "RECOVERED" ELSE "ORIGINAL_PRESERVED"
ExpectedContent(p) == IF p \in Recoverer THEN "ORIGINAL" ELSE "OUTPUT"
ExpectedPhysical(p) == IF p \in Recoverer THEN "drafted" ELSE "preserved"

Release(p) == pc[p] = "release" /\ ReleaseTo(p, Rest(p))
HandOff(p) == pc[p] = "hand off" /\ ReleaseTo(p, "scan")

(* A scan has the root for itself, from its start to its end.              *)
Observe ==
    /\ row = Free
    /\ index' = source
    /\ scanned' = scanned \cup ({source} \cap {"ORIGINAL", "OUTPUT"})

(* While nobody holds the root, anybody may start one.                     *)
ForeignScan ==
    /\ Fault
    /\ Observe
    /\ UNCHANGED <<auth, row, status, journal, bound, recon, files, pc, code, readBack>>

(* SQLiteMetadataWriteReconciler.reconcile: a scan that already shows the  *)
(* expected content serves; otherwise a new one must.                      *)
Reconcile(p) ==
    /\ pc[p] = "scan"
    /\ \/ /\ ExpectedContent(p) \in scanned
          /\ Goto(p, "lock")
          /\ UNCHANGED <<index, scanned>>
       \/ /\ ExpectedContent(p) \notin scanned
          /\ Observe
          /\ Goto(p, IF source = ExpectedContent(p) THEN "lock" ELSE Rest(p))
       \/ /\ ExpectedContent(p) \notin scanned
          /\ row # Free
          /\ Goto(p, Rest(p))
          /\ UNCHANGED <<index, scanned>>
    /\ UNCHANGED <<auth, row, status, journal, bound, recon, files, code, readBack, faults>>

ReacquireLease(p) == pc[p] = "lock" /\ Acquire(p, "confirm", Rest(p))

(* verify_..._physical_state and record_reconciliation: the files are      *)
(* classified once more, and outcome and VERIFIED are stored together.     *)
Confirm(p) ==
    /\ pc[p] = "confirm"
    /\ IF /\ RecoveryGate(p)
          /\ status = ExpectedStatus(p)
          /\ Classify = ExpectedPhysical(p)
          /\ recon = None
          /\ index = ExpectedContent(p) /\ index \in scanned
       THEN /\ recon' = Outcome(p)
            /\ status' = Outcome(p)
            /\ journal' = journal \cup {Outcome(p)}
       ELSE UNCHANGED <<recon, status, journal>>
    /\ Goto(p, "release")
    /\ UNCHANGED <<auth, row, bound, scanned, files, index, code, readBack, faults>>

-----------------------------------------------------------------------------
Working(p) == pc[p] \notin {"idle", "done"}

AuthorizationExpires ==
    /\ auth = "valid"
    /\ Fault
    /\ auth' = "expired"
    /\ UNCHANGED <<row, store, files, index, pc, code, readBack>>

(* Nobody renews a lease.  A call outlives it only if it is suspended;     *)
(* that counts as a fault.                                                 *)
LeaseExpires ==
    /\ row.by # None /\ ~row.expired
    /\ IF row.by = Gone THEN UNCHANGED faults ELSE Fault
    /\ row' = [row EXCEPT !.expired = TRUE]
    /\ UNCHANGED <<auth, store, files, index, pc, code, readBack>>

Crash(p) ==
    /\ Working(p)
    /\ Fault
    /\ row' = Abandoned(p)
    /\ Goto(p, Rest(p))
    /\ code' = [code EXCEPT ![p] = None]
    /\ UNCHANGED <<auth, store, files, index, readBack>>

(* Somebody else replaces or removes the book.                             *)
Meddle ==
    /\ Fault
    /\ meddled' = TRUE
    /\ source' \in {"OTHER", "MISSING"} \ {source}
    /\ UNCHANGED <<auth, row, store, draft, recovery, strayed, index, pc, code, readBack>>

SettleStep(p) ==
    \/ Settle(p) \/ Synchronize(p, "sync exchanged") \/ Synchronize(p, "sync preserved")
    \/ RestoreGate(p) \/ Unpreserve(p) \/ SwapBack(p)
    \/ JournalRecovered(p) \/ JournalManual(p) \/ Release(p) \/ HandOff(p)
    \/ Reconcile(p) \/ ReacquireLease(p) \/ Confirm(p)

ExecuteStep(e) ==
    \/ AcquireRunLease(e) \/ AcquireNewLease(e) \/ CreateRun(e) \/ Dispatch(e)
    \/ BindBackend(e) \/ Stage(e) \/ DraftGate(e) \/ CreateDraft(e) \/ CopyOutput(e) \/ Prepare(e) \/ ExchangeGate(e)
    \/ Exchange(e) \/ JournalExchanged(e) \/ PreserveGate(e) \/ PreserveOriginal(e)
    \/ ReadBack(e) \/ JournalPreserved(e) \/ HandleFailure(e) \/ SettleStep(e)

RecoverStep(r) == AcquireRecoveryLease(r) \/ RecoverRun(r) \/ SettleStep(r)

Next ==
    \/ \E e \in Executor : StartExecute(e) \/ ExecuteStep(e)
    \/ \E r \in Recoverer : StartRecover(r) \/ RecoverStep(r)
    \/ \E p \in Process : Crash(p)
    \/ AuthorizationExpires \/ LeaseExpires \/ ForeignScan \/ Meddle

Spec == Init /\ [][Next]_vars

(* Running calls go on, abandoned leases expire, and the operator calls    *)
(* recover() again as long as there is no verdict.                         *)
Fairness ==
    /\ WF_vars(LeaseExpires)
    /\ \A e \in Executor : WF_vars(ExecuteStep(e))
    /\ \A r \in Recoverer : WF_vars(RecoverStep(r)) /\ SF_vars(StartRecover(r))

FairSpec == Spec /\ Fairness
-----------------------------------------------------------------------------
(* ADR-0063: the journal never says anything the three entries contradict, *)
(* and the book is only ever replaced after PREPARED - unless a process    *)
(* that lost its lease between its last check and a file step has made     *)
(* that step, or somebody else has touched the book.                       *)
VerdictMatchesTheFiles ==
    ~strayed /\ ~meddled =>
        /\ status = "VERIFIED" => Classify = "preserved"
        /\ status = "RECOVERED" => Classify = "drafted"
        /\ status \in FailBeforeExchange /\ "EXCHANGED" \notin journal
              => source = "ORIGINAL"
        /\ source = "OUTPUT" => "PREPARED" \in journal

(* ADR-0063: whatever is interrupted, repeated or done by a process that   *)
(* has lost its lease, the original bytes stay under one of the three      *)
(* names.                                                                  *)
OriginalSurvives == ~meddled => "ORIGINAL" \in {source, draft, recovery}

(* ADR-0063: only a write that passed the post-write verification becomes  *)
(* VERIFIED.                                                               *)
VerifiedWasReadBack == status = "VERIFIED" => readBack

(* A call that drew a run id, took the lease for it and ended before the   *)
(* run was stored: nobody knows the id and nobody can take the lease over. *)
RootHeldByALostCall == row.for = "new" /\ (row.by = Gone \/ ~Working(row.by))

(* A run reaches a status that asks for nothing more or for the operator,  *)
(* wherever execute() and any recover() stopped.                           *)
EveryRunEnds ==
    status # None
        ~> Closed \/ status \in {"RECOVERED", Manual} \/ RootHeldByALostCall

(* ADR-0064: the scan and the record of a restored book can be repeated    *)
(* until they succeed: the index is not left with the output.              *)
RestoredIsIndexed ==
    status = "RECOVERED"
        ~> \/ recon = "RECOVERED" /\ index = "ORIGINAL"
           \/ strayed \/ meddled \/ RootHeldByALostCall
=============================================================================
