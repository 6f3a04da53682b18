----------------------------- MODULE EbookRename -----------------------------
(***************************************************************************)
(* One authorized rename of one e-book from its source to its target name  *)
(* (ADR-0066): the operator's execute and recover calls                    *)
(* (workflows/ebook_rename_operation.py), the executor with its recovery   *)
(* matrix (ebook_rename/executor.py, linux_backend.py), the append-only    *)
(* journal and its reconciliation (persistence/ebook_rename.py), and the   *)
(* scans of the root that the reconciliation depends on (index/).          *)
(*                                                                         *)
(* Processes call the operator concurrently.  Between any two transactions *)
(* a process may die, be overtaken by a process that took over its expired *)
(* lease, or find that somebody else changed the two directory entries.    *)
(* The lease row is reduced to what the rename can tell apart (its owner,  *)
(* the process whose proof it confirms, and whether it has expired); the   *)
(* row itself is module ScanRootLease.  A check and the one transaction    *)
(* that follows it are one action: only the environment can move between   *)
(* them, and then it might as well have moved just after.  A rename system *)
(* call is an action of its own, apart from the check before it.           *)
(***************************************************************************)
EXTENDS Integers, Sequences

CONSTANTS
    Proc,          \* processes that call the operator
    Cli,           \* the scan command of another user
    None,
    Faults,        \* the kinds of fault that occur: "crash" kills a process,
                   \* "slow" lets its lease expire first, "scan" fails a scan,
                   \* "db" is a failing transaction, "io" a failing rename,
                   \* "hash" an unreadable file
    MaxFaults,     \* bound: faults
    MaxMeddles,    \* bound: foreign changes of the two directory entries
    MaxForeign,    \* bound: scans started by Cli
    ForeignModes,  \* the modes of such scans
    Punctual       \* nobody is suspended between the last check of the lease
                   \* and the rename for longer than the mutation window

(* With full hashes, with quick ones only (--hash), or of files with other *)
(* suffixes only (--suffix).                                               *)
ScanModes == {"full", "quick", "narrow"}

ASSUME RenameAssumption ==
    /\ Cli \notin Proc /\ None \notin Proc \cup {Cli, "attempt", "run", "scan"}
    /\ MaxFaults \in Nat /\ MaxMeddles \in Nat /\ MaxForeign \in Nat
    /\ Punctual \in BOOLEAN /\ ForeignModes \subseteq ScanModes

VARIABLES
    place,         \* what each of the two names denotes
    rec,           \* the FileRecord of each name; skipped is history: the
                   \* scan that last found it missing did not look for it
    planned,       \* the plan is current: its scan is the latest completed one
    authorized,    \* the authorization has not expired
    lease,         \* the write lease of the root
    events,        \* the journal of the run; empty while there is no run
    job,           \* the call each process is executing
    scan,          \* the running scan
    scans,         \* what the completed scans started after SCAN_HANDOFF saw
    forwards,      \* system calls that moved source to target
    faults, meddles, foreign    \* counters of the three bounds

env == <<planned, authorized, faults, meddles, foreign>>
vars == <<place, rec, lease, events, job, scan, scans, forwards, env>>

Name == {"source", "target"}
Content == {"book", "other", "absent"}
Presence == {"none", "PRESENT", "MISSING"}
FileRecord == [presence : Presence, what : Content, skipped : BOOLEAN]
Change == {"none", "NEW", "UNCHANGED", "MODIFIED", "REAPPEARED", "MISSING"}

Status == {"PREPARED", "RELOCATED", "IMMEDIATE_VERIFIED", "RECOVERY_RELOCATED",
           "RECOVERY_VERIFIED", "SCAN_HANDOFF", "VERIFIED", "CANCELLED",
           "RECOVERED", "MANUAL"}
Terminal == {"VERIFIED", "CANCELLED", "RECOVERED", "MANUAL"}

(* _TRANSITIONS; MANUAL stands for MANUAL_RECOVERY_REQUIRED.               *)
Transitions == [s \in Status |->
    CASE s = "PREPARED" -> {"RELOCATED", "RECOVERY_RELOCATED", "CANCELLED", "MANUAL"}
      [] s = "RELOCATED" -> {"IMMEDIATE_VERIFIED", "RECOVERY_RELOCATED",
                             "RECOVERY_VERIFIED", "MANUAL"}
      [] s \in {"IMMEDIATE_VERIFIED", "RECOVERY_VERIFIED"} -> {"SCAN_HANDOFF", "MANUAL"}
      [] s = "RECOVERY_RELOCATED" -> {"RECOVERY_VERIFIED", "MANUAL"}
      [] s = "SCAN_HANDOFF" -> {"VERIFIED", "RECOVERED", "MANUAL"}
      [] OTHER -> {}]

Step == {"idle", "start", "leased", "ready", "gate", "armed", "moved",
         "relocated", "salvage", "recover", "reverseArmed", "reversed",
         "reverseJournaled", "manual", "handoff", "closing", "reconcile",
         "scanning", "evidence", "confirm"}

(* op: the call; known: it found the run; attempt: it is inside the        *)
(* executor's own forward attempt; then: where it goes after its lease.    *)
Job == [pc : Step, op : {"execute", "recover"}, known : BOOLEAN,
        attempt : BOOLEAN, then : {"idle", "reconcile"}]
NoJob == [pc |-> "idle", op |-> "execute", known |-> FALSE,
          attempt |-> FALSE, then |-> "idle"]

(* owner: "attempt" is a run id drawn by execute and not (yet) persisted,  *)
(* "run" the id of the run, "scan" that of a scan.                         *)
Lease == [owner : {None, "attempt", "run", "scan"},
          holder : Proc \cup {Cli, None}, fresh : BOOLEAN]
NoLease == [owner |-> None, holder |-> None, fresh |-> FALSE]

Seen == [change : [Name -> Change], hash : [Name -> Content]]
NothingSeen == [change |-> [n \in Name |-> "none"],
                hash |-> [n \in Name |-> "absent"]]
Scan == [by : Proc \cup {Cli, None}, phase : {"none", "open", "listed", "complete"},
         mode : ScanModes, late : BOOLEAN, seen : Seen]
NoScan == [by |-> None, phase |-> "none", mode |-> "quick", late |-> FALSE,
           seen |-> NothingSeen]

TypeOK ==
    /\ place \in [Name -> Content]
    /\ rec \in [Name -> FileRecord]
    /\ planned \in BOOLEAN /\ authorized \in BOOLEAN
    /\ lease \in Lease
    /\ events \in Seq(Status) /\ Len(events) <= 6    \* 16 are allowed
    /\ job \in [Proc -> Job]
    /\ scan \in Scan
    /\ scans \subseteq Seen
    /\ forwards \in Nat
    /\ faults \in 0..MaxFaults /\ meddles \in 0..MaxMeddles
    /\ foreign \in 0..MaxForeign

Present(content) == [presence |-> "PRESENT", what |-> content, skipped |-> FALSE]

(* The authorization exists: source exact and indexed, target unused.      *)
Init ==
    /\ place = [source |-> "book", target |-> "absent"]
    /\ rec = [source |-> Present("book"),
              target |-> [presence |-> "none", what |-> "absent", skipped |-> FALSE]]
    /\ planned = TRUE /\ authorized = TRUE
    /\ lease = NoLease
    /\ events = <<>>
    /\ job = [p \in Proc |-> NoJob]
    /\ scan = NoScan /\ scans = {}
    /\ forwards = 0 /\ faults = 0 /\ meddles = 0 /\ foreign = 0

-----------------------------------------------------------------------------
Latest == IF events = <<>> THEN "none" ELSE events[Len(events)]
Journaled(s) == \E i \in 1..Len(events) : events[i] = s
Forward == Journaled("IMMEDIATE_VERIFIED")
AtSource == place["source"] = "book" /\ place["target"] = "absent"
AtTarget == place["source"] = "absent" /\ place["target"] = "book"

Pc(p) == job[p].pc
Goto(p, step) == job' = [job EXCEPT ![p].pc = step]
CloseThen(p, step) == job' = [job EXCEPT ![p].pc = "closing", ![p].then = step]
Fault(kind) ==
    /\ kind \in Faults /\ faults < MaxFaults
    /\ faults' = faults + 1
    /\ UNCHANGED <<planned, authorized, meddles, foreign>>

CanWriteUnderAnyProof(p) == lease.owner \in {"attempt", "run"} /\ lease.fresh

(* The fence of every transaction.                                         *)
CanWrite(p) == lease.holder = p /\ lease.fresh

AppendEventUnchecked(p, status) == events' = Append(events, status)

(* append_event: one transaction under the fence, legal successors only.   *)
AppendEvent(p, status) ==
    /\ CanWrite(p)
    /\ status \in Transitions[Latest]
    /\ events' = Append(events, status)

(* A refused fence is FENCED_OUT: no recovery, and the call ends.          *)
FencedOut(p) ==
    /\ ~CanWrite(p)
    /\ CloseThen(p, "idle")
    /\ UNCHANGED <<place, rec, lease, events, scan, scans, forwards, env>>

(* Any other failure of a transaction is handled like a physical surprise: *)
(* inside the forward attempt by recovering with the open session, and     *)
(* otherwise by trying to journal MANUAL.                                  *)
DbFault(p) ==
    /\ Fault("db")
    /\ Goto(p, IF Pc(p) \in {"moved", "relocated"} THEN "salvage" ELSE "manual")
    /\ UNCHANGED <<place, rec, lease, events, scan, scans, forwards>>

WriteThen(p, status, next) ==
    \/ /\ AppendEvent(p, status)
       /\ next
       /\ UNCHANGED <<place, rec, lease, scan, scans, forwards, env>>
    \/ FencedOut(p)
    \/ DbFault(p)

(* The executor returns a status: the forward attempt has already failed   *)
(* and reports its own error, otherwise the operator goes on from there.   *)
Return(p, latest) ==
    IF latest \in {"IMMEDIATE_VERIFIED", "RECOVERY_VERIFIED"} /\ ~job[p].attempt
    THEN Goto(p, "handoff")
    ELSE CloseThen(p, IF latest = "SCAN_HANDOFF" /\ ~job[p].attempt
                      THEN "reconcile" ELSE "idle")

-----------------------------------------------------------------------------
(* The operator: read the run, take the lease, create the run, dispatch.   *)

Begin(p, op) ==
    /\ Pc(p) = "idle"
    /\ op = "recover" => events # <<>>
    /\ Latest \notin {"VERIFIED", "RECOVERED"}    \* the reconciliation is returned
    /\ job' = [job EXCEPT ![p] = [NoJob EXCEPT !.pc = "start", !.op = op,
                                               !.known = events # <<>>]]
    /\ UNCHANGED <<place, rec, lease, events, scan, scans, forwards, env>>

AcquirableWhileFresh(p) ==
    \/ lease.owner = None
    \/ job[p].known /\ lease.owner = "run"

AcquirableOnlyIfFree(p) == lease.owner = None

(* _acquire_run_lease: a free slot, or the expired lease of the same run.  *)
Acquirable(p) ==
    \/ lease.owner = None
    \/ job[p].known /\ lease.owner = "run" /\ ~lease.fresh

AcquireRunLease(p) ==
    /\ Pc(p) \in {"start", "evidence"}
    /\ IF Acquirable(p)
       THEN /\ lease' = [owner |-> IF job[p].known THEN "run" ELSE "attempt",
                         holder |-> p, fresh |-> TRUE]
            /\ Goto(p, CASE Pc(p) = "evidence" -> "confirm"
                         [] Pc(p) = "start" /\ job[p].known -> "ready"
                         [] OTHER -> "leased")
       ELSE /\ Goto(p, "idle")
            /\ UNCHANGED lease
    /\ UNCHANGED <<place, rec, events, scan, scans, forwards, env>>

(* create_run consumes the authorization; the drawn id becomes the run's.  *)
CreateRun(p) ==
    /\ Pc(p) = "leased"
    /\ IF CanWrite(p) /\ authorized /\ events = <<>>
       THEN /\ events' = <<"PREPARED">>
            /\ lease' = [lease EXCEPT !.owner = "run"]
            /\ job' = [job EXCEPT ![p].pc = "ready", ![p].known = TRUE]
       ELSE /\ CloseThen(p, "idle")
            /\ UNCHANGED <<events, lease>>
    /\ UNCHANGED <<place, rec, scan, scans, forwards, env>>

Dispatch(p) ==
    /\ Pc(p) = "ready"
    /\ IF Latest \in {"PREPARED", "RELOCATED", "RECOVERY_RELOCATED"}
       THEN LET attempt == Latest = "PREPARED" /\ job[p].op = "execute" /\ authorized
            IN job' = [job EXCEPT ![p].attempt = attempt,
                                  ![p].pc = IF attempt THEN "gate" ELSE "recover"]
       ELSE Return(p, Latest)
    /\ UNCHANGED <<place, rec, lease, events, scan, scans, forwards, env>>

(* A failing query of the operator ends the call, after the finally block. *)
OperatorFails(p) ==
    /\ Fault("db")
    /\ \/ Pc(p) \in {"leased", "ready", "confirm"} /\ CloseThen(p, "idle")
       \/ Pc(p) \in {"start", "reconcile", "evidence"} /\ Goto(p, "idle")
    /\ UNCHANGED <<place, rec, lease, events, scan, scans, forwards>>

-----------------------------------------------------------------------------
(* execute_ebook_file_rename: gates, rename, journal, verification.        *)

GateOpen(p) ==
    /\ CanWrite(p)
    /\ authorized /\ planned
    /\ Latest = "PREPARED"
    /\ rec["target"].presence = "none"

(* The second gate and the revalidation of both names, just before the     *)
(* rename.  A failure before the session is open leaves the journal alone. *)
Gate(p) ==
    /\ Pc(p) = "gate"
    /\ IF ~GateOpen(p) THEN CloseThen(p, "idle")
       ELSE IF AtSource THEN Goto(p, "armed") ELSE Goto(p, "salvage")
    /\ UNCHANGED <<place, rec, lease, events, scan, scans, forwards, env>>

GateFails(p) ==
    /\ Pc(p) = "gate"
    /\ Fault("db") \/ Fault("io")
    /\ CloseThen(p, "idle") \/ Goto(p, "salvage")
    /\ UNCHANGED <<place, rec, lease, events, scan, scans, forwards>>

(* renameat2(RENAME_NOREPLACE): whatever source denotes now is moved,       *)
(* unless there is nothing to move or target is taken.                     *)
Moved(from, to) ==
    [place EXCEPT ![from] = "absent", ![to] = place[from]]
Movable(from, to) == place[from] # "absent" /\ place[to] = "absent"

(* The system call itself asks no fence.                                   *)
RenameForward(p) ==
    /\ Pc(p) = "armed"
    /\ IF Movable("source", "target")
       THEN /\ place' = Moved("source", "target")
            /\ forwards' = forwards + 1
            /\ Goto(p, "moved")
       ELSE /\ Goto(p, "salvage")
            /\ UNCHANGED <<place, forwards>>
    /\ UNCHANGED <<rec, lease, events, scan, scans, env>>

(* The call, or the fsync of the directory after it, reports an error: the *)
(* mutation may have occurred.                                             *)
RenameForwardFails(p) ==
    /\ Pc(p) = "armed"
    /\ Fault("io")
    /\ \/ UNCHANGED <<place, forwards>>
       \/ /\ Movable("source", "target")
          /\ place' = Moved("source", "target")
          /\ forwards' = forwards + 1
    /\ Goto(p, "salvage")
    /\ UNCHANGED <<rec, lease, events, scan, scans>>

JournalRelocated(p) ==
    /\ Pc(p) = "moved"
    /\ WriteThen(p, "RELOCATED", Goto(p, "relocated"))

VerifyForward(p) ==
    /\ Pc(p) = "relocated"
    /\ \/ AtTarget /\ WriteThen(p, "IMMEDIATE_VERIFIED", Goto(p, "handoff"))
       \/ ~AtTarget /\ ~CanWrite(p) /\ FencedOut(p)
       \/ /\ ~AtTarget /\ CanWrite(p)
          /\ Goto(p, "salvage")
          /\ UNCHANGED <<place, rec, lease, events, scan, scans, forwards, env>>

-----------------------------------------------------------------------------
(* _recover_session: the matrix of journal and physical state, reached     *)
(* from a failed forward attempt or from recover_ebook_file_rename, which  *)
(* first passes the fence.                                                 *)

Reversible == Latest \in {"PREPARED", "RELOCATED"} /\ AtTarget
Cancellable == Latest = "PREPARED" /\ AtSource
Restored == Latest \in {"RELOCATED", "RECOVERY_RELOCATED"} /\ AtSource
Settled ==
    \/ Latest \in Terminal
    \/ Latest = "RECOVERY_VERIFIED" /\ AtSource
    \/ Latest = "IMMEDIATE_VERIFIED" /\ AtTarget
    \/ Latest = "SCAN_HANDOFF" /\ (AtSource \/ AtTarget)

Recover(p) ==
    /\ Pc(p) \in {"salvage", "recover"}
    /\ Pc(p) = "recover" => CanWrite(p)
    /\ \/ Cancellable /\ WriteThen(p, "CANCELLED", Return(p, "CANCELLED"))
       \/ /\ Restored
          /\ WriteThen(p, "RECOVERY_VERIFIED", Return(p, "RECOVERY_VERIFIED"))
       \/ /\ Reversible /\ CanWrite(p)
          /\ Goto(p, "reverseArmed")
          /\ UNCHANGED <<place, rec, lease, events, scan, scans, forwards, env>>
       \/ Reversible /\ FencedOut(p)
       \/ /\ Settled
          /\ Return(p, Latest)
          /\ UNCHANGED <<place, rec, lease, events, scan, scans, forwards, env>>
       \/ /\ ~(Cancellable \/ Restored \/ Reversible \/ Settled)
          /\ WriteThen(p, "MANUAL", CloseThen(p, "idle"))

RecoverFencedOut(p) ==
    /\ Pc(p) = "recover"
    /\ FencedOut(p)

(* The session does not open, or a query fails.  If it is the query of the  *)
(* journal, that counts as a lost fence.                                   *)
RecoverFails(p) ==
    /\ Pc(p) \in {"salvage", "recover"}
    /\ \/ (Fault("db") \/ Fault("io")) /\ Goto(p, "manual")
       \/ Fault("db") /\ CloseThen(p, "idle")
    /\ UNCHANGED <<place, rec, lease, events, scan, scans, forwards>>

(* rename_reverse classifies once more, but asks no fence either.          *)
RenameReverse(p) ==
    /\ Pc(p) = "reverseArmed"
    /\ IF AtTarget
       THEN place' = Moved("target", "source") /\ Goto(p, "reversed")
       ELSE UNCHANGED place /\ Goto(p, "manual")
    /\ UNCHANGED <<rec, lease, events, scan, scans, forwards, env>>

RenameReverseFails(p) ==
    /\ Pc(p) = "reverseArmed"
    /\ Fault("io")
    /\ \/ UNCHANGED place
       \/ AtTarget /\ place' = Moved("target", "source")
    /\ Goto(p, "manual")
    /\ UNCHANGED <<rec, lease, events, scan, scans, forwards>>

JournalReversed(p) ==
    /\ Pc(p) = "reversed"
    /\ WriteThen(p, "RECOVERY_RELOCATED", Goto(p, "reverseJournaled"))

VerifyReverse(p) ==
    /\ Pc(p) = "reverseJournaled"
    /\ \/ /\ AtSource
          /\ WriteThen(p, "RECOVERY_VERIFIED", Return(p, "RECOVERY_VERIFIED"))
       \/ ~AtSource /\ FencedOut(p)
       \/ /\ ~AtSource /\ CanWrite(p)
          /\ Goto(p, "manual")
          /\ UNCHANGED <<place, rec, lease, events, scan, scans, forwards, env>>

(* _append_manual_if_possible swallows every failure.                      *)
JournalManual(p) ==
    /\ Pc(p) = "manual"
    /\ \/ /\ AppendEvent(p, "MANUAL")
          /\ UNCHANGED env
       \/ /\ ~CanWrite(p) \/ Latest \in Terminal
          /\ UNCHANGED <<events, env>>
       \/ /\ Fault("db")
          /\ UNCHANGED events
    /\ CloseThen(p, "idle")
    /\ UNCHANGED <<place, rec, lease, scan, scans, forwards>>

-----------------------------------------------------------------------------
(* Handoff, release and reconciliation.                                    *)

HandOff(p) ==
    /\ Pc(p) = "handoff"
    /\ \/ /\ AppendEvent(p, "SCAN_HANDOFF")
          /\ CloseThen(p, "reconcile")
          /\ UNCHANGED env
       \/ /\ ~CanWrite(p)
          /\ CloseThen(p, "idle")
          /\ UNCHANGED <<events, env>>
       \/ /\ Fault("db")
          /\ CloseThen(p, "idle")
          /\ UNCHANGED events
    /\ UNCHANGED <<place, rec, lease, scan, scans, forwards>>

Unheld(p) == IF lease.holder = p THEN [lease EXCEPT !.holder = None] ELSE lease

(* The finally block.  An expired lease is not released; a failing release *)
(* ends the call and leaves the lease to expire.                           *)
Close(p) ==
    /\ Pc(p) = "closing"
    /\ \/ /\ lease' = IF CanWrite(p) THEN NoLease ELSE Unheld(p)
          /\ job' = [job EXCEPT ![p].pc = job[p].then, ![p].then = "idle",
                                ![p].attempt = FALSE]
          /\ UNCHANGED env
       \/ /\ Fault("db")
          /\ lease' = Unheld(p)
          /\ job' = [job EXCEPT ![p] = NoJob]
    /\ UNCHANGED <<place, rec, events, scan, scans, forwards>>

(* _matching_evidence and _require_reconciliation_evidence: what one scan  *)
(* after the handoff saw, and what the index says now.                     *)
Shows(seen) ==
    IF Forward
    THEN /\ seen.change["source"] = "MISSING"
         /\ seen.change["target"] = "NEW" /\ seen.hash["target"] = "book"
    ELSE /\ seen.change["source"] \in {"UNCHANGED", "REAPPEARED"}
         /\ seen.hash["source"] = "book"

IndexedWithoutTargetHistory ==
    IF Forward
    THEN rec["source"].presence = "MISSING" /\ rec["target"].presence = "PRESENT"
    ELSE rec["source"].presence = "PRESENT"

Indexed ==
    IF Forward
    THEN rec["source"].presence = "MISSING" /\ rec["target"].presence = "PRESENT"
    ELSE rec["source"].presence = "PRESENT" /\ rec["target"].presence = "none"

Proves(seen) == Shows(seen) /\ Indexed

OpenedByOverExpired(who, mode) ==
    /\ lease.owner = None \/ ~lease.fresh
    /\ lease' = [owner |-> "scan", holder |-> who, fresh |-> TRUE]
    /\ scan' = [NoScan EXCEPT !.by = who, !.phase = "open", !.mode = mode,
                              !.late = Journaled("SCAN_HANDOFF")]

OpenedBy(who, mode) ==
    /\ lease.owner = None
    /\ lease' = [owner |-> "scan", holder |-> who, fresh |-> TRUE]
    /\ scan' = [NoScan EXCEPT !.by = who, !.phase = "open", !.mode = mode,
                              !.late = Journaled("SCAN_HANDOFF")]

(* A matching completed scan is reused; otherwise the operator scans.      *)
Reconcile(p) ==
    /\ Pc(p) = "reconcile"
    /\ IF \E seen \in scans : Proves(seen)
       THEN Goto(p, "evidence") /\ UNCHANGED <<lease, scan>>
       ELSE IF lease.owner = None
            THEN OpenedBy(p, "full") /\ Goto(p, "scanning")
            ELSE Goto(p, "idle") /\ UNCHANGED <<lease, scan>>
    /\ UNCHANGED <<place, rec, events, scans, forwards, env>>

(* Under a fresh lease: physical verification, then record_reconciliation  *)
(* checks the evidence again and adds the terminal event.                  *)
Confirm(p) ==
    /\ Pc(p) = "confirm"
    /\ IF /\ IF Forward THEN AtTarget ELSE AtSource
          /\ \E seen \in scans : Proves(seen)
          /\ CanWrite(p) /\ Latest = "SCAN_HANDOFF"
       THEN events' = Append(events, IF Forward THEN "VERIFIED" ELSE "RECOVERED")
       ELSE UNCHANGED events
    /\ CloseThen(p, "idle")
    /\ UNCHANGED <<place, rec, lease, scan, scans, forwards, env>>

-----------------------------------------------------------------------------
(* Scans of the root, by the operator or by the scan command.              *)

ForeignScan(mode) ==
    /\ foreign < MaxForeign
    /\ foreign' = foreign + 1
    /\ OpenedBy(Cli, mode)
    /\ UNCHANGED <<place, rec, events, job, scans, forwards, planned, authorized,
                   faults, meddles>>

Running(phase) == scan.phase = phase /\ lease.holder = scan.by

Listed(n) == place[n] # "absent" /\ scan.mode # "narrow"

Observed(n) ==
    IF ~Listed(n) THEN "none"
    ELSE CASE rec[n].presence = "none" -> "NEW"
           [] rec[n].presence = "MISSING" -> "REAPPEARED"
           [] rec[n].presence = "PRESENT" /\ rec[n].what # place[n] -> "MODIFIED"
           [] OTHER -> "UNCHANGED"

(* process_batch and the hashes of its files.                              *)
ListFiles ==
    /\ Running("open")
    /\ rec' = [n \in Name |-> IF Listed(n) THEN Present(place[n]) ELSE rec[n]]
    /\ \E read \in SUBSET Name :
          /\ IF scan.mode = "full" /\ read # Name THEN Fault("hash") ELSE UNCHANGED env
          /\ scan' = [scan EXCEPT
                !.phase = "listed",
                !.seen = [change |-> [n \in Name |-> Observed(n)],
                          hash |-> [n \in Name |-> IF scan.mode = "full" /\ n \in read
                                                    THEN place[n] ELSE "absent"]]]
    /\ UNCHANGED <<place, lease, events, job, scans, forwards>>

(* Every record of the root that the scan has no observation of, also one   *)
(* of a file that the scan was told not to list.                           *)
Lost(n) == scan.seen.change[n] = "none" /\ rec[n].presence # "none"

MarkMissing ==
    /\ Running("listed")
    /\ rec' = [n \in Name |->
                 IF Lost(n) THEN [rec[n] EXCEPT !.presence = "MISSING",
                                                !.skipped = (scan.mode = "narrow")]
                 ELSE rec[n]]
    /\ scan' = [scan EXCEPT
          !.phase = "complete",
          !.seen.change = [n \in Name |-> IF Lost(n) THEN "MISSING" ELSE @[n]]]
    /\ UNCHANGED <<place, lease, events, job, scans, forwards, env>>

Resume(step) ==
    job' = [p \in Proc |-> IF p = scan.by THEN [job[p] EXCEPT !.pc = step] ELSE job[p]]

FinishScan ==
    /\ Running("complete")
    /\ lease' = NoLease /\ scan' = NoScan
    /\ scans' = IF scan.late THEN scans \cup {scan.seen} ELSE scans
    /\ planned' = FALSE
    /\ Resume(IF Proves(scan.seen) THEN "evidence" ELSE "idle")
    /\ UNCHANGED <<place, rec, events, forwards, authorized, faults, meddles, foreign>>

(* The scan raises and is recorded as FAILED, keeping what it committed.   *)
FailScan ==
    /\ scan.phase # "none" /\ lease.holder = scan.by
    /\ Fault("scan")
    /\ lease' = NoLease /\ scan' = NoScan
    /\ Resume("idle")
    /\ UNCHANGED <<place, rec, events, scans, forwards>>

(* The process of the scan command dies, like that of a call; its row is   *)
(* recovered by --recover-stale-running once the lease has expired.        *)
KillScan ==
    /\ scan.by = Cli /\ lease.holder = Cli
    /\ Fault("crash")
    /\ lease' = [lease EXCEPT !.holder = None]
    /\ UNCHANGED <<place, rec, events, job, scan, scans, forwards>>

RecoverStaleScan ==
    /\ lease.owner = "scan" /\ ~lease.fresh
    /\ lease' = NoLease /\ scan' = NoScan
    /\ UNCHANGED <<place, rec, events, job, scans, forwards, env>>

-----------------------------------------------------------------------------
(* The environment.                                                        *)

(* A call is killed at any of its steps, in its scan too.                  *)
Crash(p) ==
    /\ Pc(p) # "idle"
    /\ Fault("crash")
    /\ job' = [job EXCEPT ![p] = NoJob]
    /\ lease' = Unheld(p)
    /\ UNCHANGED <<place, rec, events, scan, scans, forwards>>

Mutating(p) == Pc(p) \in {"armed", "reverseArmed"} /\ lease.holder = p

(* An authorization lives for 15 minutes and a run lease for 30, so that    *)
(* the authorization expires first.  A live scan renews its lease; a live   *)
(* rename does not, and is too slow if it is still at work then.           *)
ExpireAuthorization ==
    /\ authorized
    /\ Punctual => \A p \in Proc : ~Mutating(p)
    /\ authorized' = FALSE
    /\ UNCHANGED <<place, rec, lease, events, job, scan, scans, forwards, planned,
                   faults, meddles, foreign>>

ExpireLease ==
    /\ lease.owner # None /\ lease.fresh
    /\ lease.owner # "scan" => ~authorized
    /\ \/ lease.holder = None /\ UNCHANGED env
       \/ /\ lease.holder \in Proc /\ lease.owner # "scan"
          /\ Punctual => ~Mutating(lease.holder)
          /\ Fault("slow")
    /\ lease' = [lease EXCEPT !.fresh = FALSE]
    /\ UNCHANGED <<place, rec, events, job, scan, scans, forwards>>

(* A program that is not FolioTone creates or removes one of the entries.  *)
Meddle(n) ==
    /\ meddles < MaxMeddles
    /\ meddles' = meddles + 1
    /\ place' = [place EXCEPT ![n] = IF @ = "absent" THEN "other" ELSE "absent"]
    /\ UNCHANGED <<rec, lease, events, job, scan, scans, forwards, planned,
                   authorized, faults, foreign>>

-----------------------------------------------------------------------------
OperatorStep(p) ==
    \/ AcquireRunLease(p) \/ CreateRun(p) \/ Dispatch(p) \/ OperatorFails(p)
    \/ Gate(p) \/ GateFails(p) \/ RenameForward(p) \/ RenameForwardFails(p)
    \/ JournalRelocated(p) \/ VerifyForward(p)
    \/ Recover(p) \/ RecoverFencedOut(p) \/ RecoverFails(p)
    \/ RenameReverse(p) \/ RenameReverseFails(p)
    \/ JournalReversed(p) \/ VerifyReverse(p) \/ JournalManual(p)
    \/ HandOff(p) \/ Close(p) \/ Reconcile(p) \/ Confirm(p)

ScanStep == ListFiles \/ MarkMissing \/ FinishScan

Next ==
    \/ \E p \in Proc :
          \/ Begin(p, "execute") \/ Begin(p, "recover")
          \/ OperatorStep(p)
          \/ Crash(p)
    \/ \E mode \in ForeignModes : ForeignScan(mode)
    \/ ScanStep \/ FailScan \/ KillScan
    \/ RecoverStaleScan
    \/ ExpireAuthorization
    \/ ExpireLease
    \/ \E n \in Name : Meddle(n)

Spec == Init /\ [][Next]_vars

(* Every call and scan runs on unless its process dies, somebody keeps     *)
(* asking for the recovery of the run and of stale scans, and time passes. *)
Fairness ==
    /\ \A p \in Proc : WF_vars(OperatorStep(p))
    /\ WF_vars(\E p \in Proc : Begin(p, "recover"))
    /\ WF_vars(ScanStep)
    /\ WF_vars(RecoverStaleScan)
    /\ WF_vars(ExpireAuthorization)
    /\ WF_vars(ExpireLease)

FairSpec == Spec /\ Fairness

-----------------------------------------------------------------------------
(* ADR-0066: the journal never claims a position the book does not have.   *)
(* As long as nobody else touches the two names, every status from         *)
(* RECOVERY_RELOCATED or IMMEDIATE_VERIFIED on tells exactly where the      *)
(* book is, whatever crashed, failed, expired or was taken over.           *)
JournalTellsWhereTheBookIs ==
    meddles = 0 =>
        /\ Latest \in {"IMMEDIATE_VERIFIED", "VERIFIED"} => AtTarget
        /\ Latest \in {"RECOVERY_RELOCATED", "RECOVERY_VERIFIED", "RECOVERED",
                     "CANCELLED"} => AtSource
        /\ Latest = "SCAN_HANDOFF" => IF Forward THEN AtTarget ELSE AtSource

(* The index has the book where it is, or had it until a scan that was     *)
(* told to list other files declared it missing.                           *)
Found(n) ==
    /\ rec[n].what = "book"
    /\ rec[n].presence = "PRESENT" \/ rec[n].skipped

(* The index agrees with a verdict, and no later scan, crashed or not,     *)
(* takes that back, except as Found says.                                  *)
IndexAgreesWithVerdict ==
    meddles = 0 =>
        /\ Latest = "VERIFIED" => rec["source"].presence = "MISSING" /\ Found("target")
        /\ Latest = "RECOVERED" => Found("source") /\ rec["target"].presence = "none"

(* The lease keeps every scan away from a rename that is not decided: the  *)
(* index learns of the target only after IMMEDIATE_VERIFIED, or when the   *)
(* rename has been handed to a human.                                      *)
IndexNeverSeesAnUndecidedRename ==
    meddles = 0 /\ rec["target"].presence # "none" => Forward \/ Latest = "MANUAL"

(* The rename system call succeeds at most once per authorization, over    *)
(* all calls and retries.                                                  *)
OneForwardRename == forwards <= 1

ByProgram == meddles' = meddles

(* ADR-0066, last row of the matrix: once the run is terminal nothing of   *)
(* it moves the file any more, not even a process that was overtaken.      *)
NoMutationAfterTerminal ==
    [][ByProgram /\ place' # place => Latest \notin Terminal]_vars

(* The handed-off run that no scan can confirm any more, as the target has  *)
(* a FileRecord for good.  After a forward rename no scan will see it as    *)
(* NEW again, and the one that did had no full hash of it or did not        *)
(* complete; a rename that was reversed needs it to have no record.        *)
EvidenceIsSpent ==
    /\ Latest = "SCAN_HANDOFF" /\ rec["target"].presence # "none"
    /\ Forward => scan.phase = "none" /\ \A seen \in scans : ~Shows(seen)

(* The lease belongs to a run id that was never persisted: no call asks for *)
(* its recovery.                                                           *)
RootHeldByALostCall == lease.owner = "attempt" /\ lease.holder = None

(* A call does not wait for the lease: operators who repeat their calls at  *)
(* the same time may keep each other from it for ever.                     *)
OneOperatorInTheEnd ==
    \E p \in Proc : <>[](\A q \in Proc \ {p} : Pc(q) = "idle")

(* An operator who keeps calling recover brings every journaled run to a   *)
(* terminal status, wherever calls and scans were killed or failed, unless *)
(* it ends in one of the two dead ends above, which the row of ADR-0066's   *)
(* matrix that continues the reconciliation of SCAN_HANDOFF does not know. *)
EveryRunIsDecided ==
    OneOperatorInTheEnd =>
        (events # <<>> ~>
            Latest \in Terminal \/ EvidenceIsSpent \/ RootHeldByALostCall)

=============================================================================
