--------------------------- MODULE IncrementalScan ---------------------------
(***************************************************************************)
(* The incremental index of one scan root (index/scanner.py, store.py,     *)
(* hashing.py, deletion.py): repeated scans compare a tree that people     *)
(* keep changing with the records of earlier scans.  A scan works through  *)
(* bounded batches, each in two transactions (observe, then save the       *)
(* hashes), closes with the absence phase and relocation detection, and    *)
(* can fail, be interrupted, be killed, or be declared dead and fenced out *)
(* while it still runs (ADR-0013, ADR-0015, ADR-0025).                     *)
(*                                                                         *)
(* Content is a number that grows with every write of a path; it stands    *)
(* for the bytes and for the size and time a listing shows, so the model   *)
(* assumes that a write changes size or time and that a path never returns *)
(* to an earlier content.  A hash is the content it was computed from; an  *)
(* observation's print stands for either profile, quick or full.           *)
(* One invocation runs one ScanRun, so run and process share a name.  The  *)
(* lease row is its owner and whether it has expired (ScanRootLease);      *)
(* heartbeats only postpone Expire.  Relocation detection, between the     *)
(* absence phase and the end, changes nothing the other steps use: only    *)
(* its failure is here, as an Abort.                                       *)
(***************************************************************************)
EXTENDS Integers, Sequences, FiniteSets

CONSTANTS
    Files,        \* relative paths below the root
    Filters,      \* the paths a scan lists: all, or those --suffix admits
    MaxScans,     \* bound: scans started
    MaxChanges,   \* bound: changes of the tree by others
    MaxFaults,    \* bound: scans stopped, killed or suspended past their lease
    BatchSize,    \* batch_size
    MinMissing    \* min_consecutive_missing_scans

ASSUME ScanAssumption ==
    /\ MaxScans \in Nat /\ MaxChanges \in Nat /\ MaxFaults \in Nat
    /\ BatchSize \in Nat \ {0} /\ MinMissing \in Nat \ {0, 1}
    /\ Filters \subseteq SUBSET Files

VARIABLES
    disk,          \* path -> the content last written there, and whether it
                   \* is there now
    changes,       \* how often others have changed the tree
    faults,        \* how often a scan was stopped, killed or suspended
    records,       \* path -> FileRecord
    observations,  \* path -> its FileObservations, each with its fingerprint
    runs,          \* ScanRun -> status, and the event it recorded per path
    lease,         \* the root's write lease
    pc,            \* run -> what its process does next
    unlisted,      \* run -> paths the discovery has yet to reach
    batch,         \* run -> contents as listed in the open batch, 0 if absent
    hashed,        \* run -> fingerprints computed but not yet saved, 0 if none
    absent,        \* history: paths not there at some time of the latest run
    skipped        \* history: paths its suffix filter leaves out

tree == <<disk, changes>>
index == <<records, observations>>
local == <<unlisted, batch, hashed>>
latest == <<absent, skipped>>
vars == <<tree, faults, index, runs, lease, pc, local, latest>>

Scans == 1..MaxScans
NoScan == 0
Contents == 0..(1 + MaxChanges)  \* 0: no content
Nothing == [f \in Files |-> 0]
NoEvents == [f \in Files |-> "NONE"]
NoRecord == [presence |-> "NONE", content |-> 0, missing |-> 0]
Free == [owner |-> NoScan, expired |-> FALSE]

Init ==
    /\ disk = [f \in Files |-> [content |-> 1, here |-> TRUE]]
    /\ changes = 0
    /\ faults = 0
    /\ records = [f \in Files |-> NoRecord]
    /\ observations = [f \in Files |-> <<>>]
    /\ runs = [r \in Scans |-> [status |-> "NOT_STARTED", events |-> NoEvents]]
    /\ lease = Free
    /\ pc = [r \in Scans |-> "idle"]
    /\ unlisted = [r \in Scans |-> {}]
    /\ batch = [r \in Scans |-> Nothing]
    /\ hashed = [r \in Scans |-> Nothing]
    /\ absent = {}
    /\ skipped = {}

-----------------------------------------------------------------------------
(* The tree, changed by others at any time. *)

Change(f, entry) ==
    /\ changes < MaxChanges
    /\ changes' = changes + 1
    /\ disk' = [disk EXCEPT ![f] = entry]
    /\ absent' = IF entry.here THEN absent ELSE absent \cup {f}
    /\ UNCHANGED <<faults, index, runs, lease, pc, local, skipped>>

WriteFile(f) == Change(f, [content |-> disk[f].content + 1, here |-> TRUE])
RemoveFile(f) == disk[f].here /\ Change(f, [disk[f] EXCEPT !.here = FALSE])
RestoreFile(f) ==
    /\ ~disk[f].here
    /\ Change(f, [disk[f] EXCEPT !.here = TRUE])

-----------------------------------------------------------------------------
(* Ownership.  Every write of a scan is fenced in its own transaction. *)

Works(r) == pc[r] \notin {"idle", "ended"}

Owns(r) ==
    /\ lease = [owner |-> r, expired |-> FALSE]
    /\ runs[r].status = "RUNNING"

Acquirable == lease.owner = NoScan

(* start_scan: the run and the lease are one transaction.  A resumed scan   *)
(* differs from a fresh one only by the lineage it records.  Every scan has *)
(* a suffix filter of its own: it is not part of the root.                  *)
Start(r) ==
    /\ pc[r] = "idle" /\ \A q \in 1..(r - 1) : pc[q] # "idle"
    /\ Acquirable
    /\ lease' = [owner |-> r, expired |-> FALSE]
    /\ runs' = [runs EXCEPT ![r].status = "RUNNING"]
    /\ pc' = [pc EXCEPT ![r] = "discover"]
    /\ \E wanted \in Filters :
         /\ unlisted' = [unlisted EXCEPT ![r] = wanted]
         /\ skipped' = Files \ wanted
    /\ absent' = {f \in Files : ~disk[f].here}
    /\ UNCHANGED <<tree, faults, index, batch, hashed>>

(* The process of r ends and loses what it held in memory. *)
End(r) ==
    /\ pc' = [pc EXCEPT ![r] = "ended"]
    /\ unlisted' = [unlisted EXCEPT ![r] = {}]
    /\ batch' = [batch EXCEPT ![r] = Nothing]
    /\ hashed' = [hashed EXCEPT ![r] = Nothing]

-----------------------------------------------------------------------------
(* Discovery and batches *)

InBatch(r) == {f \in Files : batch[r][f] > 0}
BatchFull(r) == Cardinality(InBatch(r)) = BatchSize

(* The directory walk reaches f, a path of the filter: what it lists is     *)
(* what is there now.                                                       *)
Discover(r, f) ==
    /\ pc[r] = "discover" /\ ~BatchFull(r) /\ f \in unlisted[r]
    /\ unlisted' = [unlisted EXCEPT ![r] = @ \ {f}]
    /\ batch' = IF disk[f].here
                THEN [batch EXCEPT ![r][f] = disk[f].content] ELSE batch
    /\ UNCHANGED <<tree, faults, index, runs, lease, pc, hashed, latest>>

(* _reconcile_file *)
ChangeState(record, content) ==
    CASE record.presence = "NONE" -> "NEW"
      [] record.presence \in {"MISSING", "DELETED"} -> "REAPPEARED"
      [] record.presence = "PRESENT" /\ record.content # content -> "MODIFIED"
      [] OTHER -> "UNCHANGED"
ReconciledKeepingSeries(record, content) ==
    [record EXCEPT !.presence = "PRESENT", !.content = content]
Reconciled(record, content) ==
    [presence |-> "PRESENT", content |-> content, missing |-> 0]

(* process_batch *)
Reconcile(r) ==
    /\ pc[r] = "discover" /\ InBatch(r) # {}
    /\ BatchFull(r) \/ unlisted[r] = {}
    /\ Owns(r)
    /\ records' = [f \in Files |->
         IF f \in InBatch(r) THEN Reconciled(records[f], batch[r][f])
         ELSE records[f]]
    /\ observations' = [f \in Files |->
         IF f \in InBatch(r)
         THEN Append(observations[f],
                     [run |-> r, content |-> batch[r][f], print |-> 0])
         ELSE observations[f]]
    /\ runs' = [runs EXCEPT ![r].events = [f \in Files |->
         IF f \in InBatch(r) THEN ChangeState(records[f], batch[r][f])
         ELSE @[f]]]
    /\ pc' = [pc EXCEPT ![r] = "hash"]
    /\ UNCHANGED <<tree, faults, lease, local, latest>>

(* reuse_latest: the hash of the observation just before this one, if it    *)
(* has one, and never that of an older one.  (The latest observation is the *)
(* scan's own unless it was fenced out, and then it saves nothing.)         *)
ReusableFromAny(f) ==
    LET prints == {i \in 1..(Len(observations[f]) - 1) :
                     observations[f][i].print > 0}
    IN  IF prints = {} THEN 0
        ELSE observations[f][CHOOSE i \in prints :
                               \A j \in prints : j <= i].print
Reusable(f) ==
    IF Len(observations[f]) < 2 THEN 0
    ELSE observations[f][Len(observations[f]) - 1].print

(* _hash_changed up to its save: reuse for the unchanged files, read the    *)
(* others as they are now.  An unreadable file gets no fingerprint, nor any *)
(* file under --hash none; --hash full reads an unchanged file again whose  *)
(* latest observation has no full hash, also where it has a quick one.      *)
Hash(r) ==
    /\ pc[r] = "hash"
    /\ \E unreadable, again \in SUBSET InBatch(r) :
         hashed' = [hashed EXCEPT ![r] = [f \in Files |->
           CASE f \notin InBatch(r) -> 0
             [] f \in InBatch(r) /\ runs[r].events[f] = "UNCHANGED"
                /\ f \notin again /\ Reusable(f) > 0 -> Reusable(f)
             [] OTHER -> IF f \in unreadable \/ ~disk[f].here THEN 0
                         ELSE disk[f].content]]
    /\ pc' = [pc EXCEPT ![r] = "save"]
    /\ UNCHANGED <<tree, faults, index, runs, lease, unlisted, batch, latest>>

(* save_many: one fenced transaction, skipped when there is nothing to save.*)
Save(r) ==
    /\ pc[r] = "save"
    /\ \/ hashed[r] = Nothing
       \/ Owns(r)
    /\ observations' = [f \in Files |->
         IF hashed[r][f] > 0
         THEN [observations[f] EXCEPT ![Len(observations[f])].print = hashed[r][f]]
         ELSE observations[f]]
    /\ pc' = [pc EXCEPT ![r] = "discover"]
    /\ batch' = [batch EXCEPT ![r] = Nothing]
    /\ hashed' = [hashed EXCEPT ![r] = Nothing]
    /\ UNCHANGED <<tree, faults, records, runs, lease, unlisted, latest>>

-----------------------------------------------------------------------------
(* Absence, relocation and the terminal status *)

ObservedIn(r, f) ==
    \E i \in 1..Len(observations[f]) : observations[f][i].run = r

Unseen(r) ==
    {f \in Files : /\ records[f].presence \notin {"NONE", "DELETED"}
                   /\ ~ObservedIn(r, f)}

(* The age test of DeletionConfirmationPolicy.confirms is the choice of the *)
(* series that are old enough; without the policy none ever is.             *)
Confirmed(f, old) == records[f].missing + 1 >= MinMissing /\ f \in old

DiscoveredButLastBatch(r) == unlisted[r] = {}
Discovered(r) == unlisted[r] = {} /\ InBatch(r) = {}

(* mark_missing, in a transaction of its own before the scan completes. *)
MarkMissing(r) ==
    /\ pc[r] = "discover" /\ Discovered(r) /\ Owns(r)
    /\ \E old \in SUBSET Unseen(r) :
         /\ records' = [f \in Files |->
              IF f \in Unseen(r)
              THEN [records[f] EXCEPT
                      !.presence = IF Confirmed(f, old) THEN "DELETED" ELSE "MISSING",
                      !.missing = @ + 1]
              ELSE records[f]]
         /\ runs' = [runs EXCEPT ![r].events = [f \in Files |->
              IF f \in Unseen(r)
              THEN IF Confirmed(f, old) THEN "DELETED" ELSE "MISSING"
              ELSE @[f]]]
    /\ pc' = [pc EXCEPT ![r] = "finish"]
    /\ UNCHANGED <<tree, faults, observations, lease, local, latest>>

(* finish_scan *)
Terminate(r, status) ==
    /\ runs' = [runs EXCEPT ![r].status = status]
    /\ lease' = Free
Finish(r) ==
    /\ pc[r] = "finish" /\ Owns(r)
    /\ Terminate(r, "COMPLETED")
    /\ End(r)
    /\ UNCHANGED <<tree, faults, index, latest>>

Fault == faults < MaxFaults /\ faults' = faults + 1

(* An exception or Ctrl-C at any step: _finish_after_error closes the run.  *)
(* FAILED and INTERRUPTED differ only in which run a later one may name as  *)
(* the one it resumes: here both are INTERRUPTED.                           *)
Abort(r) ==
    /\ Works(r) /\ Owns(r) /\ Fault
    /\ Terminate(r, "INTERRUPTED")
    /\ End(r)
    /\ UNCHANGED <<tree, index, latest>>

(* A scan that has lost its ownership fails in its next transaction or at   *)
(* the next check of its heartbeat thread, and leaves its run alone.        *)
FencedOut(r) ==
    /\ Works(r) /\ ~Owns(r)
    /\ End(r)
    /\ UNCHANGED <<tree, faults, index, runs, lease, latest>>

(* The process is killed, or its database is lost to it. *)
Crash(r) ==
    /\ Works(r) /\ Fault
    /\ End(r)
    /\ UNCHANGED <<tree, index, runs, lease, latest>>

(* The lease runs out: its owner died, or was suspended for too long. *)
Expire(r) ==
    /\ lease = [owner |-> r, expired |-> FALSE]
    /\ IF Works(r) THEN Fault ELSE UNCHANGED faults
    /\ lease' = [lease EXCEPT !.expired = TRUE]
    /\ UNCHANGED <<tree, index, runs, pc, local, latest>>

(* recover_latest_stale_run (scan --recover-stale-running) *)
Recoverable(r) ==
    /\ lease = [owner |-> r, expired |-> TRUE]
    /\ runs[r].status = "RUNNING"
    /\ \A q \in (r + 1)..MaxScans : runs[q].status # "RUNNING"
RecoverStale(r) ==
    /\ Recoverable(r)
    /\ Terminate(r, "INTERRUPTED")
    /\ UNCHANGED <<tree, faults, index, pc, local, latest>>

-----------------------------------------------------------------------------
Next ==
    \/ \E f \in Files : WriteFile(f) \/ RemoveFile(f) \/ RestoreFile(f)
    \/ \E r \in Scans :
         \/ Start(r) \/ (\E f \in Files : Discover(r, f)) \/ Reconcile(r)
         \/ Hash(r) \/ Save(r) \/ MarkMissing(r) \/ Finish(r)
         \/ Abort(r) \/ FencedOut(r) \/ Crash(r) \/ Expire(r) \/ RecoverStale(r)

Spec == Init /\ [][Next]_vars

-----------------------------------------------------------------------------
(* Properties *)

(* Every variable has its type; a record has an absence series exactly when *)
(* its file is MISSING or DELETED (the checks of core's FileRecord).        *)
TypeOK ==
    /\ disk \in [Files -> [content : Contents, here : BOOLEAN]]
    /\ changes \in 0..MaxChanges
    /\ faults \in 0..MaxFaults
    /\ records \in [Files -> [presence : {"NONE", "PRESENT", "MISSING", "DELETED"},
                              content : Contents, missing : 0..MaxScans]]
    /\ \A f \in Files :
         records[f].missing = 0 <=> records[f].presence \in {"NONE", "PRESENT"}
    /\ \A f \in Files : observations[f] \in
         Seq([run : Scans, content : Contents \ {0}, print : Contents])
    /\ runs \in [Scans ->
         [status : {"NOT_STARTED", "RUNNING", "COMPLETED", "INTERRUPTED"},
          events : [Files -> {"NONE", "NEW", "UNCHANGED", "MODIFIED",
                              "REAPPEARED", "MISSING", "DELETED"}]]]
    /\ lease \in [owner : 0..MaxScans, expired : BOOLEAN]
    /\ pc \in [Scans -> {"idle", "discover", "hash", "save", "finish", "ended"}]
    /\ unlisted \in [Scans -> SUBSET Files]
    /\ batch \in [Scans -> [Files -> Contents]]
    /\ hashed \in [Scans -> [Files -> Contents]]
    /\ absent \in SUBSET Files
    /\ skipped \in SUBSET Files

Last(f) == observations[f][Len(observations[f])]

(* ADR-0015, reuse_latest: while a file is as its latest observation saw    *)
(* it, that observation carries the hash of exactly this content or none;   *)
(* no crash between observing and hashing, resume or lost lease lets the    *)
(* hash of an earlier content slip in as that of an UNCHANGED file.         *)
LatestHashIsCurrent ==
    \A f \in Files :
        observations[f] # <<>> /\ Last(f).content = disk[f].content
          => Last(f).print \in {0, disk[f].content}

(* process_batch and mark_missing: a record counts exactly the scans that   *)
(* declared its file absent since the file was last seen, and whoever sees  *)
(* it, even a scan that then fails, ends the series.  A scan counts from    *)
(* its absence phase on, though it may fail after that or have left the     *)
(* path out by its filter: ADR-0013 counts successful full scans only (see  *)
(* SeriesCountsSuccessfulScans).                                            *)
DeclaredAbsent(f) == {r \in Scans : runs[r].events[f] \in {"MISSING", "DELETED"}}
SeriesSinceLastSeen ==
    \A f \in Files :
        observations[f] # <<>> =>
          records[f].missing =
            Cardinality({r \in DeclaredAbsent(f) : r > Last(f).run})

(* ADR-0013:28: a scan that fails or is interrupted cannot advance the      *)
(* series, hence between the scans it counts completed ones only.  The code *)
(* breaks it: mark_missing commits before relocation detection, the last    *)
(* heartbeats and finish_scan, any of which may fail.                       *)
SeriesCountsSuccessfulScans ==
    \A f \in Files :
        observations[f] # <<>> /\ (\A r \in Scans : runs[r].status # "RUNNING") =>
          records[f].missing =
            Cardinality({r \in DeclaredAbsent(f) :
                           r > Last(f).run /\ runs[r].status = "COMPLETED"})

(* mark_missing comes after the last batch (W2-003): a scan declares a file *)
(* absent that its own walk looked for only if the file was not there at    *)
(* some time between the start of the scan and that moment.  A file left    *)
(* out by the scan's --suffix filter has no such protection: mark_missing   *)
(* takes every record of the root, so the exception is the code's.          *)
AbsenceHasACause ==
    [][\A f \in Files :
         DeclaredAbsent(f)' # DeclaredAbsent(f) => f \in absent \cup skipped]_vars

(* start_scan, finish_scan and recover_latest_stale_run change run and      *)
(* lease together (ADR-0025): a RUNNING scan holds the lease, hence there   *)
(* is one at most, and the lease is never left to a scan that is over.      *)
RunningScanHoldsLease ==
    \A r \in Scans : runs[r].status = "RUNNING" <=> lease.owner = r

(* Once a run has its terminal status its process, dead or alive, adds no   *)
(* event and no observation to it any more (ADR-0025).                      *)
TerminalRunIsClosed ==
    [][\A r \in Scans :
         runs[r].status \in {"COMPLETED", "INTERRUPTED"} =>
           /\ runs'[r] = runs[r]
           /\ \A f \in Files :
                observations'[f] # observations[f] =>
                  observations'[f][Len(observations'[f])].run # r]_vars

=============================================================================
