-------------------------- MODULE CandidateHashing --------------------------
(***************************************************************************)
(* Full hashes for the files whose quick fingerprints collide              *)
(* (index/candidate_hashing.py, persistence/ebook_candidate_hash.py,       *)
(* ADR-0023).  A call of enrich() reads the latest completed scan, takes   *)
(* the root's write lease for a new run, or over from an expired run of    *)
(* the same kind, copies the colliding observations into a temporary       *)
(* table, and works through them in ordered batches: every file is         *)
(* compared with its observation, read, and compared again; the results    *)
(* and the progress are committed under the lease.  A keeper thread renews *)
(* the lease.  A later scan projects the hashes of unchanged files onto    *)
(* its own observations (index/hashing.py).                                *)
(*                                                                         *)
(* The bytes of a file come with the number of the change that wrote them; *)
(* this number stands for the size and time a stat shows.  A hash is the   *)
(* bytes it was computed from.  The scan is reduced to what the hashing    *)
(* sees of it: it lists every file, then hashes in one of the three modes  *)
(* of --hash, in one step each (IncrementalScan has the rest), and a scan  *)
(* that dies is closed as failed.  The lease row is its owner and whether  *)
(* it has expired (ScanRootLease).                                         *)
(***************************************************************************)
EXTENDS Integers, FiniteSets

CONSTANTS
    Files,       \* files below the root, by number: the order of their ids
    Bytes,       \* what a file may contain
    BytesOf,     \* file -> what it contains at first
    QuickOf,     \* bytes -> its quick fingerprint, a number
    Call,        \* calls of enrich()
    BatchSize,   \* batch_size
    Limit,       \* values of max_items
    MaxScans,    \* bound: scans
    MaxChanges,  \* bound: changes of files by others
    MaxFaults,   \* bound: crashes, interrupts, errors and expired leases
    Scanner,     \* the scanner as owner of the lease
    None

ASSUME HashingAssumption ==
    /\ Files \subseteq Nat /\ IsFiniteSet(Files)
    /\ BytesOf \in [Files -> Bytes]
    /\ QuickOf \in [Bytes -> Nat \ {0}]
    /\ None \notin Call \cup Bytes \cup {Scanner} /\ Scanner \notin Call
    /\ BatchSize \in Nat \ {0} /\ Limit \subseteq Nat \ {0}
    /\ MaxScans \in Nat /\ MaxChanges \in Nat /\ MaxFaults \in Nat

VARIABLES
    disk,     \* file -> its bytes, and the change that wrote them
    changes,  \* how often files were changed
    faults,   \* how many faults have happened
    scans,    \* how many scans were started
    scan,     \* scan -> status
    obs,      \* scan -> file -> what was listed (change 0: nothing)
    quick,    \* scan -> file -> its QUICK_FILE fingerprint, 0 if none
    full,     \* scan -> file -> its FILE_SHA256 rows: how many, which value,
              \* and (history) whether a scan or enrich() read the file
    lease,    \* the root's write lease
    run,      \* call -> status of its latest run
    source,   \* call -> source_scan_run_id of its latest run
    latest,   \* call -> the scan it has read as the latest
    counts,   \* call -> counters of its run
    pc,       \* call -> what it does next
    limit,    \* call -> max_items
    keeper,   \* call -> whether its keeper still renews the lease
    snap,     \* call -> the files its run has selected
    left,     \* call -> files after the cursor
    work      \* call -> file -> how far its hash is, and the value

tree == <<disk, changes>>
scanning == <<scans, scan, obs, quick>>
rows == <<run, source, counts, snap>>
process == <<latest, limit, keeper, left, work>>
vars == <<tree, faults, scanning, full, lease, rows, pc, process>>

Scans == 1..MaxScans
Running == {"RUNNING"}
Terminal == {"COMPLETED", "COMPLETED_WITH_FAILURES", "INTERRUPTED", "FAILED"}
Unlisted == [bytes |-> None, change |-> 0]
HashModes == {"none", "quick", "full"}
NoHash == [rows |-> 0, value |-> None, by |-> "nobody"]
NoWork == [f \in Files |-> [step |-> "none", value |-> None]]
NoCounts == [selected |-> FALSE, pending |-> 0, processed |-> 0, hashed |-> 0,
             failed |-> 0, remaining |-> 0]
Free == [owner |-> None, expired |-> FALSE]

Init ==
    /\ disk = [f \in Files |-> [bytes |-> BytesOf[f], change |-> 1]]
    /\ changes = 1
    /\ faults = 0
    /\ scans = 0
    /\ scan = [s \in Scans |-> "NOT_STARTED"]
    /\ obs = [s \in Scans |-> [f \in Files |-> Unlisted]]
    /\ quick = [s \in Scans |-> [f \in Files |-> 0]]
    /\ full = [s \in Scans |-> [f \in Files |-> NoHash]]
    /\ lease = Free
    /\ run = [h \in Call |-> "NONE"]
    /\ source = [h \in Call |-> 0]
    /\ latest = [h \in Call |-> 0]
    /\ counts = [h \in Call |-> NoCounts]
    /\ pc = [h \in Call |-> "idle"]
    /\ limit = [h \in Call |-> 0]
    /\ keeper = [h \in Call |-> FALSE]
    /\ snap = [h \in Call |-> {}]
    /\ left = [h \in Call |-> {}]
    /\ work = [h \in Call |-> NoWork]

TypeOK ==
    /\ disk \in [Files -> [bytes : Bytes, change : 1..(MaxChanges + 1)]]
    /\ changes \in 1..(MaxChanges + 1) /\ faults \in 0..MaxFaults
    /\ scans \in 0..MaxScans
    /\ scan \in [Scans -> {"NOT_STARTED", "RUNNING", "COMPLETED", "FAILED"}]
    /\ obs \in [Scans -> [Files -> [bytes : Bytes \cup {None}, change : 0..(MaxChanges + 1)]]]
    /\ quick \in [Scans -> [Files -> {0} \cup {QuickOf[b] : b \in Bytes}]]
    /\ full \in [Scans -> [Files -> [rows : Nat, value : Bytes \cup {None},
                                  by : {"nobody", "scan", "enrich"}]]]
    /\ lease \in [owner : Call \cup {Scanner, None}, expired : BOOLEAN]
    /\ run \in [Call -> Running \cup Terminal \cup {"NONE"}]
    /\ source \in [Call -> 0..MaxScans] /\ latest \in [Call -> 0..MaxScans]
    /\ \A h \in Call : LET c == counts[h] IN  \* EbookCandidateHashRun.__post_init__
         /\ c.selected \in BOOLEAN /\ c.hashed \in Nat /\ c.failed \in Nat
         /\ c.processed = c.hashed + c.failed
         /\ c.pending \in Nat /\ c.processed <= c.pending
         /\ c.remaining = c.pending - c.hashed
    /\ pc \in [Call -> {"idle", "acquire", "snapshot", "select", "next", "hash",
                        "finish", "failed", "interrupted"}]
    /\ limit \in [Call -> Limit \cup {0}] /\ keeper \in [Call -> BOOLEAN]
    /\ snap \in [Call -> SUBSET Files]
    /\ left \in [Call -> SUBSET Files]
    /\ work \in [Call -> [Files -> [step : {"none", "due", "open", "read", "ok", "failed"},
                                    value : Bytes \cup {None}]]]

Smaller(m, n) == IF m < n THEN m ELSE n
Goto(h, step) == pc' = [pc EXCEPT ![h] = step]
Fault == faults < MaxFaults /\ faults' = faults + 1

-----------------------------------------------------------------------------
(* Others write files at any time. *)

WriteFile(f, b) ==
    /\ changes <= MaxChanges
    /\ changes' = changes + 1
    /\ disk' = [disk EXCEPT ![f] = [bytes |-> b, change |-> changes + 1]]
    /\ UNCHANGED <<faults, scanning, full, lease, rows, pc, process>>

-----------------------------------------------------------------------------
(* The scanner. *)

StartScan ==
    /\ scans < MaxScans
    /\ lease = Free
    /\ lease' = [Free EXCEPT !.owner = Scanner]
    /\ scans' = scans + 1
    /\ scan' = [scan EXCEPT ![scans + 1] = "RUNNING"]
    /\ UNCHANGED <<tree, faults, obs, quick, full, rows, pc, process>>

ListFiles ==
    /\ lease.owner = Scanner /\ obs[scans] = [f \in Files |-> Unlisted]
    /\ obs' = [obs EXCEPT ![scans] = disk]
    /\ UNCHANGED <<tree, faults, scans, scan, quick, full, lease, rows, pc, process>>

(* reuse_latest: the scan with the latest earlier observation, if the file *)
(* is unchanged since and that observation has every hash of the mode.     *)
Reusable(s, f, mode) ==
    {t \in 1..(s - 1) :
        /\ mode # "none"
        /\ obs[t][f].change = obs[s][f].change
        /\ quick[t][f] # 0 /\ (mode = "full" => full[t][f].rows > 0)
        /\ \A u \in (t + 1)..(s - 1) : obs[u][f] = Unlisted}

(* calculate_hashes: what is on disk now, and nobody looks whether it still *)
(* is what was listed; an unreadable file gets no hash.                     *)
QuickHash(f, mode) == IF mode = "none" THEN 0 ELSE QuickOf[disk[f].bytes]
FullHash(f, mode) ==
    IF mode = "full" THEN [rows |-> 1, value |-> disk[f].bytes, by |-> "scan"]
    ELSE NoHash

(* The scan takes over the hashes of unchanged files, a full one too where  *)
(* there is one, computes the others, and completes.                        *)
HashAndFinish ==
    /\ lease.owner = Scanner /\ obs[scans] # [f \in Files |-> Unlisted]
    /\ \E mode \in HashModes, unreadable \in SUBSET Files :
         LET reused(f) == Reusable(scans, f, mode)
             from(f) == CHOOSE t \in reused(f) : TRUE
         IN /\ IF unreadable = {} THEN UNCHANGED faults ELSE Fault
            /\ quick' = [quick EXCEPT ![scans] = [f \in Files |->
                  IF reused(f) # {} THEN quick[from(f)][f]
                  ELSE IF f \in unreadable THEN 0 ELSE QuickHash(f, mode)]]
            /\ full' = [full EXCEPT ![scans] = [f \in Files |->
                  IF reused(f) # {} THEN [full[from(f)][f] EXCEPT !.rows = Smaller(@, 1)]
                  ELSE IF f \in unreadable THEN NoHash ELSE FullHash(f, mode)]]
    /\ scan' = [scan EXCEPT ![scans] = "COMPLETED"]
    /\ lease' = Free
    /\ UNCHANGED <<tree, scans, obs, rows, pc, process>>

FailScan ==
    /\ lease.owner = Scanner
    /\ Fault
    /\ scan' = [scan EXCEPT ![scans] = "FAILED"]
    /\ lease' = Free
    /\ UNCHANGED <<tree, scans, obs, quick, full, rows, pc, process>>

-----------------------------------------------------------------------------
(* The lease of a run. *)

LatestCompleted(s) == s = scans /\ s # 0 /\ scan[s] = "COMPLETED"

(* _latest_scan, read before the lease is asked for.  A dead call whose run *)
(* is still RUNNING does not come back under this name.                     *)
Enrich(h, n) ==
    /\ pc[h] = "idle" /\ run[h] # "RUNNING"
    /\ LatestCompleted(scans)
    /\ latest' = [latest EXCEPT ![h] = scans]
    /\ limit' = [limit EXCEPT ![h] = n]
    /\ Goto(h, "acquire")
    /\ UNCHANGED <<tree, faults, scanning, full, lease, rows, keeper, left, work>>

(* The memory of a call is gone with it. *)
Leave(h) ==
    /\ Goto(h, "idle")
    /\ latest' = [latest EXCEPT ![h] = 0]
    /\ limit' = [limit EXCEPT ![h] = 0]
    /\ keeper' = [keeper EXCEPT ![h] = FALSE]
    /\ left' = [left EXCEPT ![h] = {}]
    /\ work' = [work EXCEPT ![h] = NoWork]

(* _recover_candidate_owner: the expired owner is a run of the same kind    *)
(* that is still RUNNING.                                                   *)
Recoverable == lease.owner \in Call /\ lease.expired /\ run[lease.owner] = "RUNNING"

AcquirableWhenFree(h) == lease = Free /\ LatestCompleted(latest[h])
AcquirableForAnyScan(h) == lease = Free \/ Recoverable
Acquirable(h) == (lease = Free \/ Recoverable) /\ LatestCompleted(latest[h])

Interrupted(owner) ==
    IF owner \in Call THEN [run EXCEPT ![owner] = "INTERRUPTED"] ELSE run

Acquire(h) ==
    /\ pc[h] = "acquire"
    /\ \/ /\ Acquirable(h)
          /\ run' = [Interrupted(lease.owner) EXCEPT ![h] = "RUNNING"]
          /\ source' = [source EXCEPT ![h] = latest[h]]
          /\ counts' = [counts EXCEPT ![h] = NoCounts]
          /\ snap' = [snap EXCEPT ![h] = {}]
          /\ lease' = [owner |-> h, expired |-> FALSE]
          /\ keeper' = [keeper EXCEPT ![h] = TRUE]
          /\ Goto(h, "snapshot")
          /\ UNCHANGED <<latest, limit, left, work>>
       \/ /\ ~Acquirable(h)
          /\ Leave(h)
          /\ UNCHANGED <<lease, rows>>
    /\ UNCHANGED <<tree, faults, scanning, full>>

(* _require_root_owner and _owned_active_conditions *)
OwnedByOwnAccount(h) == keeper[h]
Owned(h) == lease = [owner |-> h, expired |-> FALSE] /\ run[h] = "RUNNING"

(* keeper.check() comes before every fenced write. *)
MayWrite(h) == keeper[h] /\ Owned(h)

-----------------------------------------------------------------------------
(* Selection: once per call, into a temporary table. *)

(* The record of a file is that of its latest listing. *)
IsCurrent(s, f) ==
    \A t \in Scans : t > s /\ obs[t][f] # Unlisted => obs[t][f] = obs[s][f]

Current(s) == {f \in Files : quick[s][f] # 0 /\ IsCurrent(s, f)}

Candidates(s) ==
    {f \in Current(s) : \E g \in Current(s) \ {f} : quick[s][g] = quick[s][f]}

PrepareSnapshot(h) ==
    /\ pc[h] = "snapshot"
    /\ snap' = [snap EXCEPT ![h] = Candidates(source[h])]
    /\ left' = [left EXCEPT ![h] =
                   {f \in Candidates(source[h]) : full[source[h]][f].rows = 0}]
    /\ Goto(h, "select")
    /\ UNCHANGED <<tree, faults, scanning, full, lease, run, source, counts,
                   latest, limit, keeper, work>>

RecordSelection(h) ==
    /\ pc[h] = "select"
    /\ IF MayWrite(h)
       THEN /\ counts' = [counts EXCEPT ![h] =
                 [NoCounts EXCEPT !.selected = TRUE, !.pending = Cardinality(left[h]),
                                  !.remaining = Cardinality(left[h])]]
            /\ Goto(h, "next")
       ELSE Goto(h, "failed") /\ UNCHANGED counts
    /\ UNCHANGED <<tree, faults, scanning, full, lease, run, source, snap, process>>

-----------------------------------------------------------------------------
(* Batches, ordered by quick value and observation id. *)

Before(s, f, g) ==
    quick[s][f] < quick[s][g] \/ (quick[s][f] = quick[s][g] /\ f < g)

First(s, S, n) == {f \in S : Cardinality({g \in S : Before(s, g, f)}) < n}

BatchLimit(h) == Smaller(BatchSize, limit[h] - counts[h].processed)

NextCandidates(h) ==
    /\ pc[h] = "next"
    /\ LET batch == First(source[h], left[h], BatchLimit(h))
       IN IF ~keeper[h] /\ counts[h].processed < limit[h]
          THEN Goto(h, "failed") /\ UNCHANGED <<left, work>>
          ELSE /\ work' = [work EXCEPT ![h] = [f \in Files |->
                             [step |-> IF f \in batch THEN "due" ELSE "none", value |-> None]]]
               /\ left' = [left EXCEPT ![h] = @ \ batch]
               /\ Goto(h, IF batch = {} THEN "finish" ELSE "hash")
    /\ UNCHANGED <<tree, faults, scanning, full, lease, rows, latest, limit, keeper>>

Hashes(h, f, step) == pc[h] = "hash" /\ work[h][f].step = step

Advance(h, f, step, value) ==
    /\ work' = [work EXCEPT ![h][f] = [step |-> step, value |-> value]]
    /\ UNCHANGED <<tree, faults, scanning, full, lease, rows, pc,
                   latest, limit, keeper, left>>

(* resolve_observed_file *)
AsObserved(h, f) == disk[f].change = obs[source[h]][f].change

OpenFile(h, f) ==
    /\ Hashes(h, f, "due")
    /\ IF AsObserved(h, f) THEN Advance(h, f, "open", None)
       ELSE Advance(h, f, "failed", None)

(* A file that is written while it is read is not AsObserved afterwards, so *)
(* what was read of it does not matter.                                     *)
ReadFile(h, f) == Hashes(h, f, "open") /\ Advance(h, f, "read", disk[f].bytes)

CloseFileUnchecked(h, f) ==
    Hashes(h, f, "read") /\ Advance(h, f, "ok", work[h][f].value)

CloseFile(h, f) ==
    /\ Hashes(h, f, "read")
    /\ IF AsObserved(h, f) THEN Advance(h, f, "ok", work[h][f].value)
       ELSE Advance(h, f, "failed", None)

(* An I/O error is isolated to its file. *)
FileFails(h, f) ==
    /\ \E step \in {"due", "open", "read"} : Hashes(h, f, step)
    /\ Fault
    /\ work' = [work EXCEPT ![h][f] = [step |-> "failed", value |-> None]]
    /\ UNCHANGED <<tree, scanning, full, lease, rows, pc, latest, limit, keeper, left>>

InBatch(h, step) == {f \in Files : work[h][f].step = step}

(* Progress and fingerprints are one transaction. *)
Insert(h) ==
    full' = [full EXCEPT ![source[h]] = [f \in Files |->
                IF f \in InBatch(h, "ok")
                THEN [rows |-> @[f].rows + 1, value |-> work[h][f].value,
                      by |-> "enrich"]
                ELSE @[f]]]

CountProcessed(h) ==
    LET ok == Cardinality(InBatch(h, "ok"))
        bad == Cardinality(InBatch(h, "failed"))
    IN counts' = [counts EXCEPT
                    ![h].processed = @ + ok + bad, ![h].hashed = @ + ok,
                    ![h].failed = @ + bad, ![h].remaining = @ - ok - bad]

Count(h) ==
    LET ok == Cardinality(InBatch(h, "ok"))
        bad == Cardinality(InBatch(h, "failed"))
    IN counts' = [counts EXCEPT
                    ![h].processed = @ + ok + bad, ![h].hashed = @ + ok,
                    ![h].failed = @ + bad, ![h].remaining = @ - ok]

CommitBatch(h) ==
    /\ pc[h] = "hash"
    /\ \A f \in Files : work[h][f].step \in {"none", "ok", "failed"}
    /\ IF MayWrite(h)
       THEN Count(h) /\ Insert(h) /\ Goto(h, "next")
       ELSE Goto(h, "failed") /\ UNCHANGED <<counts, full>>
    /\ work' = [work EXCEPT ![h] = NoWork]
    /\ UNCHANGED <<tree, faults, scanning, lease, run, source, snap,
                   latest, limit, keeper, left>>

-----------------------------------------------------------------------------
(* The end of a run. *)

Outcome(h) ==
    IF counts[h].failed > 0 THEN "COMPLETED_WITH_FAILURES"
    ELSE IF counts[h].remaining > 0 THEN "INTERRUPTED" ELSE "COMPLETED"

End(h, status) ==
    /\ run' = [run EXCEPT ![h] = status]
    /\ lease' = Free

Finish(h) ==
    /\ pc[h] = "finish"
    /\ IF MayWrite(h)
       THEN End(h, Outcome(h)) /\ Leave(h)
       ELSE Goto(h, "failed") /\ UNCHANGED <<run, lease, process>>
    /\ UNCHANGED <<tree, faults, scanning, full, source, counts, snap>>

(* After an error or an interrupt; says nothing if the lease is lost.       *)
AbandonOwned(h) ==
    /\ pc[h] \in {"failed", "interrupted"}
    /\ IF Owned(h)
       THEN End(h, IF pc[h] = "failed" THEN "FAILED" ELSE "INTERRUPTED")
       ELSE UNCHANGED <<run, lease>>
    /\ Leave(h)
    /\ UNCHANGED <<tree, faults, scanning, full, source, counts, snap>>

-----------------------------------------------------------------------------
(* What may go wrong. *)

Works(h) == pc[h] \in {"snapshot", "select", "next", "hash", "finish"}

Interrupt(h) ==
    /\ Works(h)
    /\ Fault
    /\ \E step \in {"failed", "interrupted"} : Goto(h, step)
    /\ UNCHANGED <<tree, scanning, full, lease, rows, process>>

Crash(h) ==
    /\ pc[h] # "idle"
    /\ Fault
    /\ Leave(h)
    /\ UNCHANGED <<tree, scanning, full, lease, rows>>

HeartbeatFails(h) ==
    /\ Works(h) /\ keeper[h]
    /\ \/ Fault
       \/ ~Owned(h) /\ UNCHANGED faults
    /\ keeper' = [keeper EXCEPT ![h] = FALSE]
    /\ UNCHANGED <<tree, scanning, full, lease, rows, pc, latest, limit, left, work>>

Renewed(h) == Works(h) /\ keeper[h]

(* Nobody renews the lease for half an hour; suspending a call for so long  *)
(* is a fault.                                                              *)
LeaseExpires ==
    /\ lease.owner \in Call /\ ~lease.expired
    /\ \/ ~Renewed(lease.owner) /\ UNCHANGED faults
       \/ Renewed(lease.owner) /\ Fault
    /\ lease' = [lease EXCEPT !.expired = TRUE]
    /\ UNCHANGED <<tree, scanning, full, rows, pc, process>>

-----------------------------------------------------------------------------
Hash(h) ==
    \E f \in Files : OpenFile(h, f) \/ ReadFile(h, f) \/ CloseFile(h, f)

Step(h) ==
    \/ Acquire(h) \/ PrepareSnapshot(h) \/ RecordSelection(h)
    \/ NextCandidates(h) \/ Hash(h) \/ CommitBatch(h)
    \/ Finish(h) \/ AbandonOwned(h)

Next ==
    \/ \E f \in Files, b \in Bytes : WriteFile(f, b)
    \/ StartScan \/ ListFiles \/ HashAndFinish \/ FailScan
    \/ \E h \in Call :
         \/ \E n \in Limit : Enrich(h, n)
         \/ Step(h)
         \/ \E f \in Files : FileFails(h, f)
         \/ Interrupt(h) \/ Crash(h) \/ HeartbeatFails(h)
    \/ LeaseExpires

Spec == Init /\ [][Next]_vars

(* A call and a scan that live go on; a lease that nobody renews runs out   *)
(* before its row is asked for again and again; the operator repeats the    *)
(* command, with each of the limits, whenever there is something to read.   *)
Fairness ==
    /\ \A h \in Call :
         WF_vars(Step(h)) /\ \A n \in Limit : SF_vars(Enrich(h, n))
    /\ WF_vars(ListFiles) /\ WF_vars(HashAndFinish)
    /\ WF_vars(lease.owner \in Call /\ ~Renewed(lease.owner) /\ LeaseExpires)

FairSpec == Spec /\ Fairness

-----------------------------------------------------------------------------
(* A full hash that enrich() has stored, of whatever run, is the hash of    *)
(* what was listed, although files change before, while and after they are  *)
(* read (candidate_hashing.py _hash_batch), and stays so where a later scan *)
(* projects it (hashing.py reuse_latest): equal ones are equal files.  A    *)
(* scan with --hash full does not look again after reading (calculate): it  *)
(* may store the hash of later bytes, but then the file is no longer as     *)
(* listed, for good, and no later scan takes the hash for a file that is.   *)
FullHashIsOfTheListing ==
    \A s \in Scans, f \in Files :
        full[s][f].rows > 0 =>
            \/ full[s][f].value = obs[s][f].bytes
            \/ full[s][f].by = "scan" /\ disk[f].change # obs[s][f].change

(* No constraint keeps a second FILE_SHA256 row from an observation; only   *)
(* the lease and the snapshot do, across crashes and takeovers.             *)
OneFullHashPerObservation ==
    \A s \in Scans, f \in Files : full[s][f].rows <= 1

(* While a run has the lease, its persisted counters agree with the         *)
(* evidence: what remains is exactly what of its selection has no hash.     *)
ProgressIsTrue ==
    \A h \in Call : lease.owner = h /\ counts[h].selected =>
        counts[h].remaining =
            Cardinality({f \in snap[h] : full[source[h]][f].rows = 0})

(* As long as a run has the lease, expired or not, its scan is the latest,  *)
(* though the call read it before it asked for the lease.                   *)
SourceStaysLatest ==
    lease.owner \in Call => LatestCompleted(source[lease.owner])

Confirmed(s, f) == full[s][f].rows > 0 \/ disk[f].change # obs[s][f].change

(* Whatever crashes, is interrupted or loses its lease, the operator who    *)
(* repeats the command gets every collision confirmed that still is one.    *)
CollisionsGetConfirmed ==
    <>[](scans # 0 /\ scan[scans] = "COMPLETED" =>
            \A f \in Candidates(scans) : Confirmed(scans, f))
=============================================================================
