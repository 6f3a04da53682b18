# FolioTone in TLA+

FolioTone keeps an index of directory trees full of e-books ("scan roots"), derives
evidence and plans from it, and carries a few authorized plans out on the file
system. It is a local program: SQLite is the only store, every command is a process,
several of them may run at once, and any of them may be killed between two
transactions. This directory models the parts of the program where that matters: the
write lease of a root, the incremental index, the hashing of colliding files, the
resumable collection runs, the jobs of the local surface, and the three operations
that change files: rename, quarantine and metadata write.

Paths below are relative to the repository; `src/foliotone/` is the package.

- [Inventory](#inventory)
- [The modules](#the-modules)
- [What the runs check](#what-the-runs-check)
- [Where documents and code disagree](#where-documents-and-code-disagree)
- [What is proved](#what-is-proved)
- [What is not modelled](#what-is-not-modelled)
- [Plan](#plan)
- [Running it](#running-it)

## Inventory

Everything that follows shares one SQLite database (WAL, `BEGIN IMMEDIATE` or an
implicit transaction at the first write, a busy timeout) and one rule: whoever changes
what the index says about a root, or the root itself, holds the root's *write lease*
and passes its *fence* in every transaction.

### Parts with a protocol

| part | state | operations | what makes it hard | what makes it correct |
|---|---|---|---|---|
| **scan-root write lease** `persistence/scan_root_lease.py` | one row per root: owner kind, run, random token, fence epoch, times of acquisition, heartbeat and expiry; a proof object in the owner's memory | `acquire`, `current`, `takeover_expired`, `heartbeat`, `fence` / `fence_scoped_write`, `release` | the clock is read before the transaction has the write lock; a takeover is decided on an old read; owners die; tokens may repeat | one writer at a time; a writer that lost the root never writes again; the row can always be read back; a dead owner's lease is recovered |
| **e-book rename** `ebook_rename/`, `persistence/ebook_rename.py`, `workflows/ebook_rename_operation.py` | a plan, an authorization (15 min), a run with an append-only journal of at most 16 events, the two directory entries, a reconciliation that cites a later scan | `prepare`, `authorize`, `execute`, `recover`, `status`; inside: gate, `renameat2(RENAME_NOREPLACE)`, verification, reverse rename, scan handoff, reconciliation | the rename and its journal entry are not atomic; crash, lost lease and failing transactions anywhere; two callers; the verdict depends on a scan of the index | the journal never claims a wrong place; one forward rename; the verdict agrees with disk and index; every run ends |
| **incremental index** `index/scanner.py`, `store.py`, `hashing.py`, `deletion.py`, `discovery.py` | scan runs, file records with presence and absence series, observations with fingerprints, one event per path and run; in memory the walk, the batch and its hashes | `scan` (start, discover, `process_batch`, hash, `save_many`, `mark_missing`, `finish_scan`), failure clean-up, `--recover-stale-running`, `--resume` | the tree changes while it is walked; listing, recording and hashing are three moments and two transactions; a scan can fail, die or be fenced out between any two | a path is declared absent only if it was, or if the scan's filter left it out; a hash belongs to its observation; a finished run is never written again |
| **candidate hashing** `index/candidate_hashing.py`, `persistence/ebook_candidate_hash.py` | run with counters, a temporary table of selected observations, `FILE_SHA256` rows, a reason per failure | `enrich`: latest scan, acquire or take over, select, hash a batch, commit a batch, finish, interrupt; a keeper thread | a batch is computed outside the transaction that stores it; files change while they are read; the scan is read before the lease is asked for | a full hash is of what was listed, stored once; counters agree with the evidence; every collision is confirmed in the end |
| **e-book and archive collection run** `workflows/collection.py`, `archive_collection.py`, `archive_collection_plan.py` and their stores | run with its plan of items, an attempt number per item, the listing graph of an archive | create or plan in batches, seal, claim a wave, complete an item, finish, fail, resume | a resumed run competes with the invocation it replaces; a graph is stored before its item is completed | an item carries the result of its last attempt; the verdict of a run is true of its items |
| **local surface** `surface/`, `persistence/surface.py`, `application/` | sessions and grants, jobs under an idempotency key with a claim lease, result rows, command receipts | request, claim, heartbeat, work, complete, fail, abandon | workers die; requests are repeated while the first is under way; a keeper thread loses the lease while the worker works | a key has one job; a job has one worker; success is backed; the worker's last word is true |
| **interim quarantine** `quarantine/`, `persistence/quarantine.py`, `workflows/quarantine_operation.py` | authorization, run journal, candidate's path and opaque target path | `authorize`, `execute`, `recover` by inspecting both places | `os.rename` after a separate absence check, with a fence that compares an old time | an authorization is used once; a success has the candidate at its target; nothing moves without a record; every run ends and frees the root |
| **metadata write** `metadata_write/`, `persistence/metadata_write.py`, `workflows/metadata_write_operation.py` | authorization, run journal, backend binding, three directory entries (book, draft, preserved original), reconciliation | `execute` (stage, draft, exchange, preserve, read back), `recover` (synchronize the journal, undo), reconcile | every file step is outside of a transaction, and exchanging twice is exchanging back | the original survives; the verdict is what the directory shows; a restored book gets indexed |
| **relocation detection** `index/relocation.py` | candidates: a MISSING and a NEW event of one scan with the same hash and size | one transaction at the end of a scan | the two events may end up in different scans | no candidate without evidence |
| **archive extraction** `archive/`, `persistence/archive.py` | sandbox process, quota slots, manifest | inspect, extract | slots at their limit, processes that die with one | slots are returned |
| **fixity** `fixity/`, `persistence/fixity*.py`, `workflows/fixity_*.py` | baseline and verification runs bound to a snapshot, results in batches | start, append batch, finish, interrupt | a batch is written again after a lost answer | no result doubled or altered |
| **provider cache and enrichment** `enrichment/`, `persistence/provider_cache_store.py` | entries by key with a generation, totals | look up, replace, evict | compare-and-replace under a capacity limit | limits hold, no older generation wins |

### Parts without one

Consolidation planning, collection state and library health, metadata corrections and
operation recipes, review / matching / authority / classification, the e-book analysis
pipelines, the calibre capture, the tool runtime, the command line and its reports,
and the domain model with its schema and codecs. They compute immutable values from
immutable inputs, or run an external tool once; `PROJECT.json` lists each with its
sources and the reason it is left out.

### How they interact

A **scan**, a **rename**, a **metadata write**, a **quarantine**, a **candidate hash
run** and a **collection run** each own the root's lease while they work; that is what
keeps them apart. A rename and a metadata write start from a *plan* bound to the latest
completed scan, release the lease at their handoff, run a scan (or use one that somebody
else ran), and take the lease again to record the verdict. A scan that somebody else
runs may be of any kind: with full hashes, quick ones (the default) or none, of all
files or of those with some suffixes. Hashes that a candidate hash run stores are
projected onto the observations of later scans. The jobs of the surface call the
rename's `execute` and `recover` in a worker process. Fixity and the planners read the
index through snapshots of completed scans.

## The modules

| module | models | proofs |
|---|---|---|
| `ExclusiveWriter` | what a lease promises: holders, retired writers, a log of commits | in `ScanRootLease_proofs` |
| `ScanRootLease` | the row, the proofs and every operation of `SQLiteScanRootWriteLeaseStore` | `ScanRootLease_proofs` |
| `EbookRename` | one authorized rename with its journal, its callers, its scans and its environment | `EbookRename_proofs` |
| `IncrementalScan` | repeated scans of one root over a changing tree | `IncrementalScan_proofs` |
| `CandidateHashing` | calls of `enrich` between scans of files that change | `CandidateHashing_proofs` |
| `CollectionRuns` | e-book and archive runs that contend for one root | `CollectionRuns_proofs` |
| `SurfaceJobs` | requests, grants, jobs, workers and keepers, and what the jobs do | `SurfaceJobs_proofs` |
| `Quarantine` | calls of `execute` and `recover` for one candidate | `Quarantine_proofs` |
| `MetadataWrite` | calls of `execute` and `recover` for one EPUB | `MetadataWrite_proofs` |
| `MC...` | the constants of the instances TLC checks | |

In each module, an operator whose name extends another one's (`AcquirableWhileFresh`
beside `Acquirable`, `OwnedConditionsWithoutEpoch` beside `OwnedConditions`) is a
deliberately broken variant that no specification uses: `PROJECT.json` names, for each
property of a passing run, the variant that violates it, so that it is known that the
property can fail.

Only `ScanRootLease` has the whole lease row. The other modules keep of it what they
can tell apart, the owner, the holder of its proof and whether it has expired, and rely
on what is proved about the row: one holder, and no write of a former one.
`CollectionRuns` keeps the epoch too, since its run rows repeat the token.

### ScanRootLease and ExclusiveWriter

`row` is the row of `scan_root_write_leases`, `proof[o]` the
`OwnedScanRootWriteLease` that invocation `o` keeps, `seen[o]` what its last
`current()` returned, `now` the clock and `log` the owner of each committed fenced
transaction. An *owner* is one acquisition attempt, so a process that acquires twice
is two owners; `RunOf`, `KindOf` and `TokenOf` say what the attempt writes. Nothing
makes tokens distinct: the store relies on the epoch, and so must the model.

Every operation is one SQLite transaction whose first statement is a conditional
`UPDATE` with a row count check, hence one action whose guard is the `WHERE` clause
(`OwnedConditions`, `TakeoverExpired`). What the transaction does not cover is
modelled: it carries a time `t` read up to `MaxDelay` earlier (`Readings`), and
`TakeoverExpired` works with the possibly stale copy `seen[o]`. `Heartbeat` includes
the validation that `replace()` does inside the transaction, which rolls a too early
heartbeat back. `Recoverable` are the owner kinds for which some workflow calls
`takeover_expired`; the two `*_PREPARATION` kinds are not among them.

`ExclusiveWriter` knows neither time nor tokens. The refinement maps the row's holder
to `holders` and every proof the row no longer confirms to `retired`.

### EbookRename

One run of one authorization, from `execute` to the terminal event. `place` says what
the two names denote (the book, another file, nothing) and `rec` what the index says
of them; `events` is the journal; `job[p]` the program counter of the call process `p`
is executing; `scan` the running scan of the root and `scans` what the completed ones
after the handoff saw.

| actions | code |
|---|---|
| `Begin`, `AcquireRunLease`, `CreateRun`, `Dispatch`, `Close` | `execute` and `recover` of the operator, `_acquire_run_lease`, `create_run`, the `finally` block |
| `Gate`, `RenameForward`, `JournalRelocated`, `VerifyForward` | `execute_ebook_file_rename` and `LinuxRenameSession.rename_forward` |
| `Recover`, `RenameReverse`, `JournalReversed`, `VerifyReverse`, `JournalManual` | `_recover_session`, the matrix of journal and physical state |
| `HandOff`, `Reconcile`, `Confirm`, `Proves` (`Shows`: what a scan saw, `Indexed`: what the records say) | handoff, `SQLiteEbookRenameReconciler`, `record_reconciliation` |
| `ForeignScan`, `ListFiles`, `MarkMissing`, `FinishScan`, `FailScan`, `KillScan`, `RecoverStaleScan` | the scans, reduced to the two names |
| `Crash` (at any step, in the handoff scan too), `ExpireLease`, `ExpireAuthorization`, `Meddle`, `...Fails`, `DbFault` | the environment and every error path |

A check and the single transaction after it are one action. The system call is not: it
is an action of its own, because nothing fences it. `AppendEvent` admits the
successors of `_TRANSITIONS` and passes the fence; a refused fence ends the call, any
other failure goes through the executor's exception handlers.

The operator scans with full hashes; another user's scan has one of `ForeignModes`:
`"full"`, `"quick"` (also what a scan without hashes shows here: no full hash), or
`"narrow"`, a scan of files with other suffixes, which lists neither name (a rename keeps
the suffix) and whose `MarkMissing` declares both missing all the same, since
`mark_missing` takes every record of the root. The field `skipped` of a record is
history: such a scan was the last to declare it missing. Preparation, capability
probe and authorization are in the initial state: they leave nothing half done on disk.

### IncrementalScan

`disk` is the tree, `records`, `observations` and `runs` the index, `lease` the owner
and whether it has expired, `pc`, `unlisted`, `batch` and `hashed` what the process of
a run holds in memory. A content is a number that grows with each write of a path; a
hash is the content it was computed from. Two history variables speak of the latest run:
`absent` holds the paths that were gone at some moment of it, `skipped` those its suffix
filter leaves out. `Filters` are the sets of paths a scan may list: all, or what some
`--suffix` admits. The filter belongs to a scan and not to the root, so consecutive scans
of one root may have different ones.

| actions | code |
|---|---|
| `Start`, `Finish`, `Abort`, `RecoverStale` | `start_scan`, `finish_scan`, `_finish_after_error`, `recover_latest_stale_run`: run and lease in one transaction |
| `Discover` | one file of the directory walk that passes the filter; the listing is what is there at that moment |
| `Reconcile` | `process_batch` with `_reconcile_file`: events, records, observations |
| `Hash`, `Save` | `_hash_changed` up to its save, in any hash mode and with files it cannot read; `save_many`; `Reusable` is `reuse_latest` |
| `MarkMissing` | `mark_missing` with the deletion policy, a transaction of its own, over all records of the root, whatever the filter |
| `FencedOut`, `Crash`, `Expire` | loss of the root, death, suspension |
| `WriteFile`, `RemoveFile`, `RestoreFile` | people, at any moment |

Three assumptions: a write changes the size or the time a listing shows; a path never
returns to an earlier content; a file is read at one moment. The last one hides a
hazard (a file changed while it is read), which `PROJECT.json` lists as not covered
here; `CandidateHashing` does have it.

### CandidateHashing

`disk[f]` is a file's bytes and the number of the change that wrote them, which stands
for the size and time of a `stat`; `obs`, `quick` and `full` are the observations of
each scan with their fingerprints, `full` counting the `FILE_SHA256` rows and, as history,
saying whether a scan or `enrich` read the file; `run`,
`source`, `counts` and `snap` are the rows of a call's run, `left` and `work` the
cursor and the open batch in memory, `keeper` whether the heartbeat thread still runs.

| actions | code |
|---|---|
| `Enrich`, `Acquire` | `_latest_scan`, then the lease for a new run; `Recoverable` is `_recover_candidate_owner` |
| `PrepareSnapshot`, `RecordSelection` | the temporary table of candidates, the counters of the run |
| `NextCandidates`, `OpenFile`, `ReadFile`, `CloseFile`, `FileFails` | `_hash_batch`: compare with the observation, read, compare again, isolate errors |
| `CommitBatch` | fingerprints and progress in one transaction under `MayWrite` |
| `Finish`, `AbandonOwned`, `Interrupt`, `Crash`, `HeartbeatFails` | the ends of a run, the keeper |
| `StartScan`, `ListFiles`, `HashAndFinish`, `FailScan`, `WriteFile` | scans with `--hash none`, `quick` or `full`, which project the hashes of unchanged files (`reuse_latest`) and compute the others, and people |

`enrich` compares a file with its observation before and after it reads it. A scan with
`--hash full` does not: `calculate` stores the hash of whatever is there after the
listing. `FullHashIsOfTheListing` says what remains true of such a hash.

### CollectionRuns

`owner`, `epoch` and `expired` are the lease, `status`, `sealed` and `token` the row of
a run, `item`, `attempt` and `bound` those of its items, `listed` and `unlisted` the
graphs an archive has in the store (named by the epoch they were written under),
`hand`, `doing` and `found` what an invocation has in memory, `resultOf` a history of
the attempt a result was computed in.

| actions | code |
|---|---|
| `StartEbook`, `StartArchive` | `create_run` with its whole plan, `create_planning_run` |
| `AppendPlanBatch`, `PlanDrifts`, `SealPlan`, `FailPlanning`, `FinishPlanning` | `append_plan_batch`, `seal_plan` and the error paths of planning |
| `ReadRun`, `Resume`, `ResumeFails` | `acquire_resume`: the read before the first write, then the rest; `Reopen` writes back the row as it was read |
| `ClaimPending`, `CompleteEbookItem` | a wave of pending items and the threads that end in any order |
| `Prepare`, `StoreGraph`, `StoreFails`, `CompleteArchiveItem` | `_prepare_item`, `create_or_get`, the completion of exactly the claimed attempt |
| `FinishInvocation`, `FailInvocation`, `Refused`, `Stops` | `Verdict`, `fail_invocation`, a write refused after the lease was lost, death |
| `Heartbeat`, `LeaseExpires` | the keeper thread, time |

`Holds` is the fence as the code has it. Its clock is read before the transaction, so
the expiry never stops an owner that nobody has replaced: the token does.

### SurfaceJobs

`asked` and `answer` are the requests, `status`, `by`, `lease` and `under` the job rows
(a job is named by the request that inserted it), `queue` their order, `results` the
result rows, `grants` the OPERATE grants, `rename` and `root` what the operator jobs
see of the rename behind them, `pc`, `claim`, `keeper` and `says` the workers.

| actions | code |
|---|---|
| `LookUpFixityJob`, `InsertFixityJob`, `RequestRename` | `enqueue_ebook_fixity_analysis_job` (a SELECT, then a write), `enqueue_rename_job` |
| `ReauthenticateToOperate`, `GrantEnds` | `rotate_session`, `create_grant`, time and logout |
| `SelectJob`, `ClaimJob` | `claim_next_job`: look for a job, then take the row if it still waits |
| `DoFixityWork`, `CompleteFixityJob`, `FailFixityJob`, `Abandon` | `run_analysis_worker` with `terminalize_failure` |
| `CheckGrant`, `EnterRename`, `RepeatResult`, `RefuseRename`, `PrepareRun`, `MoveBook`, `DecideRename`, `RenameFails`, `RecordResult`, `CompleteRenameJob`, `ReportRenameError` | `run_operator_worker` and the call it makes |
| `HeartbeatRefused`, `HeartbeatFails`, `LeaseLapses`, `LeaseLapsesUnderWorker`, `WorkerDies` | the keeper thread, time and death |

### Quarantine

`row` is the lease, `journal[e]` the last event of the run of call `e`, `src` and
`tgt[a]` what is at the candidate's path and at the target of authorization `a`, `phys`
what a recovery's last inspection found. `moved` and `outlived` are histories.

| actions | code |
|---|---|
| `Authorize`, `AuthorizationExpires`, `Confirm` | `authorize`, the confirmation of `execute` |
| `AcquireRunLease`, `Revalidate`, `Prepare` | `_acquire_run_lease`, the second reading of the material, `create_confirmed_prepared_run` |
| `Check`, `Move`, `AppendMoved`, `Verify`, `AppendVerified`, `AppendCompleted`, `AppendInvalid`, `AppendReview` | `quarantine/executor.py`, `os.rename` an action of its own |
| `StartRecovery`, `AcquireRecoveryLease`, `Reread`, `Inspect`, `InspectAgain`, `AppendRecovered`, `FreeTerminalLease` | `recover` and `quarantine/recovery.py` |
| `ExecutorRelease`, `RecoveryRelease`, `ExecutorCrash`, `RecoveryCrash`, `LeaseExpires`, `Meddle` | the ends, the environment |

`ExecutorFence` has no expiry: the executor fences with the time of its confirmation,
which is before its lease was granted.

### MetadataWrite

`source`, `draft` and `recovery` are the three entries, `Classify` what
`LinuxMetadataWriteSession.classify` makes of them; `status` and `journal` are the last
event and all of them, `recon` the reconciliation, `index` and `scanned` what the scans
saw. `readBack`, `strayed` and `meddled` are histories.

| actions | code |
|---|---|
| `StartExecute`, `AcquireRunLease`, `AcquireNewLease`, `CreateRun`, `Dispatch` | `execute` up to the executor; a call that draws a run id has nothing to take over |
| `BindBackend`, `Stage`, `DraftGate`, `CreateDraft`, `CopyOutput`, `Prepare` | the staged output and its draft beside the book |
| `ExchangeGate`, `Exchange`, `JournalExchanged`, `PreserveGate`, `PreserveOriginal`, `ReadBack`, `JournalPreserved` | the exchange, the preserved original, the post-write verification |
| `HandleFailure`, `Settle`, `Synchronize`, `RestoreGate`, `Unpreserve`, `SwapBack`, `JournalRecovered`, `JournalManual` | the failure handler and `_recover_session`, shared by `execute` and `recover` |
| `HandOff`, `Reconcile`, `ReacquireLease`, `Confirm`, `ForeignScan` | `SQLiteMetadataWriteReconciler`, `record_reconciliation`, scans |
| `StartRecover`, `AcquireRecoveryLease`, `RecoverRun`, `Release` | `recover` |
| `Crash`, `LeaseExpires`, `AuthorizationExpires`, `Meddle` | the environment |

## What the runs check

Every passing run explores its state space completely. The models are finite because
of the bounds named in their constants; with a bound used up a model may stop, so
deadlock is not checked (the programs modelled end, too).

| run | instance | distinct states |
|---|---|---|
| `scan_root_lease` | attempts `a`, `b` of the same run with the *same* token, `c` of a kind without recovery; lease time 2, delay 1, epoch limit 2, clock to 4, 3 writes | 136 thousand |
| `ebook_rename` | two interchangeable callers, 2 faults among crash / lost lease / failing system call, one foreign change of a name, one foreign scan of any mode | 1.06 million |
| `ebook_rename_faults` | two callers, 2 faults of all six kinds (crash / lost lease / failing scan / transaction / system call / hash), one foreign scan of any mode, no foreign change; with fairness | 476 thousand |
| `incremental_scan` | two interchangeable files, three scans in batches of one, each of all files or with a filter that admits neither, two changes of the tree, one fault | 1.52 million |
| `candidate_hashing` | two calls, two files that collide, two scans of any hash mode, batches of one, one change of a file, one fault; with fairness | 738 thousand |
| `collection_runs` | an e-book run of two items, an archive run of one, two processes, waves of up to two, three grants; processes stop and leases expire without a bound of their own; with fairness | 385 thousand |
| `surface_jobs` | one analysis and two operator workers; two fixity requests with one key, or an execute request with its retry, or an execute and a recover request; two grants, two faults; with fairness | 177 thousand |
| `quarantine` | two calls that confirm one authorization, one recovering operator, two faults, one change of the directories by others; with fairness | 96 thousand |
| `metadata_write` | two calls, one recovering operator, two faults (crashes, suspensions, failing calls and transactions, foreign scans and changes, an authorization that expires); with fairness | 461 thousand |
| `absence_of_failed_scan` | two scans of both files or of one of them, one change, one fault; ends in a counterexample | |
| `metadata_unvalidated` | the instance of `metadata_write`; ends in a counterexample | |
| `hash_limited` | one call with `max_items` 1, no fault; ends in a counterexample | |

| run | properties | what they say |
|---|---|---|
| `scan_root_lease` | `StaleOwnerNeverWrites`, `ImplementsExclusiveWriter` | in the log of fenced transactions the commits of an owner are contiguous, whatever tokens repeat and clocks lag |
| | `AbandonedLeaseIsRecovered` | a dead owner's lease is taken over in the end |
| `ebook_rename` | `JournalTellsWhereTheBookIs`, `OneForwardRename`, `NoMutationAfterTerminal` | journal and directory agree; one forward rename per authorization; a terminal run moves nothing |
| | `IndexNeverSeesAnUndecidedRename` | no scan records a state that is about to be undone |
| `ebook_rename_faults` | `IndexAgreesWithVerdict` | the verdict agrees with the index then and after every later scan, but for a record a narrowed scan declares missing |
| | `EveryRunIsDecided` | an operator who repeats `recover` brings every journalled rename to a terminal status, or it is in one of two named dead ends |
| `incremental_scan` | `LatestHashIsCurrent`, `SeriesSinceLastSeen`, `AbsenceHasACause` | a hash belongs to its observation; the absence series counts the scans that declared absence since somebody saw the file; nothing present that the scan looked for is declared absent |
| `candidate_hashing` | `FullHashIsOfTheListing`, `OneFullHashPerObservation`, `SourceStaysLatest`, `ProgressIsTrue` | equal full hashes that `enrich` stored are equal files, and those of a scan are as long as the file is as listed; none is stored twice; a run that owns the root works on the latest scan; its counters are the evidence's |
| | `CollisionsGetConfirmed` | a command that is repeated confirms every collision that still is one |
| `collection_runs` | `ResultIsOfTheLastAttempt`, `ResultsAreBacked`, `FinalStatusIsTrue` | what an item ended with was computed in its last attempt; a finished archive item refers to a stored graph of its kind; the verdict of a run is true |
| | `EveryInvocationEnds` | also one that lost its lease in the middle |
| `surface_jobs` | `OneWorkerPerJob`, `SuccessIsBacked`, `AnalysisWorkerTellsTheTruth` | a job is worked on by one process ever; SUCCEEDED has its result, and a rename's result a decided run; the last word is true |
| | `LiveAnalysisWorkerReports` | a worker that is not killed brings its job to an end or says that it could not |
| `quarantine` | `SuccessMeansQuarantined`, `NothingMovedWithoutARecord`, `AuthorizationIsUsedOnce` | success has the bytes at the target; what was moved is recorded; two calls that both confirmed move one file |
| | `EveryRunEnds`, `EndedRunFreesTheRoot` | a persisted run ends and does not block its root |
| `metadata_write` | `OriginalSurvives`, `VerdictMatchesTheFiles` | the original bytes stay under one of the three names; the verdict is what the names hold |
| | `EveryRunEnds`, `RestoredIsIndexed` | a run ends; the index is not left with an output that was undone |

Each module's run also checks its `TypeOK`; for `Quarantine` and `CollectionRuns` the
theorem `TypeCorrect` says it instead.

**Bounds.** Two owners with one token and an epoch limit of two are the smallest ABA
case, a third of another kind lets the root change hands without takeover, and a clock
of 4 with lease time 2 lets a lease be renewed, expire and be taken over while a
delayed transaction is pending. For the rename, the hard cases need one crash and one
lost lease, a lost lease and a failing call, or two failures that add up, as a failing
transaction and a failing clean-up (2 faults); one foreign scan is the least that can
take a rename's evidence away. Three scans are the least for which
a hash can be carried over a crashed scan, and for a series of absence that is broken
by a failed scan and starts again; two files are one that is seen and one that is not.
A scan of files with other suffixes is the filter that takes most away; filters that
admit some of the paths make the instance three times as large, and the theorems hold
for every set of filters.
`MinMissing = 2` makes both MISSING and DELETED reachable. Two files are the smallest
collision, and two calls the smallest takeover; with two scans a projection and a scan
between reading and acquiring both occur. Three grants are the least for which an
invocation that was replaced meets a run that was resumed and resumed again; two items
in a wave are one that is finished and one that is not. A quarantine or a metadata
write needs two faults for a crash of the recovery of a crash, or for a suspended call
that meets its own recovery. Two operator workers are the smallest race for a job; the
sets of requests in `MCSent` are the pairs whose look-ups or effects can meet. The
theorems below hold without any of these bounds.

**Symmetry** is used for the rename's callers (`ebook_rename` only) and for the scan's
files; nothing in the models orders them, and no run that uses it checks liveness.

**Fairness.** In every module, a call that is not killed goes on, and death, faults and
the start of a command are free to happen or not.

- `ScanRootLease`: time passes, and a recovering process that finds an expired row of
  its kind completes its read and its takeover. No owner is obliged to renew or
  release: it may be dead.
- `EbookRename`: somebody keeps calling `recover` and `--recover-stale-running` (both
  documented as the reaction to an unfinished run), and time passes. Nobody waits for the
  lease: a call that finds it taken gives up, so two operators who repeat their calls at
  the same time could keep each other from it for ever. `EveryRunIsDecided` therefore
  speaks of behaviours in which from some moment on only one operator makes calls
  (`OneOperatorInTheEnd`); before it, any number do.
- `Quarantine`, `MetadataWrite`: an abandoned lease expires, and the operator calls
  `recover` for every unfinished run again and again (strong fairness: a run may be
  busy at times). Nobody is obliged to authorize or execute anything.
- `CandidateHashing`: a lease nobody renews runs out, and the operator repeats the
  command, as ADR-0023 expects. Nobody is obliged to scan.
- `CollectionRuns`: only that an invocation that is under way goes on (`Step`).
- `SurfaceJobs`: the same of a worker, and two minutes pass.
- `IncrementalScan` is checked for safety only.

Some properties name what they except, and the exception is the code's:

- `NoMutationAfterTerminal` holds under the constant `Punctual`: no process is suspended
  between its last check and the system call for longer than the mutation window. The
  code documents that window but cannot enforce it. `NothingMovedWithoutARecord` (calls
  that outlived their lease) and `VerdictMatchesTheFiles` (`strayed`) except the same
  suspension.
- `IndexNeverSeesAnUndecidedRename` and `OneForwardRename` are checked under crashes,
  lost leases and failing system calls; with three failing transactions the rename can
  leave the book at its target, release the lease and wait for its recovery, or be
  repeated.
- `EveryRunIsDecided` (rename) excepts two states, both final in the code:
  `EvidenceIsSpent`, a run at SCAN_HANDOFF that no scan can confirm any more, and
  `RootHeldByALostCall`, a root whose lease belongs to a run id that was never
  persisted. Both are described below; the liveness properties of quarantine and
  metadata write except the second.
- `AbsenceHasACause` excepts the paths a scan's filter leaves out,
  `IndexAgreesWithVerdict` the records such a scan declares missing (`Found`): the
  absence phase takes every record of the root.
- `FullHashIsOfTheListing` excepts a full hash that a scan has computed of a file that
  has been changed since the listing. The file is then no longer as listed, for good, so
  no later scan projects that hash onto a listing it does not belong to.

## Where documents and code disagree

Three runs end in a counterexample.

| run | property | what happens |
|---|---|---|
| `metadata_unvalidated` | `VerifiedWasReadBack` | Recovery journals what the files prove (`_synchronize_exchange_events`, `metadata_write/executor.py:690`), up to ORIGINAL_PRESERVED, before it undoes it. If that call stops in between, `execute` of the same run finds ORIGINAL_PRESERVED, takes the read-back for done, and goes on to VERIFIED with an output nobody validated. ADR-0064:112: such a run does not stay successful at ORIGINAL_PRESERVED. |
| `hash_limited` | `CollisionsGetConfirmed` | The loop counts a failed candidate against `max_items` and orders candidates alike in every run (`index/candidate_hashing.py:381`): files that have changed since the scan can use up the allowance of every call, and the others are never hashed. ADR-0023:44: a changed file is an isolated error; ADR-0023:38: an identical call continues. |
| `absence_of_failed_scan` | `SeriesCountsSuccessfulScans` | `mark_missing` commits before relocation detection, the last heartbeats and `finish_scan` (`index/scanner.py:621`). A scan that fails or is interrupted there is not completed, but `consecutive_missing_scans` has counted it. ADR-0013:28: such a scan cannot advance the series; ADR-0013:26: it counts successful full scans. |

The following were met while modelling; they are described here and have no run.

- *Spent evidence.* After a forward rename `_matching_evidence`
  (`workflows/ebook_rename_operation.py:339`) wants the target as NEW, with its full hash,
  in a completed scan, and only one scan can see it as NEW. If that one fails or is killed
  after it has recorded the target, or is another user's scan without full hashes (the
  default of `scan` is quick ones), or cannot read the file, later scans see it as
  UNCHANGED and the run stays at SCAN_HANDOFF for ever. A rename that was reversed wants
  the target to have no record; if failing transactions let a scan see the book there
  before the way back, it has one for good. ADR-0066:406 says to continue with scan and
  reconciliation. `EvidenceIsSpent` is exactly this state; everything else is decided.
- *Narrowed scan.* A scan with `--suffix` declares every record of the root missing that
  its filter leaves out (`index/store.py:447`), although the files are there, and counts
  towards their deletion; ADR-0013:26 speaks of successful full scans. `AbsenceHasACause`
  and `IndexAgreesWithVerdict` name it as their exception.
- *Suspended rename.* A process suspended between its last check and `renameat2`
  (`ebook_rename/executor.py:216`) moves the book after another one has journalled
  CANCELLED. ADR-0066:408: no further mutation. The quarantine has the same window
  (`quarantine/executor.py:118`, ADR-0056:229).
- *Ambiguous rename.* A verified rename whose files then contradict it raises on every
  recovery and is never journalled as manual (`ebook_rename/executor.py:357`,
  ADR-0066:407).
- *Lost root.* `execute` of rename, quarantine and metadata write takes the lease for a
  run id that is persisted only later (`workflows/ebook_rename_operation.py:672`); a
  crash in between leaves the root to an owner nobody knows. ADR-0027:53 wants one
  transaction. Another `execute` of a quarantine can replace such a lease; the rename
  and the metadata write have no takeover for it, and neither have the two
  `*_PREPARATION` kinds (`workflows/ebook_rename_operation.py:578`).
- *Orphaned job.* `claim_next_job` takes WAITING jobs only
  (`persistence/surface.py:1236`): the job of a worker that died stays ACTIVE and nothing
  reports it. ADR-0067:287 demands a visible diagnosis.
- *Recoverable rename, failed job.* FENCED_OUT and RECONCILIATION_PENDING are written
  as FAILED (`surface/cli.py:758-766`) even when the book was moved; ADR-0067:288-291
  sends such a job to the way of recovery.
- *Retry after a new login.* The grant is part of a rename job's input digest
  (`surface/api.py:306-328`), so the same command under the same key is refused once the
  operator has authenticated again; ADR-0067:259-261 promises the same job. The rotation
  also ends the grants of jobs that still wait.
- *Stale resume.* `acquire_resume` of an archive run
  (`persistence/archive_collection.py:399-470`) writes back the row it read before its
  first write. If the plan is sealed in between, the run is reopened as PLANNING without
  its hash, against ADR-0053:87. `Reopen` has this step; the theorems hold all the same.
- *Report of a resumed run.* The reader of an archive run requires of every executed
  item the run's present epoch (`persistence/archive_collection.py:1084`), but a resume
  raises the epoch and leaves finished items alone (ADR-0053:177-178), so a run with
  results of two invocations cannot be reported.

## What is proved

TLAPS checks the theorems below for every value of the constants: any number of
owners, files, runs, items, calls, workers, grants, foreign scans and faults. The only
assumptions are the named ones of the modules (`ConstantsAssumption` of three of them,
`RenameAssumption`, `ScanAssumption`, `HashingAssumption`, `CollectionAssumption`,
`SurfaceAssumption`), which type the constants and which TLC evaluates in the runs;
five of the six theorems about the rename have hypotheses of their own, stated with
them. Each proof module states its inductive invariant first and has one step per action
below it. Every invariant and every action property that a run checks is among the
theorems.

**`ScanRootLease_proofs`** — `TypeCorrect`, `Readable`, `SingleOwner`, `Refinement`,
`NoStaleWrite`, `StaleOwnerStaysOut`, `EpochsCount`, and two lemmas on the delay of a
clock, `TakeoverIsLate` and `LateWriteBound`.
None of the properties is inductive: that two proofs never both match the row says
nothing of proofs that do not match now. `IInv` adds that no proof carries an epoch
above the row's, that no two proofs carry the same epoch, that the holder knows when the
row was acquired, and that the row is readable. A grant writes an epoch above all
proofs, so exclusivity needs neither distinct tokens nor a clock that is right. With
`IInv` each step is a step of `ExclusiveWriter` or a stutter. Of `ExclusiveWriter` alone
the module proves `Contiguity` (the commits of a tenure are contiguous) and `Retirement`
(who has lost the root stays out), whose invariant says who may occur in the log and
that nobody wrote after the present holder's first commit but itself; `NoStaleWrite` and
`StaleOwnerStaysOut` follow through the refinement.

**`EbookRename_proofs`** — `TypeCorrect`, `JournalIsTrue`, `VerdictIsIndexed`,
`TerminalIsFinal`, `RenamedOnce`, `IndexWaits`. Every action is first summarised by its
effect on lease, journal, names and call (a step of a call that takes nothing, taking,
giving back, losing the lease, the steps of a scan); each part of the invariant is then
proved once per effect. It comes in three layers, by what they need:

- `Bookkeeping` needs nothing: types, who has the lease at which step of a call
  (`LeaseInv`, `CallInv`), and a journal that only grows, to statuses of a greater rank,
  which bounds its length (`JournalInv`).
- `Positions` needs `Punctual`. `MutationInv`: a call between its last check and its
  system call has the lease, so that nobody journals meanwhile. Hence the book has one
  of its two names, at its source as long as nothing was renamed, and a scan that has
  listed both names has seen what is still there (`PlaceInv`, `RecInv`).
- `Attempts` needs besides that no transaction fails for another reason than the fence
  (`"db" \notin Faults`). `RepeatInv`: after a rename without a word in the journal
  either the lease is still held fresh by a call on its way to that word, or the
  authorization has expired, and whoever takes the run over can only go back.
  `UndecidedInv`: nobody gives the root back while the book is away and no status tells.

Both hypotheses are what the code itself relies on. `Punctual` is its mutation window
(see the exceptions above). Without the second the last two theorems are false: three
transient failures of the database in one call leave the journal behind the files
(`ebook_rename/executor.py:253`, a hazard of `PROJECT.json`).

**`MetadataWrite_proofs`** — `TypeCorrect`, `VerdictIsTrue`, `OriginalIsKept`.
`OriginalSurvives` is inductive on its own: every step creates a draft where there is
none, fills it, exchanges two names or moves one to a free name (`Shuffles`), and this
asks nothing of the lease or of who strayed. The verdict does. `Knows(p)` says for every
step of a call what it has learned of the journal (`StatusAt`) and, between a check and
the system call it is for, of the files (`FilesAt`); this stays true because nobody but
the holder of an unexpired lease journals and, as long as nobody strayed or meddled,
nobody else touches the files. `FilesInv` and `VerdictInv` bind status and files: before
PREPARED the book is untouched, afterwards the three names are in one of three
arrangements.

**`IncrementalScan_proofs`**

- `OneScanHoldsTheRoot` (`RunningScanHoldsLease`) is inductive over typed states.
- `TerminalRunsAreClosed` (`TerminalRunIsClosed`) rests on `BatchIsObserved` and
  `HashedIsInBatch`: what the holder has in its open batch it has also observed, so the
  observation `save_many` completes is its own.
- `AbsenceIsAccountedFor` (`AbsenceHasACause`) rests on `Accounted`: until the absence
  phase every path is still to be listed, in the open batch, observed by this run, left
  out by its filter, or was gone at some time of it; and it has declared no path absent
  before.
- `HashesAreCurrent` (`LatestHashIsCurrent`) rests on `HashInv`: contents and prints are
  ordered along the observations, the record repeats the last observation, and an
  UNCHANGED path in the open batch has the content of the observation before it, which
  is the one whose hash `reuse_latest` may take.
- `SeriesIsTrue` (`SeriesSinceLastSeen`) rests on `OrderInv`: scans start in the order
  of their numbers and hold the root one after another, so what the owner observes or
  declares is later than all that is on record, a failed scan's work included. It counts
  the scans that declared the path absent, as the code does, not the completed ones.
- `TypeCorrect` (`TypeOK`) has bounds that are no types: contents count the changes of
  the tree (`Counters`, `HashedIsOnDisk`), and an absence series is as long as the scans
  since the path was seen (`SeriesMarksAbsence` with `SeriesIsTrue`).

**`CandidateHashing_proofs`** — `TypeCorrect`, `HashesAreOfTheListing`,
`HashesAreTheOnlyOnes`, `OwnersWorkOnTheLatest`, `TheCountIsTrue`. `ChangesNameBytes`
says that the number of a change is used once, so equal numbers mean equal bytes on disk
and in every listing; hence what was read between two equal numbers is what was listed
(`WorkIsOfTheListing`). What a scan with full hashes reads need not be, but then the
file's change differs from the listed one from that moment on, and `reuse_latest`
compares exactly this. `DueFilesHaveNoHash` says that what an owner of the lease still
has before it, in its cursor or in its batch, is without a hash: a call that lost the
lease commits nothing, and one that took over has chosen its files afterwards. That the
scan is still the latest follows from `Acquire`, which asks again, and from the lease,
which keeps the scanner out. `TheCountIsTrue` (`ProgressIsTrue`) needs `CountInv`:
processed is hashed and failed, what is before the call or in its hands is what its run
still counts as pending (`WorkIsPending`), and while it owns the root the selected files
without a hash are as many as its run says remain. A commit moves a batch from one side
of that equation to the other, a failed file only out of the call's hands; a call
without the lease changes neither side.

**`CollectionRuns_proofs`** — `TypeCorrect`, `LeaseIsTrue`,
`ResultsAreOfTheLastAttempt`, `FinalStatusesAreTrue`, `AllResultsAreBacked`,
`ListingsAreUnique`, `ItemsStayFinished`. Every grant has a greater token
(`TokensAreOwn`), so one process at most holds the newest, and only this one writes
items and graphs. What it has in hand is RUNNING in the attempt it claimed
(`HandsAreClaimed`), while a process with an older token may have anything in hand.
`FindingsAreStored` carries the same over the two transactions of an archive item:
whoever holds the newest token and found no listing is right. `PlansAreWhole` bounds
what a stale resume can do: a plan that was whole stays whole, also when its seal is
lost.

**`SurfaceJobs_proofs`** — `TypeCorrect`, `KeysHaveOneJob`, `JobsHaveOneWorker`,
`SuccessHasAResult`, `LastWordsAreTrue`. `RowsAndAnswers`: a key has one row and every
answer names it. `ClaimsAreNamed`: from the claim to its end a row is ACTIVE, names its
claimant and is changed by nobody else, whether its lease lapsed or not.
`ResultsAreDecided`: a rename goes on under the root's lease only, which is why a result
that is recorded later, unguarded by the claim, still is of a decided run.

**`Quarantine_proofs`** — `TypeCorrect`, `Success`, `UsedOnce`, `MovesAreRecorded`. Two
invariants: `HistoryInv` says what a call has done by its own step and that an
authorization has one run, and does not mention the lease; so `Success` and `UsedOnce`
hold even for calls that outlived theirs. `LeaseInv` is about the others: such a call
holds the lease from its revalidation to its release, hence a recovery works on calls
that are over, and what it saw unmoved stays unmoved.

**Only model-checked** are the liveness properties `AbandonedLeaseIsRecovered`,
`EveryRunIsDecided`, `EveryRunEnds` (of `Quarantine` and of `MetadataWrite`),
`EndedRunFreesTheRoot`, `RestoredIsIndexed`, `CollisionsGetConfirmed`,
`EveryInvocationEnds` and `LiveAnalysisWorkerReports`: liveness under fairness is beyond
what TLAPS proves here.

## What is not modelled

Of the modelled parts:

- *Rename*: planning, the capability probe, preparation and authorization; plan and
  capability evidence, which its gate compares bit by bit (`planned`, `authorized`);
  deletion of the rename's source from the index by the deletion policy during
  reconciliation, a further way in which no evidence can match any more.
- *Index*: progress reports; the thread pool inside one batch of hashes (it only reads);
  the walk's treatment of links, unreadable directories and changing identities (an
  error ends the scan: `Abort`); relocation detection (its failure is an `Abort`); the
  lineage of a resumed scan.
- *Candidate hashing*: the reasons of failures, reports, the scan's own failures beyond
  "it failed", scans with a suffix filter (every scan there lists all files).
- *Collection runs*: what an analysis or an inspection finds is a choice of its result;
  profiles, reports and group planning.
- *Surface*: AUTHORIZE jobs (they change nothing of the rename), planning receipts, the
  HTTP layer, sessions beyond the grants a job needs.
- *Quarantine*: planning and reviews, which the revalidation may find stale at any time.
- *Metadata write*: planning, dependency closure and authorization; what the EPUB writer
  produces is one right output, or a failure; the binding of devices and inodes, which
  shows as the classification of the entries; scans with a suffix filter.

Three transient failures of the database in one `execute` call can bring the book back
to its source with the journal still at PREPARED, and the next call renames it again;
`OneForwardRename` is therefore claimed for crashes, lost leases and failing system
calls only.

The other components are listed in the inventory and, with reasons, in `PROJECT.json`:
fixity, provider cache, relocation detection and archive extraction have state that is
worth a model and have none yet; the parts without a protocol have none to model.

## Plan

What is left, in the order of the damage a mistake would do:

1. **Changes of files**: an abstract atomic change of a file (as it was, as it should
   be, decided) refined by `EbookRename`, `MetadataWrite` and `Quarantine`; the
   invariants it needs are proved.
2. **Index**: relocation detection as a part of `Finish`, with the evidence a failed
   scan loses.
3. **Rename preparation**: probe and authorization with their own owner kinds, whose
   leases nobody takes over.
4. **FixityVerification**: result batches that are written again after a lost answer,
   runs bound to a snapshot.
5. **ProviderCache**: compare-and-replace by generation under limits over all keys.
6. **ArchiveSandbox**: quota slots and the processes that hold them.

Every run ends within three minutes; a model that would grow beyond that gets a smaller
instance, not a weaker property.

## Running it

```
tlc -workers 2 -config MCScanRootLease.cfg MCScanRootLease.tla
tlapm ScanRootLease_proofs.tla
```

`PROJECT.json` lists every run with its module, its configuration and its expected
result; the `map` in it names, for each definition, the lines of the code it models.
