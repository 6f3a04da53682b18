----------------------------- MODULE SurfaceJobs -----------------------------
(***************************************************************************)
(* The durable jobs of the local surface (surface/api.py, surface/cli.py,  *)
(* persistence/surface.py; ADR-0067, ADR-0069).  Requests enqueue a job    *)
(* under an idempotency key; a worker process claims the oldest waiting    *)
(* job of its role, keeps a two minute lease with a heartbeat thread,      *)
(* does the work and reports one terminal status.  Processes are killed    *)
(* anywhere, leases run out and database calls fail.                       *)
(*                                                                         *)
(* The driver opens a transaction at the first write, so a SELECT and the  *)
(* write that follows it are two steps.  The one API process answers on    *)
(* its event loop, hence a rename request, which only it sends, is one     *)
(* step; fixity requests also come from the command line.  All requests    *)
(* are of the single operator.  The rename behind the operator jobs is the *)
(* one of EbookRename, cut down to what the jobs can see of it; AUTHORIZE  *)
(* jobs, which change nothing of it, are left out.  A job is named by the  *)
(* request that inserted it.                                               *)
(***************************************************************************)
EXTENDS Integers, Sequences

CONSTANTS
    Request,      \* HTTP or command line requests, retries included
    KindOf,       \* request -> "FIXITY", "EXECUTE" or "RECOVER" (its profile)
    KeyOf,        \* request -> idempotency digest
    InputOf,      \* request -> digest of its semantic input
    Sent,         \* bound: the sets of requests sent in one behaviour
    Worker,       \* worker processes; each claims at most one job
    RoleOf,       \* worker -> "ANALYSIS" or "OPERATOR"
    MaxGrants,    \* bound: OPERATE grants given
    MaxFaults,    \* bound: processes killed, leases lapsed, failed calls
    None

Kinds == {"FIXITY", "EXECUTE", "RECOVER"}

ASSUME SurfaceAssumption ==
    /\ KindOf \in [Request -> Kinds]
    /\ Sent \subseteq SUBSET Request
    /\ RoleOf \in [Worker -> {"ANALYSIS", "OPERATOR"}]
    /\ MaxGrants \in Nat /\ MaxFaults \in Nat
    /\ None \notin Request \cup Worker

VARIABLES
    asked,     \* request -> how far it is
    answer,    \* request -> the job it was answered
    status,    \* application_jobs, by the request that inserted the row:
    by,        \* job -> the worker that claimed it
    lease,     \* job -> its worker lease
    under,     \* job -> the grant it was requested under
    queue,     \* the jobs by created_at
    results,   \* jobs with a row in their result table
    grants,    \* OPERATE grants in the order they were given
    rename,    \* the journalled rename behind the operator jobs
    root,      \* the worker whose call holds the root's write lease
    pc,        \* worker -> its program counter
    claim,     \* worker -> its job
    keeper,    \* worker -> its heartbeat thread
    says,      \* worker -> what it will print, or printed, last
    faults

request == <<asked, answer>>
jobs == <<status, by, lease, under>>
rows == <<jobs, queue, results>>
run == <<rename, root>>
worker == <<pc, claim, keeper, says>>
vars == <<request, rows, grants, run, worker, faults>>

Terminal == {"SUCCEEDED", "FAILED", "RECOVERY_REQUIRED"}
NoGrant == 0

Init ==
    /\ \E sent \in Sent :
         asked = [r \in Request |-> IF r \in sent THEN "NEW" ELSE "UNSENT"]
    /\ answer = [r \in Request |-> None]
    /\ status = [j \in Request |-> "NONE"]
    /\ by = [j \in Request |-> None]
    /\ lease = [j \in Request |-> "NONE"]
    /\ under = [j \in Request |-> NoGrant]
    /\ queue = <<>>
    /\ results = {}
    /\ grants = [g \in 1..MaxGrants |-> "NONE"]
    /\ rename = "NONE"
    /\ root = None
    /\ pc = [w \in Worker |-> "start"]
    /\ claim = [w \in Worker |-> None]
    /\ keeper = [w \in Worker |-> "OFF"]
    /\ says = [w \in Worker |-> "NOTHING"]
    /\ faults = 0

Fault == faults < MaxFaults /\ faults' = faults + 1

-----------------------------------------------------------------------------
(* Grants of the session *)

(* rotate_session and create_grant: the old session ends with its grants.   *)
ReauthenticateToOperate ==
    \E g \in 1..MaxGrants :
        /\ grants[g] = "NONE" /\ \A h \in 1..(g - 1) : grants[h] # "NONE"
        /\ grants' = [h \in 1..MaxGrants |->
             IF h = g THEN "ACTIVE"
             ELSE IF grants[h] = "ACTIVE" THEN "ENDED" ELSE grants[h]]
        /\ UNCHANGED <<request, rows, run, worker, faults>>

(* Fifteen minutes pass, or a logout, a password reset or a rotation for    *)
(* another scope revokes it.                                                *)
GrantEnds ==
    \E g \in 1..MaxGrants :
        /\ grants[g] = "ACTIVE"
        /\ grants' = [grants EXCEPT ![g] = "ENDED"]
        /\ UNCHANGED <<request, rows, run, worker, faults>>

-----------------------------------------------------------------------------
(* Requests *)

SameKey(r, s) == KindOf[r] = KindOf[s] /\ KeyOf[r] = KeyOf[s]
Existing(r) == {j \in Request : status[j] # "NONE" /\ SameKey(j, r)}

Answers(r, j) ==
    /\ asked' = [asked EXCEPT ![r] = "ANSWERED"]
    /\ answer' = [answer EXCEPT ![r] = j]

Insert(r, g) ==
    /\ status' = [status EXCEPT ![r] = "WAITING"]
    /\ under' = [under EXCEPT ![r] = g]
    /\ queue' = Append(queue, r)
    /\ Answers(r, r)
    /\ UNCHANGED <<by, lease, results>>

(* The replay answers with the job found if the input digest agrees.        *)
Replay(r, j, same) ==
    /\ \/ same /\ Answers(r, j)
       \/ ~same /\ asked' = [asked EXCEPT ![r] = "REJECTED"] /\ UNCHANGED answer
    /\ UNCHANGED rows

(* enqueue_ebook_fixity_analysis_job *)
LookUpFixityJob(r) ==
    /\ KindOf[r] = "FIXITY" /\ asked[r] = "NEW"
    /\ \/ /\ Existing(r) = {}
          /\ asked' = [asked EXCEPT ![r] = "LOOKED_UP"]
          /\ UNCHANGED <<answer, rows>>
       \/ \E j \in Existing(r) : Replay(r, j, InputOf[j] = InputOf[r])
    /\ UNCHANGED <<grants, run, worker, faults>>

(* The unique key refuses a second row; the refused one replays.            *)
InsertFixityJob(r) ==
    /\ asked[r] = "LOOKED_UP"
    /\ \/ Existing(r) = {} /\ Insert(r, NoGrant)
       \/ \E j \in Existing(r) : Replay(r, j, InputOf[j] = InputOf[r])
    /\ UNCHANGED <<grants, run, worker, faults>>

(* enqueue_rename_job: the grant is part of the input digest.               *)
RequestRename(r) ==
    \E g \in 1..MaxGrants :
        /\ KindOf[r] # "FIXITY" /\ asked[r] = "NEW"
        /\ grants[g] = "ACTIVE"
        /\ \/ Existing(r) = {} /\ Insert(r, g)
           \/ \E j \in Existing(r) :
                Replay(r, j, InputOf[j] = InputOf[r] /\ under[j] = g)
        /\ UNCHANGED <<grants, run, worker, faults>>

-----------------------------------------------------------------------------
(* The claim *)

GoesTo(w, step) == pc' = [pc EXCEPT ![w] = step]
Continues(w, step) == GoesTo(w, step) /\ UNCHANGED <<claim, keeper, says>>
Says(w, step, words) ==
    /\ GoesTo(w, step) /\ says' = [says EXCEPT ![w] = words]
    /\ keeper' = [keeper EXCEPT ![w] = "OFF"]
    /\ UNCHANGED claim

InRole(w, j) == KindOf[j] = "FIXITY" <=> RoleOf[w] = "ANALYSIS"
Waits(w, j) == status[j] = "WAITING" /\ InRole(w, j)

(* A worker that finds no job says IDLE and ends; it might as well not have *)
(* been started.                                                            *)
SelectJob(w) ==
    \E n \in 1..Len(queue) :
        /\ pc[w] = "start"
        /\ Waits(w, queue[n]) /\ \A m \in 1..(n - 1) : ~Waits(w, queue[m])
        /\ GoesTo(w, "claim") /\ claim' = [claim EXCEPT ![w] = queue[n]]
        /\ UNCHANGED <<keeper, says, request, rows, grants, run, faults>>

FirstStep(w) == IF RoleOf[w] = "ANALYSIS" THEN "work" ELSE "grant"

Claims(w, j) ==
    /\ status' = [status EXCEPT ![j] = "ACTIVE"]
    /\ by' = [by EXCEPT ![j] = w]
    /\ lease' = [lease EXCEPT ![j] = "LIVE"]
    /\ GoesTo(w, FirstStep(w)) /\ keeper' = [keeper EXCEPT ![w] = "ON"]
    /\ UNCHANGED <<under, claim, says>>
LosesClaim(w) ==
    /\ GoesTo(w, "ended") /\ says' = [says EXCEPT ![w] = "IDLE"]
    /\ claim' = [claim EXCEPT ![w] = None]
    /\ UNCHANGED <<jobs, keeper>>

ClaimWhatWasSelected(w) ==
    /\ pc[w] = "claim" /\ Claims(w, claim[w])
    /\ UNCHANGED <<request, queue, results, grants, run, faults>>

(* claim_next_job: the row is taken only if it still waits.                 *)
ClaimJob(w) ==
    /\ pc[w] = "claim"
    /\ LET j == claim[w] IN
         \/ status[j] = "WAITING" /\ Claims(w, j)
         \/ status[j] # "WAITING" /\ LosesClaim(w)
    /\ UNCHANGED <<request, queue, results, grants, run, faults>>

-----------------------------------------------------------------------------
(* Writing the outcome *)

Mine(w) == status[claim[w]] = "ACTIVE" /\ by[claim[w]] = w
Current(w) == Mine(w) /\ lease[claim[w]] = "LIVE"

SetStatus(w, end) ==
    /\ status' = [status EXCEPT ![claim[w]] = end]
    /\ lease' = [lease EXCEPT ![claim[w]] = "EXPIRED"]
    /\ UNCHANGED <<by, under>>

AbandonUnlessLapsed(w) ==
    /\ pc[w] = "abandon"
    /\ IF Current(w) THEN SetStatus(w, "RECOVERY_REQUIRED") ELSE UNCHANGED jobs
    /\ Says(w, "ended", "FAILED")
    /\ UNCHANGED <<request, queue, results, grants, run, faults>>

(* abandon_claimed_job_for_recovery does not ask whether the lease lapsed.  *)
Abandon(w) ==
    /\ pc[w] = "abandon"
    /\ \/ /\ Mine(w)
          /\ SetStatus(w, "RECOVERY_REQUIRED")
          /\ Says(w, "ended", "FAILED")
          /\ UNCHANGED faults
       \/ /\ RoleOf[w] = "ANALYSIS" /\ Fault
          /\ Says(w, "ended", "TERMINALIZATION_FAILED")
          /\ UNCHANGED jobs
    /\ UNCHANGED <<request, queue, results, grants, run>>

-----------------------------------------------------------------------------
(* run_analysis_worker *)

DoFixityWork(w) ==
    /\ pc[w] = "work"
    /\ Continues(w, "complete") \/ Continues(w, "fail")
    /\ UNCHANGED <<request, rows, grants, run, faults>>

(* complete_ebook_fixity_analysis_job writes result and status together; if *)
(* it refuses or fails, or the keeper has lost the lease, the job is given  *)
(* up for recovery.                                                         *)
CompleteFixityJob(w) ==
    /\ RoleOf[w] = "ANALYSIS" /\ pc[w] = "complete"
    /\ \/ /\ keeper[w] # "LOST" /\ Current(w)
          /\ SetStatus(w, "SUCCEEDED")
          /\ results' = results \cup {claim[w]}
          /\ Says(w, "ended", "SUCCEEDED")
          /\ UNCHANGED faults
       \/ /\ keeper[w] = "LOST" \/ ~Current(w)
          /\ Continues(w, "abandon") /\ UNCHANGED <<jobs, results, faults>>
       \/ Fault /\ Continues(w, "abandon") /\ UNCHANGED <<jobs, results>>
    /\ UNCHANGED <<request, queue, grants, run>>

FailOrGiveUp(w) ==
    /\ RoleOf[w] = "ANALYSIS" /\ pc[w] = "fail"
    /\ \/ /\ Current(w)
          /\ SetStatus(w, "FAILED") /\ Says(w, "ended", "FAILED")
       \/ ~Current(w) /\ Says(w, "ended", "FAILED") /\ UNCHANGED jobs
    /\ UNCHANGED <<request, queue, results, grants, run, faults>>

(* terminalize_failure *)
FailFixityJob(w) ==
    /\ RoleOf[w] = "ANALYSIS" /\ pc[w] = "fail"
    /\ \/ /\ Current(w)
          /\ SetStatus(w, "FAILED") /\ Says(w, "ended", "FAILED")
          /\ UNCHANGED faults
       \/ ~Current(w) /\ Continues(w, "abandon") /\ UNCHANGED <<jobs, faults>>
       \/ Fault /\ Continues(w, "abandon") /\ UNCHANGED jobs
    /\ UNCHANGED <<request, queue, results, grants, run>>

-----------------------------------------------------------------------------
(* run_operator_worker *)

Errs(w, end) ==
    /\ pc' = [pc EXCEPT ![w] = "error"]
    /\ says' = [says EXCEPT ![w] = end]
    /\ UNCHANGED <<claim, keeper>>

ReportCode(w, end) ==
    /\ IF Current(w) THEN SetStatus(w, "JOB_RUNTIME_UNAVAILABLE") ELSE UNCHANGED jobs
    /\ Says(w, "ended", end)

(* The report of an error ignores that the job could not be changed.        *)
ReportError(w, end) ==
    /\ IF Current(w) THEN SetStatus(w, end) ELSE UNCHANGED jobs
    /\ Says(w, "ended", end)

CheckGrant(w) ==
    /\ pc[w] = "grant"
    /\ LET active == grants[under[claim[w]]] = "ACTIVE" IN
         \/ active /\ Continues(w, "operate") /\ UNCHANGED jobs
         \/ ~active /\ ReportError(w, "FAILED")
    /\ UNCHANGED <<request, queue, results, grants, run, faults>>

Gone == {w \in Worker : pc[w] = "gone"}
RootIsFree == root \in Gone \cup {None}

(* execute or recover: the root's write lease of the run is free, or the    *)
(* one of a dead call has run out.                                          *)
EnterRename(w) ==
    /\ pc[w] = "operate" /\ RootIsFree
    /\ KindOf[claim[w]] = "RECOVER" => rename # "NONE"
    /\ rename \notin {"DECIDED", "ESCALATED"}
    /\ root' = w
    /\ Continues(w, "rename")
    /\ UNCHANGED <<request, rows, grants, rename, faults>>

(* A run that is decided already gives its result again; recover calls a    *)
(* verified one an error.  A busy root, a missing run, an escalated one and *)
(* every failed check before the run is touched are errors too.             *)
RepeatResult(w) ==
    /\ pc[w] = "operate" /\ rename = "DECIDED"
    /\ Continues(w, "record")
    /\ UNCHANGED <<request, rows, grants, run, faults>>
RefuseRename(w) ==
    /\ pc[w] = "operate"
    /\ \E end \in {"FAILED", "RECOVERY_REQUIRED"} :
         /\ end = "RECOVERY_REQUIRED" => rename = "ESCALATED"
         /\ Errs(w, end)
    /\ UNCHANGED <<request, rows, grants, run, faults>>

(* The run is journalled, then the book is moved: from here on the effect   *)
(* cannot be undone by forgetting it.                                       *)
PrepareRun(w) ==
    /\ pc[w] = "rename" /\ rename = "NONE"
    /\ rename' = "PREPARED"
    /\ UNCHANGED <<request, rows, grants, root, worker, faults>>
MoveBook(w) ==
    /\ pc[w] = "rename" /\ rename = "PREPARED"
    /\ KindOf[claim[w]] = "EXECUTE"
    /\ rename' = "MOVED"
    /\ UNCHANGED <<request, rows, grants, root, worker, faults>>

(* Cancelled before the move, or verified or taken back after it.           *)
DecideRename(w) ==
    /\ pc[w] = "rename" /\ rename \in {"PREPARED", "MOVED"}
    /\ rename' = "DECIDED" /\ root' = None
    /\ Continues(w, "record")
    /\ UNCHANGED <<request, rows, grants, faults>>

RenameFailsSilently(w) ==
    /\ pc[w] = "rename"
    /\ Continues(w, "record") /\ root' = None
    /\ UNCHANGED <<request, rows, grants, rename, faults>>

(* The codes RECOVERY_REQUIRED and MANUAL_RECOVERY_REQUIRED keep their      *)
(* name as the job's status; FENCED_OUT, RECONCILIATION_PENDING, STALE,     *)
(* TOOL_UNAVAILABLE and the rest are FAILED.                                *)
RenameFails(w) ==
    /\ pc[w] = "rename"
    /\ \E end \in {"FAILED", "RECOVERY_REQUIRED"} : Errs(w, end)
    /\ \/ UNCHANGED rename
       \/ rename # "NONE" /\ rename' = "ESCALATED"
    /\ root' = None
    /\ UNCHANGED <<request, rows, grants, faults>>

(* record_ebook_rename_operator_job_result: a transaction of its own, which *)
(* the claim does not guard.                                                *)
RecordResult(w) ==
    /\ pc[w] = "record"
    /\ \/ /\ results' = results \cup {claim[w]}
          /\ Continues(w, "complete") /\ UNCHANGED faults
       \/ /\ Fault
          /\ Errs(w, IF KindOf[claim[w]] = "EXECUTE" THEN "RECOVERY_REQUIRED" ELSE "FAILED")
          /\ UNCHANGED results
    /\ UNCHANGED <<request, jobs, queue, grants, run>>

ReportRenameError(w) ==
    /\ pc[w] = "error"
    /\ ReportError(w, says[w])
    /\ UNCHANGED <<request, queue, results, grants, run, faults>>

CompleteRenameJob(w) ==
    /\ RoleOf[w] = "OPERATOR" /\ pc[w] = "complete"
    /\ \/ /\ keeper[w] # "LOST" /\ Current(w)
          /\ SetStatus(w, "SUCCEEDED") /\ Says(w, "ended", "SUCCEEDED")
       \/ /\ keeper[w] = "LOST" \/ ~Current(w)
          /\ Continues(w, "abandon") /\ UNCHANGED jobs
    /\ UNCHANGED <<request, queue, results, grants, run, faults>>

-----------------------------------------------------------------------------
(* The keeper thread, time and death *)

Works(w) == pc[w] \notin {"start", "claim", "ended", "gone"}

KeeperRuns(w) ==
    keeper[w] = "ON" /\ pc[w] \in {"work", "operate", "rename", "record", "error"}

(* heartbeat_claimed_job renews a lease that is not yet expired; refused,   *)
(* the keeper stops and says so.                                            *)
HeartbeatRefused(w) ==
    /\ KeeperRuns(w) /\ ~Current(w)
    /\ keeper' = [keeper EXCEPT ![w] = "LOST"]
    /\ UNCHANGED <<pc, claim, says, request, rows, grants, run, faults>>

(* An error ends the thread: only the analysis worker counts it as a loss.  *)
HeartbeatFails(w) ==
    /\ KeeperRuns(w) /\ Fault
    /\ keeper' = [keeper EXCEPT ![w] = IF RoleOf[w] = "ANALYSIS" THEN "LOST" ELSE "OFF"]
    /\ UNCHANGED <<pc, claim, says, request, rows, grants, run>>

Lapse(j) ==
    /\ status[j] = "ACTIVE" /\ lease[j] = "LIVE"
    /\ lease' = [lease EXCEPT ![j] = "EXPIRED"]
    /\ UNCHANGED <<status, by, under, request, queue, results, grants, run, worker>>
(* Nobody renews the lease for two minutes.                                 *)
LeaseLapses(j) == Lapse(j) /\ by[j] \in Gone /\ UNCHANGED faults
(* The host sleeps, or the database is locked for that long.                *)
LeaseLapsesUnderWorker(j) == Lapse(j) /\ by[j] \notin Gone /\ Fault

(* Killed, or an exception nobody catches.                                  *)
WorkerDies(w) ==
    /\ Works(w) /\ Fault
    /\ pc' = [pc EXCEPT ![w] = "gone"] /\ keeper' = [keeper EXCEPT ![w] = "OFF"]
    /\ UNCHANGED <<claim, says, request, rows, grants, run>>

-----------------------------------------------------------------------------
Claim(w) == SelectJob(w) \/ ClaimJob(w)
AnalysisStep(w) == DoFixityWork(w) \/ CompleteFixityJob(w) \/ FailFixityJob(w)
OperatorStep(w) ==
    \/ CheckGrant(w) \/ EnterRename(w) \/ RepeatResult(w) \/ RefuseRename(w)
    \/ PrepareRun(w) \/ MoveBook(w) \/ DecideRename(w) \/ RenameFails(w)
    \/ RecordResult(w) \/ ReportRenameError(w) \/ CompleteRenameJob(w)
WorkerStep(w) == AnalysisStep(w) \/ OperatorStep(w) \/ Abandon(w)
Keeper(w) == HeartbeatRefused(w) \/ HeartbeatFails(w)

Next ==
    \/ ReauthenticateToOperate \/ GrantEnds
    \/ \E r \in Request : LookUpFixityJob(r) \/ InsertFixityJob(r) \/ RequestRename(r)
    \/ \E w \in Worker : Claim(w) \/ WorkerStep(w) \/ Keeper(w) \/ WorkerDies(w)
    \/ \E j \in Request : LeaseLapses(j) \/ LeaseLapsesUnderWorker(j)

Spec == Init /\ [][Next]_vars

(* A process that is not killed goes on, and time passes.                   *)
Fairness ==
    /\ \A w \in Worker : WF_vars(WorkerStep(w)) /\ WF_vars(ClaimJob(w))
    /\ \A j \in Request : WF_vars(LeaseLapses(j))
FairSpec == Spec /\ Fairness

-----------------------------------------------------------------------------
(* Properties *)

(* Every row, request and process is in a state the code gives it.          *)
TypeOK ==
    /\ asked \in [Request -> {"UNSENT", "NEW", "LOOKED_UP", "ANSWERED", "REJECTED"}]
    /\ answer \in [Request -> Request \cup {None}]
    /\ status \in [Request -> {"NONE", "WAITING", "ACTIVE"} \cup Terminal]
    /\ by \in [Request -> Worker \cup {None}]
    /\ lease \in [Request -> {"NONE", "LIVE", "EXPIRED"}]
    /\ under \in [Request -> 0..MaxGrants]
    /\ queue \in Seq(Request)
    /\ results \subseteq Request
    /\ grants \in [1..MaxGrants -> {"NONE", "ACTIVE", "ENDED"}]
    /\ rename \in {"NONE", "PREPARED", "MOVED", "DECIDED", "ESCALATED"}
    /\ root \in Worker \cup {None}
    /\ pc \in [Worker -> {"start", "claim", "work", "grant", "operate", "rename", "record",
                        "complete", "error", "fail", "abandon", "ended", "gone"}]
    /\ claim \in [Worker -> Request \cup {None}]
    /\ keeper \in [Worker -> {"ON", "OFF", "LOST"}]
    /\ says \in [Worker -> {"NOTHING", "IDLE", "TERMINALIZATION_FAILED"} \cup Terminal]
    /\ faults \in 0..MaxFaults

(* A retry under the same key, also one that arrives while the first        *)
(* request is between its look-up and its insert, gets the same job, and    *)
(* no key ever has two jobs (ADR-0067: the same command gives the same job).*)
OneJobPerKey ==
    /\ \A i, j \in Request :
         status[i] # "NONE" /\ status[j] # "NONE" /\ SameKey(i, j) => i = j
    /\ \A r, s \in Request :
         asked[r] = "ANSWERED" /\ asked[s] = "ANSWERED" /\ SameKey(r, s)
           => answer[r] = answer[s]

Holds(w) == pc[w] \notin {"start", "claim"} /\ claim[w] # None

(* A job is worked on by one process ever, though two read it as waiting,   *)
(* and the row names that process: nothing gives a claimed job to another.  *)
OneWorkerPerJob ==
    /\ \A v, w \in Worker : v # w /\ Holds(v) /\ Holds(w) => claim[v] # claim[w]
    /\ \A w \in Worker : Holds(w) => by[claim[w]] = w

(* SUCCEEDED is backed by facts: a fixity job has its result and a result   *)
(* exists for a succeeded job only, whatever call failed in between; a      *)
(* succeeded rename job has a result and its run is decided.                *)
SuccessIsBacked ==
    \A j \in Request :
        /\ status[j] = "SUCCEEDED" => j \in results
        /\ KindOf[j] = "FIXITY" /\ j \in results => status[j] = "SUCCEEDED"
        /\ KindOf[j] # "FIXITY" /\ j \in results => rename = "DECIDED"

(* What an analysis worker prints last is true of its job: SUCCEEDED only *)
(* if it succeeded, FAILED only if the row shows a failure or the need *)
(* of recovery, and a job left ACTIVE by a worker that ended is announced.  *)
AnalysisWorkerTellsTheTruth ==
    \A w \in Worker : \A j \in Request :
        RoleOf[w] = "ANALYSIS" /\ pc[w] = "ended" /\ claim[w] = j =>
          /\ says[w] = "SUCCEEDED" => status[j] = "SUCCEEDED"
          /\ says[w] = "FAILED" => status[j] \in {"FAILED", "RECOVERY_REQUIRED"}
          /\ says[w] = "TERMINALIZATION_FAILED" => status[j] = "ACTIVE"

(* An analysis worker that is not killed brings its job to a terminal       *)
(* status, also after the lease lapsed, or says that it could not.          *)
Reported(w) ==
    \/ says[w] = "TERMINALIZATION_FAILED"
    \/ \E j \in Request : claim[w] = j /\ status[j] \in Terminal
LiveAnalysisWorkerReports ==
    \A w \in Worker : RoleOf[w] = "ANALYSIS" /\ Works(w) ~>
                        w \in Gone \/ (pc[w] = "ended" /\ Reported(w))

=============================================================================
