------------------------- MODULE SurfaceJobs_proofs -------------------------
(***************************************************************************)
(* For any requests, keys, workers, grants and faults: no key has two      *)
(* jobs, no job two workers, a succeeded job has its result, and an        *)
(* analysis worker's last words are true.                                  *)
(*                                                                         *)
(* The argument follows the row.  It is inserted once per key, so answers  *)
(* agree; it is claimed out of WAITING only and names its claimant, so it  *)
(* has one; and from its claim to its end nobody but the claimant changes  *)
(* its status, so what the claimant wrote, or knows it did not, stays      *)
(* true.  A rename is decided under the root's lease, which is why a       *)
(* result recorded later, unguarded by the claim, still is of a decided    *)
(* run.                                                                    *)
(***************************************************************************)
EXTENDS SurfaceJobs, TLAPS

(* One row per key, and an answer names the row of its key.                *)
RowsAndAnswers ==
    /\ \A i, j \in Request :
         status[i] # "NONE" /\ status[j] # "NONE" /\ SameKey(i, j) => i = j
    /\ \A r \in Request : asked[r] = "ANSWERED" =>
         /\ answer[r] \in Request
         /\ status[answer[r]] # "NONE"
         /\ SameKey(answer[r], r)

OperatorPc == {"grant", "operate", "rename", "record", "error"}
AnalysisPc == {"work", "fail"}
WorkPc == OperatorPc \cup AnalysisPc \cup {"complete", "abandon"}

(* A process works on a job of its role that names it and is ACTIVE.       *)
ClaimsAreNamed ==
    \A w \in Worker :
        /\ pc[w] \in WorkPc \cup {"claim", "gone"} => claim[w] \in Request
        /\ \A j \in Request : claim[w] = j =>
             /\ InRole(w, j)
             /\ status[j] # "NONE"
             /\ pc[w] # "start"
             /\ pc[w] # "claim" => by[j] = w /\ status[j] # "WAITING"
             /\ pc[w] \in WorkPc => status[j] = "ACTIVE"
        /\ pc[w] = "error" => says[w] \in {"FAILED", "RECOVERY_REQUIRED"}
        /\ pc[w] \in OperatorPc => RoleOf[w] = "OPERATOR"
        /\ pc[w] \in AnalysisPc => RoleOf[w] = "ANALYSIS"

(* A rename goes on under the root's lease only, and a result comes after  *)
(* the decision.                                                           *)
ResultsAreDecided ==
    /\ \A w \in Worker :
         /\ pc[w] = "rename" => root = w /\ rename \notin {"DECIDED", "ESCALATED"}
         /\ pc[w] = "record" => rename = "DECIDED"
         /\ pc[w] = "complete" /\ RoleOf[w] = "OPERATOR" => claim[w] \in results
    /\ \A j \in results : KindOf[j] # "FIXITY" => rename = "DECIDED"

RequestTypes ==
    /\ asked \in [Request -> {"UNSENT", "NEW", "LOOKED_UP", "ANSWERED", "REJECTED"}]
    /\ answer \in [Request -> Request \cup {None}]
JobTypes ==
    /\ status \in [Request -> {"NONE", "WAITING", "ACTIVE"} \cup Terminal]
    /\ by \in [Request -> Worker \cup {None}]
    /\ lease \in [Request -> {"NONE", "LIVE", "EXPIRED"}]
    /\ under \in [Request -> 0..MaxGrants]
QueueTypes == queue \in Seq(Request) /\ results \subseteq Request
WorkerTypes ==
    /\ pc \in [Worker -> {"start", "claim", "work", "grant", "operate", "rename", "record",
                        "complete", "error", "fail", "abandon", "ended", "gone"}]
    /\ claim \in [Worker -> Request \cup {None}]
    /\ keeper \in [Worker -> {"ON", "OFF", "LOST"}]
    /\ says \in [Worker -> {"NOTHING", "IDLE", "TERMINALIZATION_FAILED"} \cup Terminal]
OtherTypes ==
    /\ grants \in [1..MaxGrants -> {"NONE", "ACTIVE", "ENDED"}]
    /\ rename \in {"NONE", "PREPARED", "MOVED", "DECIDED", "ESCALATED"}
    /\ root \in Worker \cup {None}
    /\ faults \in 0..MaxFaults

IInv ==
    /\ TypeOK
    /\ RowsAndAnswers
    /\ ClaimsAreNamed
    /\ ResultsAreDecided
    /\ SuccessIsBacked
    /\ AnalysisWorkerTellsTheTruth

(* What the reports do to the row and to the process.                       *)
Pc == {"start", "claim", "work", "grant", "operate", "rename", "record",
       "complete", "error", "fail", "abandon", "ended", "gone"}
Words == {"NOTHING", "IDLE", "TERMINALIZATION_FAILED"} \cup Terminal
Ends(v) == \E end \in Terminal, words \in Words : SetStatus(v, end) /\ Says(v, "ended", words)
Talks(v) == UNCHANGED jobs /\ \E words \in Words : Says(v, "ended", words)
GoesOn(v) == UNCHANGED jobs /\ \E step \in Pc : Continues(v, step)

(* Each of these effects keeps the types of rows and processes.             *)
LEMMA EffectsKeepTypes ==
    ASSUME TypeOK, NEW v \in Worker, claim[v] \in Request, Ends(v) \/ Talks(v) \/ GoesOn(v)
    PROVE  JobTypes' /\ WorkerTypes'
  <1>1. CASE Ends(v)
    <2>1. PICK end \in Terminal, words \in Words : SetStatus(v, end) /\ Says(v, "ended", words)
      BY <1>1 DEF Ends
    <2>2. JobTypes'
      BY <2>1 DEF TypeOK, JobTypes, SetStatus
    <2>3. WorkerTypes'
      BY <2>1 DEF TypeOK, WorkerTypes, Says, GoesTo, Words
    <2> QED
      BY <2>2, <2>3
  <1>2. CASE Talks(v)
    BY <1>2 DEF Talks, TypeOK, JobTypes, WorkerTypes, Says, GoesTo, Words, jobs
  <1>3. CASE GoesOn(v)
    BY <1>3 DEF GoesOn, TypeOK, JobTypes, WorkerTypes, Continues, GoesTo, Pc, jobs
  <1> QED
    BY <1>1, <1>2, <1>3

(* A request adds its own row, waiting, or is answered from a row that is   *)
(* there; it changes nothing else.                                          *)
Replayed(r, j) ==
    /\ UNCHANGED rows
    /\ Answers(r, j) \/ (asked' = [asked EXCEPT ![r] = "REJECTED"] /\ UNCHANGED answer)
Added(r) == \E g \in 0..MaxGrants : Existing(r) = {} /\ Insert(r, g)
LookedUp(r) == UNCHANGED rows /\ asked' = [asked EXCEPT ![r] = "LOOKED_UP"] /\ UNCHANGED answer
Answered(r) == Added(r) \/ LookedUp(r) \/ \E j \in Existing(r) : Replayed(r, j)

LEMMA RequestEffects ==
    ASSUME NEW q \in Request, LookUpFixityJob(q) \/ InsertFixityJob(q) \/ RequestRename(q)
    PROVE  Answered(q) /\ UNCHANGED <<grants, run, worker, faults>>
  <1>1. CASE LookUpFixityJob(q)
    BY <1>1 DEF LookUpFixityJob, Answered, LookedUp, Replay, Replayed
  <1>2. CASE InsertFixityJob(q)
    <2>1. NoGrant \in 0..MaxGrants
      BY SurfaceAssumption DEF NoGrant
    <2>2. CASE Existing(q) = {} /\ Insert(q, NoGrant)
      BY <1>2, <2>1, <2>2 DEF InsertFixityJob, Answered, Added
    <2>3. ASSUME NEW j \in Existing(q), Replay(q, j, InputOf[j] = InputOf[q])
          PROVE  Answered(q)
      BY <2>3 DEF Answered, Replay, Replayed
    <2> QED
      BY <1>2, <2>2, <2>3 DEF InsertFixityJob
  <1>3. CASE RequestRename(q)
    <2>1. PICK g \in 1..MaxGrants :
            \/ Existing(q) = {} /\ Insert(q, g)
            \/ \E j \in Existing(q) : Replay(q, j, InputOf[j] = InputOf[q] /\ under[j] = g)
      BY <1>3 DEF RequestRename
    <2>2. g \in 0..MaxGrants
      BY SurfaceAssumption
    <2>3. CASE Existing(q) = {} /\ Insert(q, g)
      BY <1>3, <2>2, <2>3 DEF RequestRename, Answered, Added
    <2>4. ASSUME NEW j \in Existing(q), Replay(q, j, InputOf[j] = InputOf[q] /\ under[j] = g)
          PROVE  Answered(q)
      BY <2>4 DEF Answered, Replay, Replayed
    <2> QED
      BY <1>3, <2>1, <2>3, <2>4 DEF RequestRename
  <1> QED
    BY <1>1, <1>2, <1>3

LEMMA RequestsAddRows ==
    ASSUME TypeOK, NEW q \in Request,
           LookUpFixityJob(q) \/ InsertFixityJob(q) \/ RequestRename(q)
    PROVE  /\ UNCHANGED <<by, lease, results, grants, run, worker, faults>>
           /\ RequestTypes' /\ JobTypes' /\ QueueTypes'
           /\ \A j \in Request : status'[j] # status[j] => status[j] = "NONE" /\ status'[j] = "WAITING"
  <1>1. Answered(q) /\ UNCHANGED <<grants, run, worker, faults>>
    BY RequestEffects
  <1>2. CASE Added(q)
    <2>1. PICK g \in 0..MaxGrants : Existing(q) = {} /\ Insert(q, g)
      BY <1>2 DEF Added
    <2>2. status[q] = "NONE"
      BY <2>1 DEF Existing, SameKey
    <2>3. JobTypes' /\ UNCHANGED <<by, lease, results>>
      BY <2>1 DEF Insert, TypeOK, JobTypes
    <2>4. RequestTypes' /\ QueueTypes'
      BY <2>1 DEF Insert, Answers, TypeOK, RequestTypes, QueueTypes
    <2>5. \A j \in Request : status'[j] # status[j] => status[j] = "NONE" /\ status'[j] = "WAITING"
      BY <2>1, <2>2 DEF Insert, TypeOK
    <2> QED
      BY <1>1, <2>3, <2>4, <2>5
  <1>3. CASE LookedUp(q)
    BY <1>1, <1>3 DEF LookedUp, TypeOK, RequestTypes, JobTypes, QueueTypes, rows, jobs
  <1>4. ASSUME NEW j \in Existing(q), Replayed(q, j)
        PROVE  /\ UNCHANGED <<by, lease, results, status>>
               /\ RequestTypes' /\ JobTypes' /\ QueueTypes'
    <2>1. UNCHANGED rows /\ j \in Request
      BY <1>4 DEF Replayed, Existing
    <2>2. RequestTypes'
      BY <1>4, <2>1 DEF Replayed, Answers, TypeOK, RequestTypes
    <2> QED
      BY <2>1, <2>2 DEF rows, jobs, TypeOK, JobTypes, QueueTypes
  <1> QED
    BY <1>1, <1>2, <1>3, <1>4 DEF Answered

LEMMA RequestsKeepKeys ==
    ASSUME TypeOK, RowsAndAnswers, NEW q \in Request,
           LookUpFixityJob(q) \/ InsertFixityJob(q) \/ RequestRename(q)
    PROVE  RowsAndAnswers'
  <1>1. Answered(q)
    BY RequestEffects
  <1>2. CASE Added(q)
    <2>1. PICK g \in 0..MaxGrants : Existing(q) = {} /\ Insert(q, g)
      BY <1>2 DEF Added
    <2>2. \A j \in Request : status[j] # "NONE" => ~SameKey(j, q) /\ ~SameKey(q, j)
      BY <2>1 DEF Existing, SameKey
    <2>3. \A j \in Request : /\ status'[j] = IF j = q THEN "WAITING" ELSE status[j]
                             /\ asked'[j] = IF j = q THEN "ANSWERED" ELSE asked[j]
                             /\ answer'[j] = IF j = q THEN q ELSE answer[j]
      BY <2>1 DEF Insert, Answers, TypeOK
    <2>4. \A i, j \in Request :
            status'[i] # "NONE" /\ status'[j] # "NONE" /\ SameKey(i, j) => i = j
      BY <2>2, <2>3 DEF RowsAndAnswers
    <2>5. \A r \in Request : asked'[r] = "ANSWERED" =>
            answer'[r] \in Request /\ status'[answer'[r]] # "NONE" /\ SameKey(answer'[r], r)
      <3>1. SameKey(q, q)
        BY DEF SameKey
      <3> QED
        BY <2>3, <3>1 DEF RowsAndAnswers
    <2> QED
      BY <2>4, <2>5 DEF RowsAndAnswers, SameKey
  <1>3. CASE LookedUp(q)
    BY <1>3 DEF LookedUp, RowsAndAnswers, TypeOK, SameKey, rows, jobs
  <1>4. ASSUME NEW j \in Existing(q), Replayed(q, j)
        PROVE  RowsAndAnswers'
    BY <1>4 DEF Replayed, Answers, Existing, RowsAndAnswers, TypeOK, SameKey, rows, jobs
  <1> QED
    BY <1>1, <1>2, <1>3, <1>4 DEF Answered

(* A step keeps the types.                                                 *)
LEMMA TypesStay ==
    ASSUME TypeOK, ClaimsAreNamed, Next
    PROVE  TypeOK'
  <1> USE SurfaceAssumption DEF TypeOK, Kinds, Terminal, NoGrant
  <1>1. CASE ReauthenticateToOperate
    BY <1>1 DEF ReauthenticateToOperate, request, jobs, rows, run, worker, ClaimsAreNamed,
       WorkPc, OperatorPc, AnalysisPc
  <1>2. CASE GrantEnds
    BY <1>2 DEF GrantEnds, request, jobs, rows, run, worker, ClaimsAreNamed, WorkPc,
       OperatorPc, AnalysisPc
  <1>3. ASSUME NEW q \in Request, LookUpFixityJob(q)
        PROVE  TypeOK'
    BY <1>3, RequestsAddRows DEF RequestTypes, JobTypes, QueueTypes, run, worker
  <1>4. ASSUME NEW q \in Request, InsertFixityJob(q)
        PROVE  TypeOK'
    BY <1>4, RequestsAddRows DEF RequestTypes, JobTypes, QueueTypes, run, worker
  <1>5. ASSUME NEW q \in Request, RequestRename(q)
        PROVE  TypeOK'
    BY <1>5, RequestsAddRows DEF RequestTypes, JobTypes, QueueTypes, run, worker
  <1>6. ASSUME NEW v \in Worker, SelectJob(v)
        PROVE  TypeOK'
    BY <1>6 DEF SelectJob, Waits, GoesTo, request, jobs, rows, run, worker,
       ClaimsAreNamed, WorkPc, OperatorPc, AnalysisPc
  <1>7. ASSUME NEW v \in Worker, ClaimJob(v)
        PROVE  TypeOK'
    <2>1. claim[v] \in Request
      BY <1>7 DEF ClaimJob, ClaimsAreNamed, WorkPc, OperatorPc, AnalysisPc
    <2>2. RequestTypes' /\ OtherTypes' /\ QueueTypes'
      BY <1>7 DEF RequestTypes, OtherTypes, QueueTypes, ClaimJob, request, run
    <2>3. CASE Claims(v, claim[v])
      <3>1. FirstStep(v) \in {"work", "grant"}
        BY DEF FirstStep
      <3>2. JobTypes'
        BY <2>1, <2>3 DEF JobTypes, Claims
      <3>3. WorkerTypes'
        BY <2>3, <3>1 DEF WorkerTypes, Claims, GoesTo
      <3> QED
        BY <2>2, <3>2, <3>3
           DEF RequestTypes, JobTypes, QueueTypes, WorkerTypes, OtherTypes
    <2>4. CASE LosesClaim(v)
      <3>1. JobTypes'
        BY <2>4 DEF JobTypes, LosesClaim, jobs
      <3>2. WorkerTypes'
        BY <2>4 DEF WorkerTypes, LosesClaim, GoesTo
      <3> QED
        BY <2>2, <3>1, <3>2
           DEF RequestTypes, JobTypes, QueueTypes, WorkerTypes, OtherTypes
    <2> QED
      BY <1>7, <2>3, <2>4 DEF ClaimJob
  <1>8. ASSUME NEW v \in Worker, DoFixityWork(v)
        PROVE  TypeOK'
    <2>1. claim[v] \in Request
      BY <1>8 DEF DoFixityWork, ClaimsAreNamed, WorkPc, OperatorPc, AnalysisPc
    <2>2. RequestTypes' /\ OtherTypes' /\ JobTypes' /\ QueueTypes'
      BY <1>8, <2>1 DEF RequestTypes, OtherTypes, JobTypes, QueueTypes, DoFixityWork,
         Fault, request, run, rows, jobs
    <2>3. ASSUME NEW step \in Pc, Continues(v, step)
          PROVE  WorkerTypes'
      BY <2>3 DEF WorkerTypes, Continues, GoesTo, Pc
    <2>4. WorkerTypes'
      BY <1>8, <2>3 DEF DoFixityWork, Pc
    <2> QED
      BY <2>2, <2>4 DEF RequestTypes, JobTypes, QueueTypes, WorkerTypes, OtherTypes
  <1>9. ASSUME NEW v \in Worker, CompleteFixityJob(v)
        PROVE  TypeOK'
    <2>1. claim[v] \in Request /\ (pc[v] = "error" => says[v] \in Terminal)
      BY <1>9 DEF CompleteFixityJob, ClaimsAreNamed, WorkPc, OperatorPc, AnalysisPc
    <2>2. \/ Ends(v) \/ Talks(v) \/ GoesOn(v)
      BY <1>9, <2>1 DEF CompleteFixityJob, Ends, Talks, GoesOn, Pc, Words, Current
    <2>3. JobTypes' /\ WorkerTypes'
      BY <2>1, <2>2, EffectsKeepTypes
    <2>4. RequestTypes' /\ OtherTypes'
      BY <1>9 DEF RequestTypes, OtherTypes, CompleteFixityJob, Fault, request, run
    <2>5. QueueTypes'
      BY <1>9, <2>1 DEF QueueTypes, CompleteFixityJob
    <2> QED
      BY <2>3, <2>4, <2>5 DEF RequestTypes, JobTypes, QueueTypes, WorkerTypes, OtherTypes
  <1>10. ASSUME NEW v \in Worker, FailFixityJob(v)
        PROVE  TypeOK'
    <2>1. claim[v] \in Request /\ (pc[v] = "error" => says[v] \in Terminal)
      BY <1>10 DEF FailFixityJob, ClaimsAreNamed, WorkPc, OperatorPc, AnalysisPc
    <2>2. \/ Ends(v) \/ Talks(v) \/ GoesOn(v)
      BY <1>10, <2>1 DEF FailFixityJob, Ends, Talks, GoesOn, Pc, Words, Current
    <2>3. JobTypes' /\ WorkerTypes'
      BY <2>1, <2>2, EffectsKeepTypes
    <2>4. RequestTypes' /\ OtherTypes'
      BY <1>10 DEF RequestTypes, OtherTypes, FailFixityJob, Fault, request, run
    <2>5. QueueTypes'
      BY <1>10, <2>1 DEF QueueTypes, FailFixityJob
    <2> QED
      BY <2>3, <2>4, <2>5 DEF RequestTypes, JobTypes, QueueTypes, WorkerTypes, OtherTypes
  <1>11. ASSUME NEW v \in Worker, CheckGrant(v)
        PROVE  TypeOK'
    <2>1. claim[v] \in Request /\ (pc[v] = "error" => says[v] \in Terminal)
      BY <1>11 DEF CheckGrant, ClaimsAreNamed, WorkPc, OperatorPc, AnalysisPc
    <2>2. \/ Ends(v) \/ Talks(v) \/ GoesOn(v)
      BY <1>11, <2>1 DEF CheckGrant, Ends, Talks, GoesOn, Pc, Words, ReportError, Current
    <2>3. JobTypes' /\ WorkerTypes'
      BY <2>1, <2>2, EffectsKeepTypes
    <2>4. RequestTypes' /\ OtherTypes'
      BY <1>11 DEF RequestTypes, OtherTypes, CheckGrant, request, run
    <2>5. QueueTypes'
      BY <1>11, <2>1 DEF QueueTypes, CheckGrant
    <2> QED
      BY <2>3, <2>4, <2>5 DEF RequestTypes, JobTypes, QueueTypes, WorkerTypes, OtherTypes
  <1>12. ASSUME NEW v \in Worker, EnterRename(v)
        PROVE  TypeOK'
    BY <1>12 DEF EnterRename, Continues, GoesTo, RootIsFree, Gone, request, jobs, rows,
       run, worker, ClaimsAreNamed, WorkPc, OperatorPc, AnalysisPc
  <1>13. ASSUME NEW v \in Worker, RepeatResult(v)
        PROVE  TypeOK'
    BY <1>13 DEF RepeatResult, Continues, GoesTo, request, jobs, rows, run, worker,
       ClaimsAreNamed, WorkPc, OperatorPc, AnalysisPc
  <1>14. ASSUME NEW v \in Worker, RefuseRename(v)
        PROVE  TypeOK'
    BY <1>14 DEF RefuseRename, Errs, request, jobs, rows, run, worker, ClaimsAreNamed,
       WorkPc, OperatorPc, AnalysisPc
  <1>15. ASSUME NEW v \in Worker, PrepareRun(v)
        PROVE  TypeOK'
    BY <1>15 DEF PrepareRun, request, jobs, rows, run, worker, ClaimsAreNamed, WorkPc,
       OperatorPc, AnalysisPc
  <1>16. ASSUME NEW v \in Worker, MoveBook(v)
        PROVE  TypeOK'
    BY <1>16 DEF MoveBook, request, jobs, rows, run, worker, ClaimsAreNamed, WorkPc,
       OperatorPc, AnalysisPc
  <1>17. ASSUME NEW v \in Worker, DecideRename(v)
        PROVE  TypeOK'
    BY <1>17 DEF DecideRename, Continues, GoesTo, request, jobs, rows, run, worker,
       ClaimsAreNamed, WorkPc, OperatorPc, AnalysisPc
  <1>18. ASSUME NEW v \in Worker, RenameFails(v)
        PROVE  TypeOK'
    BY <1>18 DEF RenameFails, Errs, request, jobs, rows, run, worker, ClaimsAreNamed,
       WorkPc, OperatorPc, AnalysisPc
  <1>19. ASSUME NEW v \in Worker, RecordResult(v)
        PROVE  TypeOK'
    <2>1. claim[v] \in Request
      BY <1>19 DEF RecordResult, ClaimsAreNamed, WorkPc, OperatorPc, AnalysisPc
    <2>2. RequestTypes' /\ OtherTypes' /\ JobTypes' /\ QueueTypes'
      BY <1>19, <2>1 DEF RequestTypes, OtherTypes, JobTypes, QueueTypes, RecordResult,
         Fault, request, run, rows, jobs
    <2>3. ASSUME NEW step \in Pc, Continues(v, step)
          PROVE  WorkerTypes'
      BY <2>3 DEF WorkerTypes, Continues, GoesTo, Pc
    <2>4. WorkerTypes'
      <3>1. ASSUME NEW end \in {"FAILED", "RECOVERY_REQUIRED"}, Errs(v, end)
            PROVE  WorkerTypes'
        BY <3>1 DEF WorkerTypes, Errs
      <3> QED
        BY <1>19, <2>3, <3>1 DEF RecordResult, Pc
    <2> QED
      BY <2>2, <2>4 DEF RequestTypes, JobTypes, QueueTypes, WorkerTypes, OtherTypes
  <1>20. ASSUME NEW v \in Worker, ReportRenameError(v)
        PROVE  TypeOK'
    <2>1. claim[v] \in Request /\ (pc[v] = "error" => says[v] \in Terminal)
      BY <1>20 DEF ReportRenameError, ClaimsAreNamed, WorkPc, OperatorPc, AnalysisPc
    <2>2. \/ Ends(v) \/ Talks(v) \/ GoesOn(v)
      BY <1>20, <2>1 DEF ReportRenameError, Ends, Talks, GoesOn, Pc, Words, ReportError,
         Current
    <2>3. JobTypes' /\ WorkerTypes'
      BY <2>1, <2>2, EffectsKeepTypes
    <2>4. RequestTypes' /\ OtherTypes'
      BY <1>20 DEF RequestTypes, OtherTypes, ReportRenameError, request, run
    <2>5. QueueTypes'
      BY <1>20, <2>1 DEF QueueTypes, ReportRenameError
    <2> QED
      BY <2>3, <2>4, <2>5 DEF RequestTypes, JobTypes, QueueTypes, WorkerTypes, OtherTypes
  <1>21. ASSUME NEW v \in Worker, CompleteRenameJob(v)
        PROVE  TypeOK'
    <2>1. claim[v] \in Request /\ (pc[v] = "error" => says[v] \in Terminal)
      BY <1>21 DEF CompleteRenameJob, ClaimsAreNamed, WorkPc, OperatorPc, AnalysisPc
    <2>2. \/ Ends(v) \/ Talks(v) \/ GoesOn(v)
      BY <1>21, <2>1 DEF CompleteRenameJob, Ends, Talks, GoesOn, Pc, Words, Current
    <2>3. JobTypes' /\ WorkerTypes'
      BY <2>1, <2>2, EffectsKeepTypes
    <2>4. RequestTypes' /\ OtherTypes'
      BY <1>21 DEF RequestTypes, OtherTypes, CompleteRenameJob, request, run
    <2>5. QueueTypes'
      BY <1>21, <2>1 DEF QueueTypes, CompleteRenameJob
    <2> QED
      BY <2>3, <2>4, <2>5 DEF RequestTypes, JobTypes, QueueTypes, WorkerTypes, OtherTypes
  <1>22. ASSUME NEW v \in Worker, Abandon(v)
        PROVE  TypeOK'
    <2>1. claim[v] \in Request /\ (pc[v] = "error" => says[v] \in Terminal)
      BY <1>22 DEF Abandon, ClaimsAreNamed, WorkPc, OperatorPc, AnalysisPc
    <2>2. \/ Ends(v) \/ Talks(v) \/ GoesOn(v)
      BY <1>22, <2>1 DEF Abandon, Ends, Talks, GoesOn, Pc, Words
    <2>3. JobTypes' /\ WorkerTypes'
      BY <2>1, <2>2, EffectsKeepTypes
    <2>4. RequestTypes' /\ OtherTypes'
      BY <1>22 DEF RequestTypes, OtherTypes, Abandon, Fault, request, run
    <2>5. QueueTypes'
      BY <1>22, <2>1 DEF QueueTypes, Abandon
    <2> QED
      BY <2>3, <2>4, <2>5 DEF RequestTypes, JobTypes, QueueTypes, WorkerTypes, OtherTypes
  <1>23. ASSUME NEW v \in Worker, HeartbeatRefused(v)
        PROVE  TypeOK'
    BY <1>23 DEF HeartbeatRefused, KeeperRuns, request, jobs, rows, run, worker,
       ClaimsAreNamed, WorkPc, OperatorPc, AnalysisPc
  <1>24. ASSUME NEW v \in Worker, HeartbeatFails(v)
        PROVE  TypeOK'
    BY <1>24 DEF HeartbeatFails, KeeperRuns, Fault, request, jobs, rows, run, worker,
       ClaimsAreNamed, WorkPc, OperatorPc, AnalysisPc
  <1>25. ASSUME NEW q \in Request, LeaseLapses(q)
        PROVE  TypeOK'
    BY <1>25 DEF LeaseLapses, Lapse, request, jobs, rows, run, worker, ClaimsAreNamed,
       WorkPc, OperatorPc, AnalysisPc
  <1>26. ASSUME NEW q \in Request, LeaseLapsesUnderWorker(q)
        PROVE  TypeOK'
    BY <1>26 DEF LeaseLapsesUnderWorker, Lapse, Fault, request, jobs, rows, run, worker,
       ClaimsAreNamed, WorkPc, OperatorPc, AnalysisPc
  <1>27. ASSUME NEW v \in Worker, WorkerDies(v)
        PROVE  TypeOK'
    BY <1>27 DEF WorkerDies, Works, Fault, request, jobs, rows, run, worker,
       ClaimsAreNamed, WorkPc, OperatorPc, AnalysisPc
  <1> QED
    BY <1>1, <1>2, <1>3, <1>4, <1>5, <1>6, <1>7, <1>8, <1>9, <1>10, <1>11, <1>12, <1>13,
       <1>14, <1>15, <1>16, <1>17, <1>18, <1>19, <1>20, <1>21, <1>22, <1>23, <1>24, <1>25,
       <1>26, <1>27 DEF Next, Claim, WorkerStep, AnalysisStep, OperatorStep, Keeper

(* A step keeps one row per key.                                           *)
LEMMA RowsStay ==
    ASSUME TypeOK, RowsAndAnswers, ClaimsAreNamed, TypeOK', Next
    PROVE  RowsAndAnswers'
  <1> USE SurfaceAssumption DEF TypeOK, Kinds, Terminal, NoGrant
  <1>1. CASE ReauthenticateToOperate
    BY <1>1 DEF ReauthenticateToOperate, request, jobs, rows, run, worker, RowsAndAnswers,
       SameKey, Existing, ClaimsAreNamed, WorkPc, OperatorPc, AnalysisPc
  <1>2. CASE GrantEnds
    BY <1>2 DEF GrantEnds, request, jobs, rows, run, worker, RowsAndAnswers, SameKey,
       Existing, ClaimsAreNamed, WorkPc, OperatorPc, AnalysisPc
  <1>3. ASSUME NEW q \in Request, LookUpFixityJob(q)
        PROVE  RowsAndAnswers'
    BY <1>3, RequestsKeepKeys
  <1>4. ASSUME NEW q \in Request, InsertFixityJob(q)
        PROVE  RowsAndAnswers'
    BY <1>4, RequestsKeepKeys
  <1>5. ASSUME NEW q \in Request, RequestRename(q)
        PROVE  RowsAndAnswers'
    BY <1>5, RequestsKeepKeys
  <1>6. ASSUME NEW v \in Worker, SelectJob(v)
        PROVE  RowsAndAnswers'
    BY <1>6 DEF SelectJob, Waits, GoesTo, request, jobs, rows, run, worker,
       RowsAndAnswers, SameKey, Existing, ClaimsAreNamed, WorkPc, OperatorPc, AnalysisPc
  <1>7. ASSUME NEW v \in Worker, ClaimJob(v)
        PROVE  RowsAndAnswers'
    <2>1. claim[v] \in Request /\ status[claim[v]] # "NONE"
      BY <1>7 DEF ClaimJob, ClaimsAreNamed, WorkPc, OperatorPc, AnalysisPc
    <2>2. \A j \in Request : status'[j] # "NONE" <=> status[j] # "NONE"
      BY <1>7, <2>1 DEF ClaimJob, GoesTo, Claims, LosesClaim, FirstStep, request, jobs,
         rows, run, worker
    <2>3. UNCHANGED request
      BY <1>7 DEF ClaimJob, GoesTo, Claims, LosesClaim, FirstStep, request, jobs, rows,
         run, worker
    <2> QED
      BY <2>2, <2>3 DEF RowsAndAnswers, SameKey, request
  <1>8. ASSUME NEW v \in Worker, DoFixityWork(v)
        PROVE  RowsAndAnswers'
    BY <1>8 DEF DoFixityWork, Continues, GoesTo, request, jobs, rows, run, worker,
       RowsAndAnswers, SameKey, Existing, ClaimsAreNamed, WorkPc, OperatorPc, AnalysisPc
  <1>9. ASSUME NEW v \in Worker, CompleteFixityJob(v)
        PROVE  RowsAndAnswers'
    <2>1. claim[v] \in Request /\ status[claim[v]] # "NONE"
      BY <1>9 DEF CompleteFixityJob, ClaimsAreNamed, WorkPc, OperatorPc, AnalysisPc
    <2>2. \A j \in Request : status'[j] # "NONE" <=> status[j] # "NONE"
      BY <1>9, <2>1 DEF CompleteFixityJob, Continues, GoesTo, SetStatus, Says, Current,
         Mine, Fault, request, jobs, rows, run, worker
    <2>3. UNCHANGED request
      BY <1>9 DEF CompleteFixityJob, Continues, GoesTo, SetStatus, Says, Current, Mine,
         Fault, request, jobs, rows, run, worker
    <2> QED
      BY <2>2, <2>3 DEF RowsAndAnswers, SameKey, request
  <1>10. ASSUME NEW v \in Worker, FailFixityJob(v)
        PROVE  RowsAndAnswers'
    <2>1. claim[v] \in Request /\ status[claim[v]] # "NONE"
      BY <1>10 DEF FailFixityJob, ClaimsAreNamed, WorkPc, OperatorPc, AnalysisPc
    <2>2. \A j \in Request : status'[j] # "NONE" <=> status[j] # "NONE"
      BY <1>10, <2>1 DEF FailFixityJob, Continues, GoesTo, SetStatus, Says, Current, Mine,
         Fault, request, jobs, rows, run, worker
    <2>3. UNCHANGED request
      BY <1>10 DEF FailFixityJob, Continues, GoesTo, SetStatus, Says, Current, Mine,
         Fault, request, jobs, rows, run, worker
    <2> QED
      BY <2>2, <2>3 DEF RowsAndAnswers, SameKey, request
  <1>11. ASSUME NEW v \in Worker, CheckGrant(v)
        PROVE  RowsAndAnswers'
    <2>1. claim[v] \in Request /\ status[claim[v]] # "NONE"
      BY <1>11 DEF CheckGrant, ClaimsAreNamed, WorkPc, OperatorPc, AnalysisPc
    <2>2. \A j \in Request : status'[j] # "NONE" <=> status[j] # "NONE"
      BY <1>11, <2>1 DEF CheckGrant, Continues, GoesTo, ReportError, SetStatus, Says,
         Current, Mine, request, jobs, rows, run, worker
    <2>3. UNCHANGED request
      BY <1>11 DEF CheckGrant, Continues, GoesTo, ReportError, SetStatus, Says, Current,
         Mine, request, jobs, rows, run, worker
    <2> QED
      BY <2>2, <2>3 DEF RowsAndAnswers, SameKey, request
  <1>12. ASSUME NEW v \in Worker, EnterRename(v)
        PROVE  RowsAndAnswers'
    BY <1>12 DEF EnterRename, Continues, GoesTo, RootIsFree, Gone, request, jobs, rows,
       run, worker, RowsAndAnswers, SameKey, Existing, ClaimsAreNamed, WorkPc, OperatorPc,
       AnalysisPc
  <1>13. ASSUME NEW v \in Worker, RepeatResult(v)
        PROVE  RowsAndAnswers'
    BY <1>13 DEF RepeatResult, Continues, GoesTo, request, jobs, rows, run, worker,
       RowsAndAnswers, SameKey, Existing, ClaimsAreNamed, WorkPc, OperatorPc, AnalysisPc
  <1>14. ASSUME NEW v \in Worker, RefuseRename(v)
        PROVE  RowsAndAnswers'
    BY <1>14 DEF RefuseRename, Errs, request, jobs, rows, run, worker, RowsAndAnswers,
       SameKey, Existing, ClaimsAreNamed, WorkPc, OperatorPc, AnalysisPc
  <1>15. ASSUME NEW v \in Worker, PrepareRun(v)
        PROVE  RowsAndAnswers'
    BY <1>15 DEF PrepareRun, request, jobs, rows, run, worker, RowsAndAnswers, SameKey,
       Existing, ClaimsAreNamed, WorkPc, OperatorPc, AnalysisPc
  <1>16. ASSUME NEW v \in Worker, MoveBook(v)
        PROVE  RowsAndAnswers'
    BY <1>16 DEF MoveBook, request, jobs, rows, run, worker, RowsAndAnswers, SameKey,
       Existing, ClaimsAreNamed, WorkPc, OperatorPc, AnalysisPc
  <1>17. ASSUME NEW v \in Worker, DecideRename(v)
        PROVE  RowsAndAnswers'
    BY <1>17 DEF DecideRename, Continues, GoesTo, request, jobs, rows, run, worker,
       RowsAndAnswers, SameKey, Existing, ClaimsAreNamed, WorkPc, OperatorPc, AnalysisPc
  <1>18. ASSUME NEW v \in Worker, RenameFails(v)
        PROVE  RowsAndAnswers'
    BY <1>18 DEF RenameFails, Errs, request, jobs, rows, run, worker, RowsAndAnswers,
       SameKey, Existing, ClaimsAreNamed, WorkPc, OperatorPc, AnalysisPc
  <1>19. ASSUME NEW v \in Worker, RecordResult(v)
        PROVE  RowsAndAnswers'
    BY <1>19 DEF RecordResult, Errs, Continues, GoesTo, Fault, request, jobs, rows, run,
       worker, RowsAndAnswers, SameKey, Existing, ClaimsAreNamed, WorkPc, OperatorPc,
       AnalysisPc
  <1>20. ASSUME NEW v \in Worker, ReportRenameError(v)
        PROVE  RowsAndAnswers'
    <2>1. claim[v] \in Request /\ status[claim[v]] # "NONE"
      BY <1>20 DEF ReportRenameError, ClaimsAreNamed, WorkPc, OperatorPc, AnalysisPc
    <2>2. \A j \in Request : status'[j] # "NONE" <=> status[j] # "NONE"
      BY <1>20, <2>1 DEF ReportRenameError, ReportError, SetStatus, Says, GoesTo, Current,
         Mine, request, jobs, rows, run, worker
    <2>3. UNCHANGED request
      BY <1>20 DEF ReportRenameError, ReportError, SetStatus, Says, GoesTo, Current, Mine,
         request, jobs, rows, run, worker
    <2> QED
      BY <2>2, <2>3 DEF RowsAndAnswers, SameKey, request
  <1>21. ASSUME NEW v \in Worker, CompleteRenameJob(v)
        PROVE  RowsAndAnswers'
    <2>1. claim[v] \in Request /\ status[claim[v]] # "NONE"
      BY <1>21 DEF CompleteRenameJob, ClaimsAreNamed, WorkPc, OperatorPc, AnalysisPc
    <2>2. \A j \in Request : status'[j] # "NONE" <=> status[j] # "NONE"
      BY <1>21, <2>1 DEF CompleteRenameJob, Continues, GoesTo, SetStatus, Says, Current,
         Mine, request, jobs, rows, run, worker
    <2>3. UNCHANGED request
      BY <1>21 DEF CompleteRenameJob, Continues, GoesTo, SetStatus, Says, Current, Mine,
         request, jobs, rows, run, worker
    <2> QED
      BY <2>2, <2>3 DEF RowsAndAnswers, SameKey, request
  <1>22. ASSUME NEW v \in Worker, Abandon(v)
        PROVE  RowsAndAnswers'
    <2>1. claim[v] \in Request /\ status[claim[v]] # "NONE"
      BY <1>22 DEF Abandon, ClaimsAreNamed, WorkPc, OperatorPc, AnalysisPc
    <2>2. \A j \in Request : status'[j] # "NONE" <=> status[j] # "NONE"
      BY <1>22, <2>1 DEF Abandon, SetStatus, Says, GoesTo, Current, Mine, Fault, request,
         jobs, rows, run, worker
    <2>3. UNCHANGED request
      BY <1>22 DEF Abandon, SetStatus, Says, GoesTo, Current, Mine, Fault, request, jobs,
         rows, run, worker
    <2> QED
      BY <2>2, <2>3 DEF RowsAndAnswers, SameKey, request
  <1>23. ASSUME NEW v \in Worker, HeartbeatRefused(v)
        PROVE  RowsAndAnswers'
    BY <1>23 DEF HeartbeatRefused, KeeperRuns, request, jobs, rows, run, worker,
       RowsAndAnswers, SameKey, Existing, ClaimsAreNamed, WorkPc, OperatorPc, AnalysisPc
  <1>24. ASSUME NEW v \in Worker, HeartbeatFails(v)
        PROVE  RowsAndAnswers'
    BY <1>24 DEF HeartbeatFails, KeeperRuns, Fault, request, jobs, rows, run, worker,
       RowsAndAnswers, SameKey, Existing, ClaimsAreNamed, WorkPc, OperatorPc, AnalysisPc
  <1>25. ASSUME NEW q \in Request, LeaseLapses(q)
        PROVE  RowsAndAnswers'
    BY <1>25 DEF LeaseLapses, Lapse, request, jobs, rows, run, worker, RowsAndAnswers,
       SameKey, Existing, ClaimsAreNamed, WorkPc, OperatorPc, AnalysisPc
  <1>26. ASSUME NEW q \in Request, LeaseLapsesUnderWorker(q)
        PROVE  RowsAndAnswers'
    BY <1>26 DEF LeaseLapsesUnderWorker, Lapse, Fault, request, jobs, rows, run, worker,
       RowsAndAnswers, SameKey, Existing, ClaimsAreNamed, WorkPc, OperatorPc, AnalysisPc
  <1>27. ASSUME NEW v \in Worker, WorkerDies(v)
        PROVE  RowsAndAnswers'
    BY <1>27 DEF WorkerDies, Works, Fault, request, jobs, rows, run, worker,
       RowsAndAnswers, SameKey, Existing, ClaimsAreNamed, WorkPc, OperatorPc, AnalysisPc
  <1> QED
    BY <1>1, <1>2, <1>3, <1>4, <1>5, <1>6, <1>7, <1>8, <1>9, <1>10, <1>11, <1>12, <1>13,
       <1>14, <1>15, <1>16, <1>17, <1>18, <1>19, <1>20, <1>21, <1>22, <1>23, <1>24, <1>25,
       <1>26, <1>27 DEF Next, Claim, WorkerStep, AnalysisStep, OperatorStep, Keeper

(* A step keeps the claims.                                                *)
LEMMA ClaimsStay ==
    ASSUME TypeOK, ClaimsAreNamed, TypeOK', Next
    PROVE  ClaimsAreNamed'
  <1> USE SurfaceAssumption DEF TypeOK, Kinds, Terminal, NoGrant, ClaimsAreNamed, WorkPc,
     OperatorPc, AnalysisPc, InRole
  <1>1. CASE ReauthenticateToOperate
    BY <1>1 DEF ReauthenticateToOperate, request, jobs, rows, run, worker
  <1>2. CASE GrantEnds
    BY <1>2 DEF GrantEnds, request, jobs, rows, run, worker
  <1>3. ASSUME NEW q \in Request, LookUpFixityJob(q)
        PROVE  ClaimsAreNamed'
    <2>1. /\ UNCHANGED <<by, results, run, worker>>
          /\ \A j \in Request : status'[j] # status[j] => status[j] = "NONE" /\ status'[j] = "WAITING"
      BY <1>3, RequestsAddRows
    <2> QED
      BY <2>1 DEF run, worker
  <1>4. ASSUME NEW q \in Request, InsertFixityJob(q)
        PROVE  ClaimsAreNamed'
    <2>1. /\ UNCHANGED <<by, results, run, worker>>
          /\ \A j \in Request : status'[j] # status[j] => status[j] = "NONE" /\ status'[j] = "WAITING"
      BY <1>4, RequestsAddRows
    <2> QED
      BY <2>1 DEF run, worker
  <1>5. ASSUME NEW q \in Request, RequestRename(q)
        PROVE  ClaimsAreNamed'
    <2>1. /\ UNCHANGED <<by, results, run, worker>>
          /\ \A j \in Request : status'[j] # status[j] => status[j] = "NONE" /\ status'[j] = "WAITING"
      BY <1>5, RequestsAddRows
    <2> QED
      BY <2>1 DEF run, worker
  <1>6. ASSUME NEW v \in Worker, SelectJob(v)
        PROVE  ClaimsAreNamed'
    BY <1>6 DEF SelectJob, Waits, GoesTo, request, jobs, rows, run, worker
  <1>7. ASSUME NEW v \in Worker, ClaimJob(v)
        PROVE  ClaimsAreNamed'
    BY <1>7 DEF ClaimJob, GoesTo, Claims, LosesClaim, FirstStep, request, jobs, rows, run,
       worker
  <1>8. ASSUME NEW v \in Worker, DoFixityWork(v)
        PROVE  ClaimsAreNamed'
    BY <1>8 DEF DoFixityWork, Continues, GoesTo, request, jobs, rows, run, worker
  <1>9. ASSUME NEW v \in Worker, CompleteFixityJob(v)
        PROVE  ClaimsAreNamed'
    BY <1>9 DEF CompleteFixityJob, Continues, GoesTo, SetStatus, Says, Current, Mine,
       Fault, request, jobs, rows, run, worker
  <1>10. ASSUME NEW v \in Worker, FailFixityJob(v)
        PROVE  ClaimsAreNamed'
    BY <1>10 DEF FailFixityJob, Continues, GoesTo, SetStatus, Says, Current, Mine, Fault,
       request, jobs, rows, run, worker
  <1>11. ASSUME NEW v \in Worker, CheckGrant(v)
        PROVE  ClaimsAreNamed'
    BY <1>11 DEF CheckGrant, Continues, GoesTo, ReportError, SetStatus, Says, Current,
       Mine, request, jobs, rows, run, worker
  <1>12. ASSUME NEW v \in Worker, EnterRename(v)
        PROVE  ClaimsAreNamed'
    BY <1>12 DEF EnterRename, Continues, GoesTo, RootIsFree, Gone, request, jobs, rows,
       run, worker
  <1>13. ASSUME NEW v \in Worker, RepeatResult(v)
        PROVE  ClaimsAreNamed'
    BY <1>13 DEF RepeatResult, Continues, GoesTo, request, jobs, rows, run, worker
  <1>14. ASSUME NEW v \in Worker, RefuseRename(v)
        PROVE  ClaimsAreNamed'
    BY <1>14 DEF RefuseRename, Errs, request, jobs, rows, run, worker
  <1>15. ASSUME NEW v \in Worker, PrepareRun(v)
        PROVE  ClaimsAreNamed'
    BY <1>15 DEF PrepareRun, request, jobs, rows, run, worker
  <1>16. ASSUME NEW v \in Worker, MoveBook(v)
        PROVE  ClaimsAreNamed'
    BY <1>16 DEF MoveBook, request, jobs, rows, run, worker
  <1>17. ASSUME NEW v \in Worker, DecideRename(v)
        PROVE  ClaimsAreNamed'
    BY <1>17 DEF DecideRename, Continues, GoesTo, request, jobs, rows, run, worker
  <1>18. ASSUME NEW v \in Worker, RenameFails(v)
        PROVE  ClaimsAreNamed'
    BY <1>18 DEF RenameFails, Errs, request, jobs, rows, run, worker
  <1>19. ASSUME NEW v \in Worker, RecordResult(v)
        PROVE  ClaimsAreNamed'
    BY <1>19 DEF RecordResult, Errs, Continues, GoesTo, Fault, request, jobs, rows, run,
       worker
  <1>20. ASSUME NEW v \in Worker, ReportRenameError(v)
        PROVE  ClaimsAreNamed'
    BY <1>20 DEF ReportRenameError, ReportError, SetStatus, Says, GoesTo, Current, Mine,
       request, jobs, rows, run, worker
  <1>21. ASSUME NEW v \in Worker, CompleteRenameJob(v)
        PROVE  ClaimsAreNamed'
    BY <1>21 DEF CompleteRenameJob, Continues, GoesTo, SetStatus, Says, Current, Mine,
       request, jobs, rows, run, worker
  <1>22. ASSUME NEW v \in Worker, Abandon(v)
        PROVE  ClaimsAreNamed'
    BY <1>22 DEF Abandon, SetStatus, Says, GoesTo, Current, Mine, Fault, request, jobs,
       rows, run, worker
  <1>23. ASSUME NEW v \in Worker, HeartbeatRefused(v)
        PROVE  ClaimsAreNamed'
    BY <1>23 DEF HeartbeatRefused, KeeperRuns, request, jobs, rows, run, worker
  <1>24. ASSUME NEW v \in Worker, HeartbeatFails(v)
        PROVE  ClaimsAreNamed'
    BY <1>24 DEF HeartbeatFails, KeeperRuns, Fault, request, jobs, rows, run, worker
  <1>25. ASSUME NEW q \in Request, LeaseLapses(q)
        PROVE  ClaimsAreNamed'
    BY <1>25 DEF LeaseLapses, Lapse, request, jobs, rows, run, worker
  <1>26. ASSUME NEW q \in Request, LeaseLapsesUnderWorker(q)
        PROVE  ClaimsAreNamed'
    BY <1>26 DEF LeaseLapsesUnderWorker, Lapse, Fault, request, jobs, rows, run, worker
  <1>27. ASSUME NEW v \in Worker, WorkerDies(v)
        PROVE  ClaimsAreNamed'
    BY <1>27 DEF WorkerDies, Works, Fault, request, jobs, rows, run, worker
  <1> QED
    BY <1>1, <1>2, <1>3, <1>4, <1>5, <1>6, <1>7, <1>8, <1>9, <1>10, <1>11, <1>12, <1>13,
       <1>14, <1>15, <1>16, <1>17, <1>18, <1>19, <1>20, <1>21, <1>22, <1>23, <1>24, <1>25,
       <1>26, <1>27 DEF Next, Claim, WorkerStep, AnalysisStep, OperatorStep, Keeper

(* A step keeps results after decisions.                                   *)
LEMMA ResultsStay ==
    ASSUME TypeOK, ClaimsAreNamed, ResultsAreDecided, SuccessIsBacked, TypeOK', Next
    PROVE  ResultsAreDecided'
  <1> USE SurfaceAssumption DEF TypeOK, Kinds, Terminal, NoGrant, ResultsAreDecided,
     ClaimsAreNamed, WorkPc, OperatorPc, AnalysisPc, InRole
  <1>1. CASE ReauthenticateToOperate
    BY <1>1 DEF ReauthenticateToOperate, request, jobs, rows, run, worker
  <1>2. CASE GrantEnds
    BY <1>2 DEF GrantEnds, request, jobs, rows, run, worker
  <1>3. ASSUME NEW q \in Request, LookUpFixityJob(q)
        PROVE  ResultsAreDecided'
    BY <1>3 DEF LookUpFixityJob, Replay, Answers, request, jobs, rows, run, worker
  <1>4. ASSUME NEW q \in Request, InsertFixityJob(q)
        PROVE  ResultsAreDecided'
    BY <1>4 DEF InsertFixityJob, Insert, Replay, Answers, request, jobs, rows, run, worker
  <1>5. ASSUME NEW q \in Request, RequestRename(q)
        PROVE  ResultsAreDecided'
    BY <1>5 DEF RequestRename, Insert, Replay, Answers, request, jobs, rows, run, worker
  <1>6. ASSUME NEW v \in Worker, SelectJob(v)
        PROVE  ResultsAreDecided'
    BY <1>6 DEF SelectJob, Waits, GoesTo, request, jobs, rows, run, worker
  <1>7. ASSUME NEW v \in Worker, ClaimJob(v)
        PROVE  ResultsAreDecided'
    BY <1>7 DEF ClaimJob, GoesTo, Claims, LosesClaim, FirstStep, request, jobs, rows, run,
       worker
  <1>8. ASSUME NEW v \in Worker, DoFixityWork(v)
        PROVE  ResultsAreDecided'
    BY <1>8 DEF DoFixityWork, Continues, GoesTo, request, jobs, rows, run, worker
  <1>9. ASSUME NEW v \in Worker, CompleteFixityJob(v)
        PROVE  ResultsAreDecided'
    BY <1>9 DEF CompleteFixityJob, Continues, GoesTo, SetStatus, Says, Current, Mine,
       Fault, request, jobs, rows, run, worker
  <1>10. ASSUME NEW v \in Worker, FailFixityJob(v)
        PROVE  ResultsAreDecided'
    BY <1>10 DEF FailFixityJob, Continues, GoesTo, SetStatus, Says, Current, Mine, Fault,
       request, jobs, rows, run, worker
  <1>11. ASSUME NEW v \in Worker, CheckGrant(v)
        PROVE  ResultsAreDecided'
    BY <1>11 DEF CheckGrant, Continues, GoesTo, ReportError, SetStatus, Says, Current,
       Mine, request, jobs, rows, run, worker
  <1>12. ASSUME NEW v \in Worker, EnterRename(v)
        PROVE  ResultsAreDecided'
    BY <1>12 DEF EnterRename, Continues, GoesTo, RootIsFree, Gone, request, jobs, rows,
       run, worker
  <1>13. ASSUME NEW v \in Worker, RepeatResult(v)
        PROVE  ResultsAreDecided'
    BY <1>13 DEF RepeatResult, Continues, GoesTo, request, jobs, rows, run, worker
  <1>14. ASSUME NEW v \in Worker, RefuseRename(v)
        PROVE  ResultsAreDecided'
    BY <1>14 DEF RefuseRename, Errs, request, jobs, rows, run, worker
  <1>15. ASSUME NEW v \in Worker, PrepareRun(v)
        PROVE  ResultsAreDecided'
    BY <1>15 DEF PrepareRun, request, jobs, rows, run, worker
  <1>16. ASSUME NEW v \in Worker, MoveBook(v)
        PROVE  ResultsAreDecided'
    BY <1>16 DEF MoveBook, request, jobs, rows, run, worker
  <1>17. ASSUME NEW v \in Worker, DecideRename(v)
        PROVE  ResultsAreDecided'
    BY <1>17 DEF DecideRename, Continues, GoesTo, request, jobs, rows, run, worker
  <1>18. ASSUME NEW v \in Worker, RenameFails(v)
        PROVE  ResultsAreDecided'
    BY <1>18 DEF RenameFails, Errs, request, jobs, rows, run, worker
  <1>19. ASSUME NEW v \in Worker, RecordResult(v)
        PROVE  ResultsAreDecided'
    BY <1>19 DEF RecordResult, Errs, Continues, GoesTo, Fault, request, jobs, rows, run,
       worker
  <1>20. ASSUME NEW v \in Worker, ReportRenameError(v)
        PROVE  ResultsAreDecided'
    BY <1>20 DEF ReportRenameError, ReportError, SetStatus, Says, GoesTo, Current, Mine,
       request, jobs, rows, run, worker
  <1>21. ASSUME NEW v \in Worker, CompleteRenameJob(v)
        PROVE  ResultsAreDecided'
    BY <1>21 DEF CompleteRenameJob, Continues, GoesTo, SetStatus, Says, Current, Mine,
       request, jobs, rows, run, worker
  <1>22. ASSUME NEW v \in Worker, Abandon(v)
        PROVE  ResultsAreDecided'
    BY <1>22 DEF Abandon, SetStatus, Says, GoesTo, Current, Mine, Fault, request, jobs,
       rows, run, worker
  <1>23. ASSUME NEW v \in Worker, HeartbeatRefused(v)
        PROVE  ResultsAreDecided'
    BY <1>23 DEF HeartbeatRefused, KeeperRuns, request, jobs, rows, run, worker
  <1>24. ASSUME NEW v \in Worker, HeartbeatFails(v)
        PROVE  ResultsAreDecided'
    BY <1>24 DEF HeartbeatFails, KeeperRuns, Fault, request, jobs, rows, run, worker
  <1>25. ASSUME NEW q \in Request, LeaseLapses(q)
        PROVE  ResultsAreDecided'
    BY <1>25 DEF LeaseLapses, Lapse, request, jobs, rows, run, worker
  <1>26. ASSUME NEW q \in Request, LeaseLapsesUnderWorker(q)
        PROVE  ResultsAreDecided'
    BY <1>26 DEF LeaseLapsesUnderWorker, Lapse, Fault, request, jobs, rows, run, worker
  <1>27. ASSUME NEW v \in Worker, WorkerDies(v)
        PROVE  ResultsAreDecided'
    BY <1>27 DEF WorkerDies, Works, Fault, request, jobs, rows, run, worker
  <1> QED
    BY <1>1, <1>2, <1>3, <1>4, <1>5, <1>6, <1>7, <1>8, <1>9, <1>10, <1>11, <1>12, <1>13,
       <1>14, <1>15, <1>16, <1>17, <1>18, <1>19, <1>20, <1>21, <1>22, <1>23, <1>24, <1>25,
       <1>26, <1>27 DEF Next, Claim, WorkerStep, AnalysisStep, OperatorStep, Keeper

(* A step keeps success backed.                                            *)
LEMMA SuccessStays ==
    ASSUME TypeOK, ClaimsAreNamed, ResultsAreDecided, SuccessIsBacked, TypeOK', ResultsAreDecided', Next
    PROVE  SuccessIsBacked'
  <1> USE SurfaceAssumption DEF TypeOK, Kinds, Terminal, NoGrant, ResultsAreDecided,
     SuccessIsBacked, ClaimsAreNamed, WorkPc, OperatorPc, AnalysisPc, InRole
  <1>1. CASE ReauthenticateToOperate
    BY <1>1 DEF ReauthenticateToOperate, request, jobs, rows, run, worker
  <1>2. CASE GrantEnds
    BY <1>2 DEF GrantEnds, request, jobs, rows, run, worker
  <1>3. ASSUME NEW q \in Request, LookUpFixityJob(q)
        PROVE  SuccessIsBacked'
    <2>1. /\ UNCHANGED <<by, results, run, worker>>
          /\ \A j \in Request : status'[j] # status[j] => status[j] = "NONE" /\ status'[j] = "WAITING"
      BY <1>3, RequestsAddRows
    <2> QED
      BY <2>1 DEF run, worker
  <1>4. ASSUME NEW q \in Request, InsertFixityJob(q)
        PROVE  SuccessIsBacked'
    <2>1. /\ UNCHANGED <<by, results, run, worker>>
          /\ \A j \in Request : status'[j] # status[j] => status[j] = "NONE" /\ status'[j] = "WAITING"
      BY <1>4, RequestsAddRows
    <2> QED
      BY <2>1 DEF run, worker
  <1>5. ASSUME NEW q \in Request, RequestRename(q)
        PROVE  SuccessIsBacked'
    <2>1. /\ UNCHANGED <<by, results, run, worker>>
          /\ \A j \in Request : status'[j] # status[j] => status[j] = "NONE" /\ status'[j] = "WAITING"
      BY <1>5, RequestsAddRows
    <2> QED
      BY <2>1 DEF run, worker
  <1>6. ASSUME NEW v \in Worker, SelectJob(v)
        PROVE  SuccessIsBacked'
    BY <1>6 DEF SelectJob, Waits, GoesTo, request, jobs, rows, run, worker
  <1>7. ASSUME NEW v \in Worker, ClaimJob(v)
        PROVE  SuccessIsBacked'
    BY <1>7 DEF ClaimJob, GoesTo, Claims, LosesClaim, FirstStep, request, jobs, rows, run,
       worker
  <1>8. ASSUME NEW v \in Worker, DoFixityWork(v)
        PROVE  SuccessIsBacked'
    BY <1>8 DEF DoFixityWork, Continues, GoesTo, request, jobs, rows, run, worker
  <1>9. ASSUME NEW v \in Worker, CompleteFixityJob(v)
        PROVE  SuccessIsBacked'
    BY <1>9 DEF CompleteFixityJob, Continues, GoesTo, SetStatus, Says, Current, Mine,
       Fault, request, jobs, rows, run, worker
  <1>10. ASSUME NEW v \in Worker, FailFixityJob(v)
        PROVE  SuccessIsBacked'
    BY <1>10 DEF FailFixityJob, Continues, GoesTo, SetStatus, Says, Current, Mine, Fault,
       request, jobs, rows, run, worker
  <1>11. ASSUME NEW v \in Worker, CheckGrant(v)
        PROVE  SuccessIsBacked'
    BY <1>11 DEF CheckGrant, Continues, GoesTo, ReportError, SetStatus, Says, Current,
       Mine, request, jobs, rows, run, worker
  <1>12. ASSUME NEW v \in Worker, EnterRename(v)
        PROVE  SuccessIsBacked'
    BY <1>12 DEF EnterRename, Continues, GoesTo, RootIsFree, Gone, request, jobs, rows,
       run, worker
  <1>13. ASSUME NEW v \in Worker, RepeatResult(v)
        PROVE  SuccessIsBacked'
    BY <1>13 DEF RepeatResult, Continues, GoesTo, request, jobs, rows, run, worker
  <1>14. ASSUME NEW v \in Worker, RefuseRename(v)
        PROVE  SuccessIsBacked'
    BY <1>14 DEF RefuseRename, Errs, request, jobs, rows, run, worker
  <1>15. ASSUME NEW v \in Worker, PrepareRun(v)
        PROVE  SuccessIsBacked'
    BY <1>15 DEF PrepareRun, request, jobs, rows, run, worker
  <1>16. ASSUME NEW v \in Worker, MoveBook(v)
        PROVE  SuccessIsBacked'
    BY <1>16 DEF MoveBook, request, jobs, rows, run, worker
  <1>17. ASSUME NEW v \in Worker, DecideRename(v)
        PROVE  SuccessIsBacked'
    BY <1>17 DEF DecideRename, Continues, GoesTo, request, jobs, rows, run, worker
  <1>18. ASSUME NEW v \in Worker, RenameFails(v)
        PROVE  SuccessIsBacked'
    BY <1>18 DEF RenameFails, Errs, request, jobs, rows, run, worker
  <1>19. ASSUME NEW v \in Worker, RecordResult(v)
        PROVE  SuccessIsBacked'
    BY <1>19 DEF RecordResult, Errs, Continues, GoesTo, Fault, request, jobs, rows, run,
       worker
  <1>20. ASSUME NEW v \in Worker, ReportRenameError(v)
        PROVE  SuccessIsBacked'
    BY <1>20 DEF ReportRenameError, ReportError, SetStatus, Says, GoesTo, Current, Mine,
       request, jobs, rows, run, worker
  <1>21. ASSUME NEW v \in Worker, CompleteRenameJob(v)
        PROVE  SuccessIsBacked'
    BY <1>21 DEF CompleteRenameJob, Continues, GoesTo, SetStatus, Says, Current, Mine,
       request, jobs, rows, run, worker
  <1>22. ASSUME NEW v \in Worker, Abandon(v)
        PROVE  SuccessIsBacked'
    BY <1>22 DEF Abandon, SetStatus, Says, GoesTo, Current, Mine, Fault, request, jobs,
       rows, run, worker
  <1>23. ASSUME NEW v \in Worker, HeartbeatRefused(v)
        PROVE  SuccessIsBacked'
    BY <1>23 DEF HeartbeatRefused, KeeperRuns, request, jobs, rows, run, worker
  <1>24. ASSUME NEW v \in Worker, HeartbeatFails(v)
        PROVE  SuccessIsBacked'
    BY <1>24 DEF HeartbeatFails, KeeperRuns, Fault, request, jobs, rows, run, worker
  <1>25. ASSUME NEW q \in Request, LeaseLapses(q)
        PROVE  SuccessIsBacked'
    BY <1>25 DEF LeaseLapses, Lapse, request, jobs, rows, run, worker
  <1>26. ASSUME NEW q \in Request, LeaseLapsesUnderWorker(q)
        PROVE  SuccessIsBacked'
    BY <1>26 DEF LeaseLapsesUnderWorker, Lapse, Fault, request, jobs, rows, run, worker
  <1>27. ASSUME NEW v \in Worker, WorkerDies(v)
        PROVE  SuccessIsBacked'
    BY <1>27 DEF WorkerDies, Works, Fault, request, jobs, rows, run, worker
  <1> QED
    BY <1>1, <1>2, <1>3, <1>4, <1>5, <1>6, <1>7, <1>8, <1>9, <1>10, <1>11, <1>12, <1>13,
       <1>14, <1>15, <1>16, <1>17, <1>18, <1>19, <1>20, <1>21, <1>22, <1>23, <1>24, <1>25,
       <1>26, <1>27 DEF Next, Claim, WorkerStep, AnalysisStep, OperatorStep, Keeper

(* A step keeps the last words true.                                       *)
LEMMA TruthStays ==
    ASSUME TypeOK, ClaimsAreNamed, AnalysisWorkerTellsTheTruth, TypeOK', Next
    PROVE  AnalysisWorkerTellsTheTruth'
  <1> USE SurfaceAssumption DEF TypeOK, Kinds, Terminal, NoGrant,
     AnalysisWorkerTellsTheTruth, ClaimsAreNamed, WorkPc, OperatorPc, AnalysisPc, InRole
  <1>1. CASE ReauthenticateToOperate
    BY <1>1 DEF ReauthenticateToOperate, request, jobs, rows, run, worker
  <1>2. CASE GrantEnds
    BY <1>2 DEF GrantEnds, request, jobs, rows, run, worker
  <1>3. ASSUME NEW q \in Request, LookUpFixityJob(q)
        PROVE  AnalysisWorkerTellsTheTruth'
    <2>1. /\ UNCHANGED <<by, results, run, worker>>
          /\ \A j \in Request : status'[j] # status[j] => status[j] = "NONE" /\ status'[j] = "WAITING"
      BY <1>3, RequestsAddRows
    <2> QED
      BY <2>1 DEF run, worker
  <1>4. ASSUME NEW q \in Request, InsertFixityJob(q)
        PROVE  AnalysisWorkerTellsTheTruth'
    <2>1. /\ UNCHANGED <<by, results, run, worker>>
          /\ \A j \in Request : status'[j] # status[j] => status[j] = "NONE" /\ status'[j] = "WAITING"
      BY <1>4, RequestsAddRows
    <2> QED
      BY <2>1 DEF run, worker
  <1>5. ASSUME NEW q \in Request, RequestRename(q)
        PROVE  AnalysisWorkerTellsTheTruth'
    <2>1. /\ UNCHANGED <<by, results, run, worker>>
          /\ \A j \in Request : status'[j] # status[j] => status[j] = "NONE" /\ status'[j] = "WAITING"
      BY <1>5, RequestsAddRows
    <2> QED
      BY <2>1 DEF run, worker
  <1>6. ASSUME NEW v \in Worker, SelectJob(v)
        PROVE  AnalysisWorkerTellsTheTruth'
    BY <1>6 DEF SelectJob, Waits, GoesTo, request, jobs, rows, run, worker
  <1>7. ASSUME NEW v \in Worker, ClaimJob(v)
        PROVE  AnalysisWorkerTellsTheTruth'
    <2>1. claim[v] \in Request /\ pc[v] = "claim"
      BY <1>7 DEF ClaimJob
    <2>2. \A w \in Worker : w # v => /\ pc'[w] = pc[w] /\ claim'[w] = claim[w] /\ says'[w] = says[w]
      BY <1>7 DEF ClaimJob, Claims, LosesClaim, GoesTo
    <2>3. pc'[v] = "ended" => claim'[v] = None
      BY <1>7 DEF ClaimJob, Claims, LosesClaim, GoesTo, FirstStep
    <2>4. \A j \in Request : status'[j] # status[j] => status[j] = "WAITING"
      BY <1>7, <2>1 DEF ClaimJob, Claims, LosesClaim, jobs
    <2>5. ASSUME NEW w \in Worker, NEW j \in Request,
                 RoleOf[w] = "ANALYSIS", pc'[w] = "ended", claim'[w] = j
          PROVE  /\ pc[w] = "ended" /\ claim[w] = j /\ says'[w] = says[w]
                 /\ status'[j] = status[j]
      <3>1. w # v
        BY <2>3, <2>5, SurfaceAssumption
      <3>2. pc[w] = "ended" /\ claim[w] = j /\ says'[w] = says[w]
        BY <2>2, <2>5, <3>1
      <3>3. status[j] # "WAITING"
        BY <3>2
      <3> QED
        BY <2>4, <3>2, <3>3
    <2> QED
      BY <2>5
  <1>8. ASSUME NEW v \in Worker, DoFixityWork(v)
        PROVE  AnalysisWorkerTellsTheTruth'
    BY <1>8 DEF DoFixityWork, Continues, GoesTo, request, jobs, rows, run, worker
  <1>9. ASSUME NEW v \in Worker, CompleteFixityJob(v)
        PROVE  AnalysisWorkerTellsTheTruth'
    BY <1>9 DEF CompleteFixityJob, Continues, GoesTo, SetStatus, Says, Current, Mine,
       Fault, request, jobs, rows, run, worker
  <1>10. ASSUME NEW v \in Worker, FailFixityJob(v)
        PROVE  AnalysisWorkerTellsTheTruth'
    BY <1>10 DEF FailFixityJob, Continues, GoesTo, SetStatus, Says, Current, Mine, Fault,
       request, jobs, rows, run, worker
  <1>11. ASSUME NEW v \in Worker, CheckGrant(v)
        PROVE  AnalysisWorkerTellsTheTruth'
    BY <1>11 DEF CheckGrant, Continues, GoesTo, ReportError, SetStatus, Says, Current,
       Mine, request, jobs, rows, run, worker
  <1>12. ASSUME NEW v \in Worker, EnterRename(v)
        PROVE  AnalysisWorkerTellsTheTruth'
    BY <1>12 DEF EnterRename, Continues, GoesTo, RootIsFree, Gone, request, jobs, rows,
       run, worker
  <1>13. ASSUME NEW v \in Worker, RepeatResult(v)
        PROVE  AnalysisWorkerTellsTheTruth'
    BY <1>13 DEF RepeatResult, Continues, GoesTo, request, jobs, rows, run, worker
  <1>14. ASSUME NEW v \in Worker, RefuseRename(v)
        PROVE  AnalysisWorkerTellsTheTruth'
    BY <1>14 DEF RefuseRename, Errs, request, jobs, rows, run, worker
  <1>15. ASSUME NEW v \in Worker, PrepareRun(v)
        PROVE  AnalysisWorkerTellsTheTruth'
    BY <1>15 DEF PrepareRun, request, jobs, rows, run, worker
  <1>16. ASSUME NEW v \in Worker, MoveBook(v)
        PROVE  AnalysisWorkerTellsTheTruth'
    BY <1>16 DEF MoveBook, request, jobs, rows, run, worker
  <1>17. ASSUME NEW v \in Worker, DecideRename(v)
        PROVE  AnalysisWorkerTellsTheTruth'
    BY <1>17 DEF DecideRename, Continues, GoesTo, request, jobs, rows, run, worker
  <1>18. ASSUME NEW v \in Worker, RenameFails(v)
        PROVE  AnalysisWorkerTellsTheTruth'
    BY <1>18 DEF RenameFails, Errs, request, jobs, rows, run, worker
  <1>19. ASSUME NEW v \in Worker, RecordResult(v)
        PROVE  AnalysisWorkerTellsTheTruth'
    BY <1>19 DEF RecordResult, Errs, Continues, GoesTo, Fault, request, jobs, rows, run,
       worker
  <1>20. ASSUME NEW v \in Worker, ReportRenameError(v)
        PROVE  AnalysisWorkerTellsTheTruth'
    BY <1>20 DEF ReportRenameError, ReportError, SetStatus, Says, GoesTo, Current, Mine,
       request, jobs, rows, run, worker
  <1>21. ASSUME NEW v \in Worker, CompleteRenameJob(v)
        PROVE  AnalysisWorkerTellsTheTruth'
    <2>1. /\ claim[v] \in Request /\ by[claim[v]] = v
          /\ status[claim[v]] = "ACTIVE" /\ pc[v] # "ended"
      BY <1>21 DEF CompleteRenameJob
    <2>2. \A w \in Worker : w # v => /\ pc'[w] = pc[w] /\ claim'[w] = claim[w] /\ says'[w] = says[w]
      BY <1>21 DEF CompleteRenameJob, Says, GoesTo, Continues
    <2>3. \A j \in Request : j # claim[v] => status'[j] = status[j]
      BY <1>21, <2>1 DEF CompleteRenameJob, SetStatus, jobs
    <2>4. ASSUME NEW w \in Worker, w # v, NEW j \in Request, claim[w] = j, pc[w] = "ended"
          PROVE  j # claim[v]
      BY <2>1, <2>4
    <2>5. /\ claim'[v] = claim[v]
          /\ pc'[v] = "ended" /\ RoleOf[v] = "ANALYSIS" =>
               \/ says'[v] = "FAILED" /\ status'[claim[v]] = "RECOVERY_REQUIRED"
               \/ says'[v] = "TERMINALIZATION_FAILED" /\ status'[claim[v]] = "ACTIVE"
      BY <1>21, <2>1 DEF CompleteRenameJob, Says, GoesTo, Continues, SetStatus, jobs
    <2> QED
      BY <2>1, <2>2, <2>3, <2>4, <2>5
  <1>22. ASSUME NEW v \in Worker, Abandon(v)
        PROVE  AnalysisWorkerTellsTheTruth'
    <2>1. /\ claim[v] \in Request /\ by[claim[v]] = v
          /\ status[claim[v]] = "ACTIVE" /\ pc[v] # "ended"
      BY <1>22 DEF Abandon
    <2>2. \A w \in Worker : w # v => /\ pc'[w] = pc[w] /\ claim'[w] = claim[w] /\ says'[w] = says[w]
      BY <1>22 DEF Abandon, Says, GoesTo, Continues
    <2>3. \A j \in Request : j # claim[v] => status'[j] = status[j]
      BY <1>22, <2>1 DEF Abandon, SetStatus, jobs
    <2>4. ASSUME NEW w \in Worker, w # v, NEW j \in Request, claim[w] = j, pc[w] = "ended"
          PROVE  j # claim[v]
      BY <2>1, <2>4
    <2>5. /\ claim'[v] = claim[v]
          /\ pc'[v] = "ended" /\ RoleOf[v] = "ANALYSIS" =>
               \/ says'[v] = "FAILED" /\ status'[claim[v]] = "RECOVERY_REQUIRED"
               \/ says'[v] = "TERMINALIZATION_FAILED" /\ status'[claim[v]] = "ACTIVE"
      BY <1>22, <2>1 DEF Abandon, Says, GoesTo, Continues, SetStatus, jobs
    <2> QED
      BY <2>1, <2>2, <2>3, <2>4, <2>5
  <1>23. ASSUME NEW v \in Worker, HeartbeatRefused(v)
        PROVE  AnalysisWorkerTellsTheTruth'
    BY <1>23 DEF HeartbeatRefused, KeeperRuns, request, jobs, rows, run, worker
  <1>24. ASSUME NEW v \in Worker, HeartbeatFails(v)
        PROVE  AnalysisWorkerTellsTheTruth'
    BY <1>24 DEF HeartbeatFails, KeeperRuns, Fault, request, jobs, rows, run, worker
  <1>25. ASSUME NEW q \in Request, LeaseLapses(q)
        PROVE  AnalysisWorkerTellsTheTruth'
    BY <1>25 DEF LeaseLapses, Lapse, request, jobs, rows, run, worker
  <1>26. ASSUME NEW q \in Request, LeaseLapsesUnderWorker(q)
        PROVE  AnalysisWorkerTellsTheTruth'
    BY <1>26 DEF LeaseLapsesUnderWorker, Lapse, Fault, request, jobs, rows, run, worker
  <1>27. ASSUME NEW v \in Worker, WorkerDies(v)
        PROVE  AnalysisWorkerTellsTheTruth'
    BY <1>27 DEF WorkerDies, Works, Fault, request, jobs, rows, run, worker
  <1> QED
    BY <1>1, <1>2, <1>3, <1>4, <1>5, <1>6, <1>7, <1>8, <1>9, <1>10, <1>11, <1>12, <1>13,
       <1>14, <1>15, <1>16, <1>17, <1>18, <1>19, <1>20, <1>21, <1>22, <1>23, <1>24, <1>25,
       <1>26, <1>27 DEF Next, Claim, WorkerStep, AnalysisStep, OperatorStep, Keeper

(* All parts together are inductive.                                       *)
THEOREM Inductive == Spec => []IInv
  <1>1. Init => IInv
    BY SurfaceAssumption
       DEF Init, IInv, TypeOK, Kinds, Terminal, NoGrant, RowsAndAnswers,
           ClaimsAreNamed, WorkPc, OperatorPc, AnalysisPc, ResultsAreDecided,
           SuccessIsBacked, AnalysisWorkerTellsTheTruth
  <1>2. IInv /\ [Next]_vars => IInv'
    <2> SUFFICES ASSUME IInv, [Next]_vars PROVE IInv'
      OBVIOUS
    <2>1. CASE Next
      <3>1. TypeOK'
        BY <2>1, TypesStay DEF IInv
      <3>2. ResultsAreDecided'
        BY <2>1, <3>1, ResultsStay DEF IInv
      <3>3. RowsAndAnswers' /\ ClaimsAreNamed'
        BY <2>1, <3>1, RowsStay, ClaimsStay DEF IInv
      <3>4. SuccessIsBacked' /\ AnalysisWorkerTellsTheTruth'
        BY <2>1, <3>1, <3>2, SuccessStays, TruthStays DEF IInv
      <3> QED
        BY <3>1, <3>2, <3>3, <3>4 DEF IInv
    <2>2. CASE UNCHANGED vars
      BY <2>2 DEF vars, request, jobs, rows, run, worker, IInv, TypeOK, RowsAndAnswers,
         ClaimsAreNamed,
                  ResultsAreDecided, SuccessIsBacked, AnalysisWorkerTellsTheTruth
    <2> QED
      BY <2>1, <2>2
  <1> QED
    BY <1>1, <1>2, PTL DEF Spec

(* Every row, request and process stays in a state the code gives it.      *)
THEOREM TypeCorrect == Spec => []TypeOK
  <1>1. IInv => TypeOK
    BY DEF IInv
  <1> QED
    BY <1>1, Inductive, PTL

(* Retries, also racing ones, get the job of their key (ADR-0067).          *)
THEOREM KeysHaveOneJob == Spec => []OneJobPerKey
  <1>1. IInv => OneJobPerKey
    <2> SUFFICES ASSUME IInv PROVE OneJobPerKey
      OBVIOUS
    <2>1. \A r, s, i, j \in Request :
            SameKey(i, r) /\ SameKey(j, s) /\ SameKey(r, s) => SameKey(i, j)
      BY DEF SameKey
    <2> QED
      BY <2>1 DEF IInv, RowsAndAnswers, OneJobPerKey
  <1> QED
    BY <1>1, Inductive, PTL

(* A claimed job stays with its one claimant, although two processes may    *)
(* read it as waiting.                                                      *)
THEOREM JobsHaveOneWorker == Spec => []OneWorkerPerJob
  <1>1. IInv => OneWorkerPerJob
    BY DEF IInv, TypeOK, ClaimsAreNamed, OneWorkerPerJob, Holds
  <1> QED
    BY <1>1, Inductive, PTL

(* SUCCEEDED always has its result, and a rename's result is of a decided   *)
(* run, although it is recorded in a transaction of its own.                *)
THEOREM SuccessHasAResult == Spec => []SuccessIsBacked
  <1>1. IInv => SuccessIsBacked
    BY DEF IInv
  <1> QED
    BY <1>1, Inductive, PTL

(* What an analysis worker printed last stays true of its job.              *)
THEOREM LastWordsAreTrue == Spec => []AnalysisWorkerTellsTheTruth
  <1>1. IInv => AnalysisWorkerTellsTheTruth
    BY DEF IInv
  <1> QED
    BY <1>1, Inductive, PTL
=============================================================================
