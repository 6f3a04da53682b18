-------------------------- MODULE Quarantine_proofs --------------------------
(***************************************************************************)
(* For any number of calls, authorizations, recovering operators, faults   *)
(* and changes by others: an authorization moves at most one file, a       *)
(* successful run has its candidate at the target, and a call that does    *)
(* not outlive its lease never moves a file without a record.              *)
(*                                                                         *)
(* The argument has two halves.  What a call has done follows from its own *)
(* step (CallsKnowWhatTheyDid) and from the one run an authorization       *)
(* admits.  What a recovery may conclude follows from the lease: a call    *)
(* that has not outlived its lease holds it from its revalidation to its   *)
(* release, so a recovery works only on calls that are over.               *)
(***************************************************************************)
EXTENDS Quarantine, TLAPS

Begun == {"check", "move", "moved", "verify", "verified", "complete",
          "invalid", "review"}
Holding == {"revalidate", "prepare"} \cup Begun

(* What follows from the step a call has reached.                          *)
CallsKnowWhatTheyDid ==
    \A e \in Executor :
        /\ pc[e] \in {"idle", "acquire", "revalidate", "prepare"} =>
              journal[e] = None
        /\ pc[e] \in Begun => journal[e] # None
        /\ pc[e] \in {"check", "move", "invalid"} => ~moved[e]
        /\ pc[e] \in {"moved", "verify", "verified", "complete"} => moved[e]
        /\ pc[e] \in {"verified", "complete"} => tgt[AuthOf[e]] \in SameBytes
        /\ moved[e] => journal[e] # None /\ tgt[AuthOf[e]] # "absent"

(* Only a rename of the executor brings the candidate's bytes to a target. *)
TargetsWereMoved ==
    \A a \in Auth : tgt[a] \in SameBytes =>
        \E e \in Executor : AuthOf[e] = a /\ moved[e]

OneRunPerAuthorization ==
    \A e, f \in Executor :
        AuthOf[e] = AuthOf[f] /\ journal[e] # None /\ journal[f] # None => e = f

(* A recovery works on a persisted run, and a target it found stays there. *)
RecoveriesHaveAJob ==
    \A r \in Recoverer :
        /\ pc[r] # "idle" => job[r] \in Executor /\ journal[job[r]] # None
        /\ pc[r] = "append" /\ phys[r] = "target" =>
              tgt[AuthOf[job[r]]] \in SameBytes

(* A call that has not outlived its lease holds it while it works.         *)
CallsHoldTheirLease ==
    \A e \in Executor :
        pc[e] \in Holding /\ e \notin outlived => row = HeldBy(e, e)

(* So a recovery has such a call behind it, and what it saw unmoved stays. *)
RecoveredCallsAreOver ==
    \A r \in Recoverer :
        /\ pc[r] \in {"reread", "inspect", "confirm", "append"}
        /\ job[r] \notin outlived
        => /\ pc[job[r]] \in {"release", "done"}
           /\ pc[r] = "append" /\ phys[r] = "source" => ~moved[job[r]]

(* And nobody but the call itself writes its journal before the move.      *)
MovingCallsArePrepared ==
    \A e \in Executor :
        pc[e] \in {"check", "move", "invalid"} /\ e \notin outlived
            => journal[e] = "PREPARED"

LeaseInv ==
    /\ CallsHoldTheirLease
    /\ RecoveredCallsAreOver
    /\ MovingCallsArePrepared
    /\ NothingMovedWithoutARecord

HistoryInv ==
    /\ TypeOK
    /\ CallsKnowWhatTheyDid
    /\ TargetsWereMoved
    /\ OneRunPerAuthorization
    /\ RecoveriesHaveAJob
    /\ SuccessMeansQuarantined

(* A lease that is granted for a run is a typed lease.                     *)
LEMMA HeldByIsALease ==
    ASSUME NEW e \in Executor, NEW p \in Process
    PROVE  HeldBy(e, p) \in Lease
  BY DEF HeldBy, Lease

(* A step keeps the types.                                                *)
LEMMA TypesStay ==
    ASSUME HistoryInv, Next
    PROVE  TypeOK'
  <1> USE ConstantsAssumption DEF HistoryInv, TypeOK, CallsKnowWhatTheyDid, RecoveriesHaveAJob, Begun, Free, Lease, Process, Entry, Content, SameBytes, Incomplete, Terminal, ExecutorStep, RecoveryStep
  <1>1. ASSUME NEW b \in Auth, Authorize(b)
        PROVE  TypeOK'
    BY <1>1 DEF Authorize, files, bounds, recovery
  <1>2. ASSUME NEW b \in Auth, AuthorizationExpires(b)
        PROVE  TypeOK'
    BY <1>2 DEF AuthorizationExpires, files, bounds, recovery
  <1>3. CASE LeaseExpires
    <2>1. row \in [run : Executor, by : Process \cup {Gone}, expired : BOOLEAN]
      BY <1>3 DEF LeaseExpires
    <2>2. row' \in [run : Executor, by : Process \cup {Gone}, expired : BOOLEAN]
      BY <1>3, <2>1 DEF LeaseExpires
    <2>3. outlived' \subseteq Process /\ faults' \in 0..MaxFaults
      BY <1>3 DEF LeaseExpires, Fault
    <2>4. QED
      BY <1>3, <2>2, <2>3 DEF LeaseExpires, recovery, files
  <1>4. ASSUME NEW c \in Executor, Confirm(c)
        PROVE  TypeOK'
    BY <1>4 DEF Confirm, Goto, Consumed, files, bounds, recovery
  <1>5. ASSUME NEW c \in Executor, AcquireRunLease(c)
        PROVE  TypeOK'
    <2>1. row' \in Lease
      BY <1>5, HeldByIsALease DEF AcquireRunLease, Goto, bounds, recovery, files
    <2>2. QED
      BY <1>5, <2>1 DEF AcquireRunLease, Goto, bounds, recovery, files
  <1>6. ASSUME NEW c \in Executor, Revalidate(c)
        PROVE  TypeOK'
    BY <1>6 DEF Revalidate, Goto, files, bounds, recovery
  <1>7. ASSUME NEW c \in Executor, Prepare(c)
        PROVE  TypeOK'
    BY <1>7 DEF Prepare, Goto, ExecutorFence, Consumed, files, bounds, recovery
  <1>8. ASSUME NEW c \in Executor, Check(c)
        PROVE  TypeOK'
    BY <1>8 DEF Check, Goto, SameBytes, files, bounds, recovery
  <1>9. ASSUME NEW c \in Executor, Move(c)
        PROVE  TypeOK'
    <2>1. CASE src = "absent"
      BY <1>9, <2>1 DEF Move, Goto, bounds, recovery, files
    <2>2. CASE src # "absent"
      <3>1. tgt' \in [Auth -> Entry] /\ src' \in Entry
        BY <1>9, <2>2 DEF Move
      <3>2. moved' \in [Executor -> BOOLEAN]
        <4>1. moved' = [moved EXCEPT ![c] = TRUE]
          BY <1>9, <2>2 DEF Move
        <4>2. moved \in [Executor -> BOOLEAN]
          OBVIOUS
        <4> QED
          BY ONLY <4>1, <4>2, Zenon
      <3>3. pc' \in [Process -> ExecutorStep \cup RecoveryStep]
        BY <1>9, <2>2 DEF Move, Goto
      <3>4. /\ \A e \in Executor : pc'[e] \in ExecutorStep
            /\ \A r \in Recoverer : pc'[r] \in RecoveryStep
        BY <1>9, <2>2 DEF Move, Goto
      <3>5. UNCHANGED <<auth, row, journal, job, phys, outlived, faults, meddles>>
        BY <1>9 DEF Move, bounds, recovery
      <3> QED
        BY <3>1, <3>2, <3>3, <3>4, <3>5
    <2> QED
      BY <2>1, <2>2
  <1>10. ASSUME NEW c \in Executor, AppendMoved(c)
        PROVE  TypeOK'
    BY <1>10 DEF AppendMoved, AppendOrLeave, ExecutorFence, Goto, Fault, Follows, files, bounds, recovery
  <1>11. ASSUME NEW c \in Executor, Verify(c)
        PROVE  TypeOK'
    BY <1>11 DEF Verify, Goto, SameBytes, files, bounds, recovery
  <1>12. ASSUME NEW c \in Executor, AppendVerified(c)
        PROVE  TypeOK'
    BY <1>12 DEF AppendVerified, AppendOrLeave, ExecutorFence, Goto, Fault, Follows, files, bounds, recovery
  <1>13. ASSUME NEW c \in Executor, AppendCompleted(c)
        PROVE  TypeOK'
    BY <1>13 DEF AppendCompleted, AppendOrLeave, ExecutorFence, Goto, Fault, Follows, files, bounds, recovery
  <1>14. ASSUME NEW c \in Executor, AppendInvalid(c)
        PROVE  TypeOK'
    BY <1>14 DEF AppendInvalid, AppendOrLeave, ExecutorFence, Goto, Fault, Follows, files, bounds, recovery
  <1>15. ASSUME NEW c \in Executor, AppendReview(c)
        PROVE  TypeOK'
    BY <1>15 DEF AppendReview, AppendOrLeave, ExecutorFence, Goto, Fault, Follows, files, bounds, recovery
  <1>16. ASSUME NEW c \in Executor, ExecutorRelease(c)
        PROVE  TypeOK'
    BY <1>16 DEF ExecutorRelease, ReleaseLease, Goto, Fault, Abandoned, Free, files, bounds, recovery
  <1>17. ASSUME NEW c \in Executor, ExecutorCrash(c)
        PROVE  TypeOK'
    BY <1>17 DEF ExecutorCrash, Goto, Fault, Abandoned, Working, Free, files, bounds, recovery
  <1>18. ASSUME NEW q \in Recoverer, NEW c \in Executor, StartRecovery(q, c)
        PROVE  TypeOK'
    BY <1>18 DEF StartRecovery, Goto, files, bounds, recovery
  <1>19. ASSUME NEW q \in Recoverer, AcquireRecoveryLease(q)
        PROVE  TypeOK'
    <2>1. job[q] \in Executor
      BY <1>19 DEF AcquireRecoveryLease
    <2>2. row' \in Lease
      BY <1>19, <2>1, HeldByIsALease DEF AcquireRecoveryLease, Goto, bounds, recovery, files
    <2>3. QED
      BY <1>19, <2>2 DEF AcquireRecoveryLease, Goto, bounds, recovery, files
  <1>20. ASSUME NEW q \in Recoverer, FreeTerminalLease(q)
        PROVE  TypeOK'
    <2>1. job[q] \in Executor
      BY <1>20 DEF FreeTerminalLease
    <2>2. row' \in Lease
      BY <1>20, <2>1, HeldByIsALease DEF FreeTerminalLease, Goto, bounds, recovery, files
    <2>3. QED
      BY <1>20, <2>2 DEF FreeTerminalLease, Goto, bounds, recovery, files
  <1>21. ASSUME NEW q \in Recoverer, Reread(q)
        PROVE  TypeOK'
    BY <1>21 DEF Reread, Goto, RecoveryFence, files, bounds, recovery
  <1>22. ASSUME NEW q \in Recoverer, Inspect(q)
        PROVE  TypeOK'
    BY <1>22 DEF Inspect, Goto, Physical, files, bounds, recovery
  <1>23. ASSUME NEW q \in Recoverer, InspectAgain(q)
        PROVE  TypeOK'
    BY <1>23 DEF InspectAgain, Goto, Physical, files, bounds, recovery
  <1>24. ASSUME NEW q \in Recoverer, AppendRecovered(q)
        PROVE  TypeOK'
    BY <1>24 DEF AppendRecovered, Goto, Fault, RecoveryFence, Recovered, Follows, files, bounds, recovery
  <1>25. ASSUME NEW q \in Recoverer, RecoveryRelease(q)
        PROVE  TypeOK'
    BY <1>25 DEF RecoveryRelease, ReleaseLease, Goto, Fault, Abandoned, Free, files, bounds, recovery
  <1>26. ASSUME NEW q \in Recoverer, RecoveryCrash(q)
        PROVE  TypeOK'
    BY <1>26 DEF RecoveryCrash, Goto, Fault, Abandoned, Working, Free, files, bounds, recovery
  <1>27. CASE Meddle
    BY <1>27 DEF Meddle, Entry, Content, files, bounds, recovery
  <1> QED
    BY <1>1, <1>2, <1>3, <1>4, <1>5, <1>6, <1>7, <1>8, <1>9, <1>10, <1>11, <1>12, <1>13, <1>14, <1>15, <1>16, <1>17, <1>18, <1>19, <1>20, <1>21, <1>22, <1>23, <1>24, <1>25, <1>26, <1>27 DEF Next, ExecutorStepOf, RecoveryStepOf

(* A step keeps what a call knows.                                        *)
LEMMA CallsStay ==
    ASSUME HistoryInv, TypeOK', Next
    PROVE  CallsKnowWhatTheyDid'
  <1> USE ConstantsAssumption DEF HistoryInv, TypeOK, CallsKnowWhatTheyDid, TargetsWereMoved, OneRunPerAuthorization, RecoveriesHaveAJob, Begun, Process, Entry, Content, SameBytes, Incomplete, Terminal, ExecutorStep, RecoveryStep
  <1>1. ASSUME NEW b \in Auth, Authorize(b)
        PROVE  CallsKnowWhatTheyDid'
    BY <1>1 DEF Authorize, files, bounds, recovery
  <1>2. ASSUME NEW b \in Auth, AuthorizationExpires(b)
        PROVE  CallsKnowWhatTheyDid'
    BY <1>2 DEF AuthorizationExpires, files, bounds, recovery
  <1>3. CASE LeaseExpires
    BY <1>3 DEF LeaseExpires, Fault, Working, files, bounds, recovery
  <1>4. ASSUME NEW c \in Executor, Confirm(c)
        PROVE  CallsKnowWhatTheyDid'
    BY <1>4 DEF Confirm, Goto, Consumed, files, bounds, recovery
  <1>5. ASSUME NEW c \in Executor, AcquireRunLease(c)
        PROVE  CallsKnowWhatTheyDid'
    BY <1>5 DEF AcquireRunLease, Goto, HeldBy, Free, files, bounds, recovery
  <1>6. ASSUME NEW c \in Executor, Revalidate(c)
        PROVE  CallsKnowWhatTheyDid'
    BY <1>6 DEF Revalidate, Goto, files, bounds, recovery
  <1>7. ASSUME NEW c \in Executor, Prepare(c)
        PROVE  CallsKnowWhatTheyDid'
    BY <1>7 DEF Prepare, Goto, ExecutorFence, Consumed, files, bounds, recovery
  <1>8. ASSUME NEW c \in Executor, Check(c)
        PROVE  CallsKnowWhatTheyDid'
    BY <1>8 DEF Check, Goto, SameBytes, files, bounds, recovery
  <1>9. ASSUME NEW c \in Executor, Move(c)
        PROVE  CallsKnowWhatTheyDid'
    BY <1>9 DEF Move, Goto, files, bounds, recovery
  <1>10. ASSUME NEW c \in Executor, AppendMoved(c)
        PROVE  CallsKnowWhatTheyDid'
    BY <1>10 DEF AppendMoved, AppendOrLeave, ExecutorFence, Goto, Fault, Follows, files, bounds, recovery
  <1>11. ASSUME NEW c \in Executor, Verify(c)
        PROVE  CallsKnowWhatTheyDid'
    BY <1>11 DEF Verify, Goto, SameBytes, files, bounds, recovery
  <1>12. ASSUME NEW c \in Executor, AppendVerified(c)
        PROVE  CallsKnowWhatTheyDid'
    BY <1>12 DEF AppendVerified, AppendOrLeave, ExecutorFence, Goto, Fault, Follows, files, bounds, recovery
  <1>13. ASSUME NEW c \in Executor, AppendCompleted(c)
        PROVE  CallsKnowWhatTheyDid'
    BY <1>13 DEF AppendCompleted, AppendOrLeave, ExecutorFence, Goto, Fault, Follows, files, bounds, recovery
  <1>14. ASSUME NEW c \in Executor, AppendInvalid(c)
        PROVE  CallsKnowWhatTheyDid'
    BY <1>14 DEF AppendInvalid, AppendOrLeave, ExecutorFence, Goto, Fault, Follows, files, bounds, recovery
  <1>15. ASSUME NEW c \in Executor, AppendReview(c)
        PROVE  CallsKnowWhatTheyDid'
    BY <1>15 DEF AppendReview, AppendOrLeave, ExecutorFence, Goto, Fault, Follows, files, bounds, recovery
  <1>16. ASSUME NEW c \in Executor, ExecutorRelease(c)
        PROVE  CallsKnowWhatTheyDid'
    BY <1>16 DEF ExecutorRelease, ReleaseLease, Goto, Fault, Abandoned, Free, files, bounds, recovery
  <1>17. ASSUME NEW c \in Executor, ExecutorCrash(c)
        PROVE  CallsKnowWhatTheyDid'
    BY <1>17 DEF ExecutorCrash, Goto, Fault, Abandoned, Working, Free, files, bounds, recovery
  <1>18. ASSUME NEW q \in Recoverer, NEW c \in Executor, StartRecovery(q, c)
        PROVE  CallsKnowWhatTheyDid'
    BY <1>18 DEF StartRecovery, Goto, files, bounds, recovery
  <1>19. ASSUME NEW q \in Recoverer, AcquireRecoveryLease(q)
        PROVE  CallsKnowWhatTheyDid'
    BY <1>19 DEF AcquireRecoveryLease, Goto, HeldBy, Free, files, bounds, recovery
  <1>20. ASSUME NEW q \in Recoverer, FreeTerminalLease(q)
        PROVE  CallsKnowWhatTheyDid'
    BY <1>20 DEF FreeTerminalLease, Goto, HeldBy, Free, files, bounds, recovery
  <1>21. ASSUME NEW q \in Recoverer, Reread(q)
        PROVE  CallsKnowWhatTheyDid'
    BY <1>21 DEF Reread, Goto, RecoveryFence, files, bounds, recovery
  <1>22. ASSUME NEW q \in Recoverer, Inspect(q)
        PROVE  CallsKnowWhatTheyDid'
    BY <1>22 DEF Inspect, Goto, Physical, files, bounds, recovery
  <1>23. ASSUME NEW q \in Recoverer, InspectAgain(q)
        PROVE  CallsKnowWhatTheyDid'
    BY <1>23 DEF InspectAgain, Goto, Physical, files, bounds, recovery
  <1>24. ASSUME NEW q \in Recoverer, AppendRecovered(q)
        PROVE  CallsKnowWhatTheyDid'
    BY <1>24 DEF AppendRecovered, Goto, Fault, RecoveryFence, Recovered, Follows, files, bounds, recovery
  <1>25. ASSUME NEW q \in Recoverer, RecoveryRelease(q)
        PROVE  CallsKnowWhatTheyDid'
    BY <1>25 DEF RecoveryRelease, ReleaseLease, Goto, Fault, Abandoned, Free, files, bounds, recovery
  <1>26. ASSUME NEW q \in Recoverer, RecoveryCrash(q)
        PROVE  CallsKnowWhatTheyDid'
    BY <1>26 DEF RecoveryCrash, Goto, Fault, Abandoned, Working, Free, files, bounds, recovery
  <1>27. CASE Meddle
    BY <1>27 DEF Meddle, Entry, Content, files, bounds, recovery
  <1> QED
    BY <1>1, <1>2, <1>3, <1>4, <1>5, <1>6, <1>7, <1>8, <1>9, <1>10, <1>11, <1>12, <1>13, <1>14, <1>15, <1>16, <1>17, <1>18, <1>19, <1>20, <1>21, <1>22, <1>23, <1>24, <1>25, <1>26, <1>27 DEF Next, ExecutorStepOf, RecoveryStepOf

(* A step keeps that targets were moved.                                  *)
LEMMA TargetsStay ==
    ASSUME HistoryInv, TypeOK', Next
    PROVE  TargetsWereMoved'
  <1> USE ConstantsAssumption DEF HistoryInv, TypeOK, CallsKnowWhatTheyDid, TargetsWereMoved, Process, Entry, Content, SameBytes, Incomplete, Terminal, ExecutorStep, RecoveryStep
  <1>1. ASSUME NEW b \in Auth, Authorize(b)
        PROVE  TargetsWereMoved'
    BY <1>1 DEF Authorize, files, bounds, recovery
  <1>2. ASSUME NEW b \in Auth, AuthorizationExpires(b)
        PROVE  TargetsWereMoved'
    BY <1>2 DEF AuthorizationExpires, files, bounds, recovery
  <1>3. CASE LeaseExpires
    BY <1>3 DEF LeaseExpires, Fault, Working, files, bounds, recovery
  <1>4. ASSUME NEW c \in Executor, Confirm(c)
        PROVE  TargetsWereMoved'
    BY <1>4 DEF Confirm, Goto, Consumed, files, bounds, recovery
  <1>5. ASSUME NEW c \in Executor, AcquireRunLease(c)
        PROVE  TargetsWereMoved'
    BY <1>5 DEF AcquireRunLease, Goto, HeldBy, Free, files, bounds, recovery
  <1>6. ASSUME NEW c \in Executor, Revalidate(c)
        PROVE  TargetsWereMoved'
    BY <1>6 DEF Revalidate, Goto, files, bounds, recovery
  <1>7. ASSUME NEW c \in Executor, Prepare(c)
        PROVE  TargetsWereMoved'
    BY <1>7 DEF Prepare, Goto, ExecutorFence, Consumed, files, bounds, recovery
  <1>8. ASSUME NEW c \in Executor, Check(c)
        PROVE  TargetsWereMoved'
    BY <1>8 DEF Check, Goto, SameBytes, files, bounds, recovery
  <1>9. ASSUME NEW c \in Executor, Move(c)
        PROVE  TargetsWereMoved'
    BY <1>9 DEF Move, Goto, files, bounds, recovery
  <1>10. ASSUME NEW c \in Executor, AppendMoved(c)
        PROVE  TargetsWereMoved'
    BY <1>10 DEF AppendMoved, AppendOrLeave, ExecutorFence, Goto, Fault, Follows, files, bounds, recovery
  <1>11. ASSUME NEW c \in Executor, Verify(c)
        PROVE  TargetsWereMoved'
    BY <1>11 DEF Verify, Goto, SameBytes, files, bounds, recovery
  <1>12. ASSUME NEW c \in Executor, AppendVerified(c)
        PROVE  TargetsWereMoved'
    BY <1>12 DEF AppendVerified, AppendOrLeave, ExecutorFence, Goto, Fault, Follows, files, bounds, recovery
  <1>13. ASSUME NEW c \in Executor, AppendCompleted(c)
        PROVE  TargetsWereMoved'
    BY <1>13 DEF AppendCompleted, AppendOrLeave, ExecutorFence, Goto, Fault, Follows, files, bounds, recovery
  <1>14. ASSUME NEW c \in Executor, AppendInvalid(c)
        PROVE  TargetsWereMoved'
    BY <1>14 DEF AppendInvalid, AppendOrLeave, ExecutorFence, Goto, Fault, Follows, files, bounds, recovery
  <1>15. ASSUME NEW c \in Executor, AppendReview(c)
        PROVE  TargetsWereMoved'
    BY <1>15 DEF AppendReview, AppendOrLeave, ExecutorFence, Goto, Fault, Follows, files, bounds, recovery
  <1>16. ASSUME NEW c \in Executor, ExecutorRelease(c)
        PROVE  TargetsWereMoved'
    BY <1>16 DEF ExecutorRelease, ReleaseLease, Goto, Fault, Abandoned, Free, files, bounds, recovery
  <1>17. ASSUME NEW c \in Executor, ExecutorCrash(c)
        PROVE  TargetsWereMoved'
    BY <1>17 DEF ExecutorCrash, Goto, Fault, Abandoned, Working, Free, files, bounds, recovery
  <1>18. ASSUME NEW q \in Recoverer, NEW c \in Executor, StartRecovery(q, c)
        PROVE  TargetsWereMoved'
    BY <1>18 DEF StartRecovery, Goto, files, bounds, recovery
  <1>19. ASSUME NEW q \in Recoverer, AcquireRecoveryLease(q)
        PROVE  TargetsWereMoved'
    BY <1>19 DEF AcquireRecoveryLease, Goto, HeldBy, Free, files, bounds, recovery
  <1>20. ASSUME NEW q \in Recoverer, FreeTerminalLease(q)
        PROVE  TargetsWereMoved'
    BY <1>20 DEF FreeTerminalLease, Goto, HeldBy, Free, files, bounds, recovery
  <1>21. ASSUME NEW q \in Recoverer, Reread(q)
        PROVE  TargetsWereMoved'
    BY <1>21 DEF Reread, Goto, RecoveryFence, files, bounds, recovery
  <1>22. ASSUME NEW q \in Recoverer, Inspect(q)
        PROVE  TargetsWereMoved'
    BY <1>22 DEF Inspect, Goto, Physical, files, bounds, recovery
  <1>23. ASSUME NEW q \in Recoverer, InspectAgain(q)
        PROVE  TargetsWereMoved'
    BY <1>23 DEF InspectAgain, Goto, Physical, files, bounds, recovery
  <1>24. ASSUME NEW q \in Recoverer, AppendRecovered(q)
        PROVE  TargetsWereMoved'
    BY <1>24 DEF AppendRecovered, Goto, Fault, RecoveryFence, Recovered, Follows, files, bounds, recovery
  <1>25. ASSUME NEW q \in Recoverer, RecoveryRelease(q)
        PROVE  TargetsWereMoved'
    BY <1>25 DEF RecoveryRelease, ReleaseLease, Goto, Fault, Abandoned, Free, files, bounds, recovery
  <1>26. ASSUME NEW q \in Recoverer, RecoveryCrash(q)
        PROVE  TargetsWereMoved'
    BY <1>26 DEF RecoveryCrash, Goto, Fault, Abandoned, Working, Free, files, bounds, recovery
  <1>27. CASE Meddle
    BY <1>27 DEF Meddle, Entry, Content, files, bounds, recovery
  <1> QED
    BY <1>1, <1>2, <1>3, <1>4, <1>5, <1>6, <1>7, <1>8, <1>9, <1>10, <1>11, <1>12, <1>13, <1>14, <1>15, <1>16, <1>17, <1>18, <1>19, <1>20, <1>21, <1>22, <1>23, <1>24, <1>25, <1>26, <1>27 DEF Next, ExecutorStepOf, RecoveryStepOf

(* A step keeps that an authorization has one run.                        *)
LEMMA RunsStay ==
    ASSUME HistoryInv, TypeOK', Next
    PROVE  OneRunPerAuthorization'
  <1> USE ConstantsAssumption DEF HistoryInv, TypeOK, OneRunPerAuthorization, RecoveriesHaveAJob, CallsKnowWhatTheyDid, Begun, Process, Entry, Content, SameBytes, Incomplete, Terminal, ExecutorStep, RecoveryStep
  <1>1. ASSUME NEW b \in Auth, Authorize(b)
        PROVE  OneRunPerAuthorization'
    BY <1>1 DEF Authorize, files, bounds, recovery
  <1>2. ASSUME NEW b \in Auth, AuthorizationExpires(b)
        PROVE  OneRunPerAuthorization'
    BY <1>2 DEF AuthorizationExpires, files, bounds, recovery
  <1>3. CASE LeaseExpires
    BY <1>3 DEF LeaseExpires, Fault, Working, files, bounds, recovery
  <1>4. ASSUME NEW c \in Executor, Confirm(c)
        PROVE  OneRunPerAuthorization'
    BY <1>4 DEF Confirm, Goto, Consumed, files, bounds, recovery
  <1>5. ASSUME NEW c \in Executor, AcquireRunLease(c)
        PROVE  OneRunPerAuthorization'
    BY <1>5 DEF AcquireRunLease, Goto, HeldBy, Free, files, bounds, recovery
  <1>6. ASSUME NEW c \in Executor, Revalidate(c)
        PROVE  OneRunPerAuthorization'
    BY <1>6 DEF Revalidate, Goto, files, bounds, recovery
  <1>7. ASSUME NEW c \in Executor, Prepare(c)
        PROVE  OneRunPerAuthorization'
    BY <1>7 DEF Prepare, Goto, ExecutorFence, Consumed, files, bounds, recovery
  <1>8. ASSUME NEW c \in Executor, Check(c)
        PROVE  OneRunPerAuthorization'
    BY <1>8 DEF Check, Goto, SameBytes, files, bounds, recovery
  <1>9. ASSUME NEW c \in Executor, Move(c)
        PROVE  OneRunPerAuthorization'
    BY <1>9 DEF Move, Goto, files, bounds, recovery
  <1>10. ASSUME NEW c \in Executor, AppendMoved(c)
        PROVE  OneRunPerAuthorization'
    BY <1>10 DEF AppendMoved, AppendOrLeave, ExecutorFence, Goto, Fault, Follows, files, bounds, recovery
  <1>11. ASSUME NEW c \in Executor, Verify(c)
        PROVE  OneRunPerAuthorization'
    BY <1>11 DEF Verify, Goto, SameBytes, files, bounds, recovery
  <1>12. ASSUME NEW c \in Executor, AppendVerified(c)
        PROVE  OneRunPerAuthorization'
    BY <1>12 DEF AppendVerified, AppendOrLeave, ExecutorFence, Goto, Fault, Follows, files, bounds, recovery
  <1>13. ASSUME NEW c \in Executor, AppendCompleted(c)
        PROVE  OneRunPerAuthorization'
    BY <1>13 DEF AppendCompleted, AppendOrLeave, ExecutorFence, Goto, Fault, Follows, files, bounds, recovery
  <1>14. ASSUME NEW c \in Executor, AppendInvalid(c)
        PROVE  OneRunPerAuthorization'
    BY <1>14 DEF AppendInvalid, AppendOrLeave, ExecutorFence, Goto, Fault, Follows, files, bounds, recovery
  <1>15. ASSUME NEW c \in Executor, AppendReview(c)
        PROVE  OneRunPerAuthorization'
    BY <1>15 DEF AppendReview, AppendOrLeave, ExecutorFence, Goto, Fault, Follows, files, bounds, recovery
  <1>16. ASSUME NEW c \in Executor, ExecutorRelease(c)
        PROVE  OneRunPerAuthorization'
    BY <1>16 DEF ExecutorRelease, ReleaseLease, Goto, Fault, Abandoned, Free, files, bounds, recovery
  <1>17. ASSUME NEW c \in Executor, ExecutorCrash(c)
        PROVE  OneRunPerAuthorization'
    BY <1>17 DEF ExecutorCrash, Goto, Fault, Abandoned, Working, Free, files, bounds, recovery
  <1>18. ASSUME NEW q \in Recoverer, NEW c \in Executor, StartRecovery(q, c)
        PROVE  OneRunPerAuthorization'
    BY <1>18 DEF StartRecovery, Goto, files, bounds, recovery
  <1>19. ASSUME NEW q \in Recoverer, AcquireRecoveryLease(q)
        PROVE  OneRunPerAuthorization'
    BY <1>19 DEF AcquireRecoveryLease, Goto, HeldBy, Free, files, bounds, recovery
  <1>20. ASSUME NEW q \in Recoverer, FreeTerminalLease(q)
        PROVE  OneRunPerAuthorization'
    BY <1>20 DEF FreeTerminalLease, Goto, HeldBy, Free, files, bounds, recovery
  <1>21. ASSUME NEW q \in Recoverer, Reread(q)
        PROVE  OneRunPerAuthorization'
    BY <1>21 DEF Reread, Goto, RecoveryFence, files, bounds, recovery
  <1>22. ASSUME NEW q \in Recoverer, Inspect(q)
        PROVE  OneRunPerAuthorization'
    BY <1>22 DEF Inspect, Goto, Physical, files, bounds, recovery
  <1>23. ASSUME NEW q \in Recoverer, InspectAgain(q)
        PROVE  OneRunPerAuthorization'
    BY <1>23 DEF InspectAgain, Goto, Physical, files, bounds, recovery
  <1>24. ASSUME NEW q \in Recoverer, AppendRecovered(q)
        PROVE  OneRunPerAuthorization'
    BY <1>24 DEF AppendRecovered, Goto, Fault, RecoveryFence, Recovered, Follows, files, bounds, recovery
  <1>25. ASSUME NEW q \in Recoverer, RecoveryRelease(q)
        PROVE  OneRunPerAuthorization'
    BY <1>25 DEF RecoveryRelease, ReleaseLease, Goto, Fault, Abandoned, Free, files, bounds, recovery
  <1>26. ASSUME NEW q \in Recoverer, RecoveryCrash(q)
        PROVE  OneRunPerAuthorization'
    BY <1>26 DEF RecoveryCrash, Goto, Fault, Abandoned, Working, Free, files, bounds, recovery
  <1>27. CASE Meddle
    BY <1>27 DEF Meddle, Entry, Content, files, bounds, recovery
  <1> QED
    BY <1>1, <1>2, <1>3, <1>4, <1>5, <1>6, <1>7, <1>8, <1>9, <1>10, <1>11, <1>12, <1>13, <1>14, <1>15, <1>16, <1>17, <1>18, <1>19, <1>20, <1>21, <1>22, <1>23, <1>24, <1>25, <1>26, <1>27 DEF Next, ExecutorStepOf, RecoveryStepOf

(* A step keeps what a recovery works on.                                 *)
LEMMA JobsStay ==
    ASSUME HistoryInv, TypeOK', Next
    PROVE  RecoveriesHaveAJob'
  <1> USE ConstantsAssumption DEF HistoryInv, TypeOK, CallsKnowWhatTheyDid, TargetsWereMoved, OneRunPerAuthorization, RecoveriesHaveAJob, Begun, Process, Entry, Content, SameBytes, Incomplete, Terminal, ExecutorStep, RecoveryStep
  <1>1. ASSUME NEW b \in Auth, Authorize(b)
        PROVE  RecoveriesHaveAJob'
    BY <1>1 DEF Authorize, files, bounds, recovery
  <1>2. ASSUME NEW b \in Auth, AuthorizationExpires(b)
        PROVE  RecoveriesHaveAJob'
    BY <1>2 DEF AuthorizationExpires, files, bounds, recovery
  <1>3. CASE LeaseExpires
    BY <1>3 DEF LeaseExpires, Fault, Working, files, bounds, recovery
  <1>4. ASSUME NEW c \in Executor, Confirm(c)
        PROVE  RecoveriesHaveAJob'
    BY <1>4 DEF Confirm, Goto, Consumed, files, bounds, recovery
  <1>5. ASSUME NEW c \in Executor, AcquireRunLease(c)
        PROVE  RecoveriesHaveAJob'
    BY <1>5 DEF AcquireRunLease, Goto, HeldBy, Free, files, bounds, recovery
  <1>6. ASSUME NEW c \in Executor, Revalidate(c)
        PROVE  RecoveriesHaveAJob'
    BY <1>6 DEF Revalidate, Goto, files, bounds, recovery
  <1>7. ASSUME NEW c \in Executor, Prepare(c)
        PROVE  RecoveriesHaveAJob'
    BY <1>7 DEF Prepare, Goto, ExecutorFence, Consumed, files, bounds, recovery
  <1>8. ASSUME NEW c \in Executor, Check(c)
        PROVE  RecoveriesHaveAJob'
    BY <1>8 DEF Check, Goto, SameBytes, files, bounds, recovery
  <1>9. ASSUME NEW c \in Executor, Move(c)
        PROVE  RecoveriesHaveAJob'
    BY <1>9 DEF Move, Goto, files, bounds, recovery
  <1>10. ASSUME NEW c \in Executor, AppendMoved(c)
        PROVE  RecoveriesHaveAJob'
    BY <1>10 DEF AppendMoved, AppendOrLeave, ExecutorFence, Goto, Fault, Follows, files, bounds, recovery
  <1>11. ASSUME NEW c \in Executor, Verify(c)
        PROVE  RecoveriesHaveAJob'
    BY <1>11 DEF Verify, Goto, SameBytes, files, bounds, recovery
  <1>12. ASSUME NEW c \in Executor, AppendVerified(c)
        PROVE  RecoveriesHaveAJob'
    BY <1>12 DEF AppendVerified, AppendOrLeave, ExecutorFence, Goto, Fault, Follows, files, bounds, recovery
  <1>13. ASSUME NEW c \in Executor, AppendCompleted(c)
        PROVE  RecoveriesHaveAJob'
    BY <1>13 DEF AppendCompleted, AppendOrLeave, ExecutorFence, Goto, Fault, Follows, files, bounds, recovery
  <1>14. ASSUME NEW c \in Executor, AppendInvalid(c)
        PROVE  RecoveriesHaveAJob'
    BY <1>14 DEF AppendInvalid, AppendOrLeave, ExecutorFence, Goto, Fault, Follows, files, bounds, recovery
  <1>15. ASSUME NEW c \in Executor, AppendReview(c)
        PROVE  RecoveriesHaveAJob'
    BY <1>15 DEF AppendReview, AppendOrLeave, ExecutorFence, Goto, Fault, Follows, files, bounds, recovery
  <1>16. ASSUME NEW c \in Executor, ExecutorRelease(c)
        PROVE  RecoveriesHaveAJob'
    BY <1>16 DEF ExecutorRelease, ReleaseLease, Goto, Fault, Abandoned, Free, files, bounds, recovery
  <1>17. ASSUME NEW c \in Executor, ExecutorCrash(c)
        PROVE  RecoveriesHaveAJob'
    BY <1>17 DEF ExecutorCrash, Goto, Fault, Abandoned, Working, Free, files, bounds, recovery
  <1>18. ASSUME NEW q \in Recoverer, NEW c \in Executor, StartRecovery(q, c)
        PROVE  RecoveriesHaveAJob'
    BY <1>18 DEF StartRecovery, Goto, files, bounds, recovery
  <1>19. ASSUME NEW q \in Recoverer, AcquireRecoveryLease(q)
        PROVE  RecoveriesHaveAJob'
    BY <1>19 DEF AcquireRecoveryLease, Goto, HeldBy, Free, files, bounds, recovery
  <1>20. ASSUME NEW q \in Recoverer, FreeTerminalLease(q)
        PROVE  RecoveriesHaveAJob'
    BY <1>20 DEF FreeTerminalLease, Goto, HeldBy, Free, files, bounds, recovery
  <1>21. ASSUME NEW q \in Recoverer, Reread(q)
        PROVE  RecoveriesHaveAJob'
    BY <1>21 DEF Reread, Goto, RecoveryFence, files, bounds, recovery
  <1>22. ASSUME NEW q \in Recoverer, Inspect(q)
        PROVE  RecoveriesHaveAJob'
    BY <1>22 DEF Inspect, Goto, Physical, files, bounds, recovery
  <1>23. ASSUME NEW q \in Recoverer, InspectAgain(q)
        PROVE  RecoveriesHaveAJob'
    BY <1>23 DEF InspectAgain, Goto, Physical, files, bounds, recovery
  <1>24. ASSUME NEW q \in Recoverer, AppendRecovered(q)
        PROVE  RecoveriesHaveAJob'
    BY <1>24 DEF AppendRecovered, Goto, Fault, RecoveryFence, Recovered, Follows, files, bounds, recovery
  <1>25. ASSUME NEW q \in Recoverer, RecoveryRelease(q)
        PROVE  RecoveriesHaveAJob'
    BY <1>25 DEF RecoveryRelease, ReleaseLease, Goto, Fault, Abandoned, Free, files, bounds, recovery
  <1>26. ASSUME NEW q \in Recoverer, RecoveryCrash(q)
        PROVE  RecoveriesHaveAJob'
    BY <1>26 DEF RecoveryCrash, Goto, Fault, Abandoned, Working, Free, files, bounds, recovery
  <1>27. CASE Meddle
    BY <1>27 DEF Meddle, Entry, Content, files, bounds, recovery
  <1> QED
    BY <1>1, <1>2, <1>3, <1>4, <1>5, <1>6, <1>7, <1>8, <1>9, <1>10, <1>11, <1>12, <1>13, <1>14, <1>15, <1>16, <1>17, <1>18, <1>19, <1>20, <1>21, <1>22, <1>23, <1>24, <1>25, <1>26, <1>27 DEF Next, ExecutorStepOf, RecoveryStepOf

(* A step keeps that a success has its target.                            *)
LEMMA SuccessStays ==
    ASSUME HistoryInv, TypeOK', Next
    PROVE  SuccessMeansQuarantined'
  <1> USE ConstantsAssumption DEF HistoryInv, TypeOK, CallsKnowWhatTheyDid, TargetsWereMoved, OneRunPerAuthorization, RecoveriesHaveAJob, SuccessMeansQuarantined, Begun, Process, Entry, Content, SameBytes, Incomplete, Terminal, ExecutorStep, RecoveryStep
  <1>1. ASSUME NEW b \in Auth, Authorize(b)
        PROVE  SuccessMeansQuarantined'
    BY <1>1 DEF Authorize, files, bounds, recovery
  <1>2. ASSUME NEW b \in Auth, AuthorizationExpires(b)
        PROVE  SuccessMeansQuarantined'
    BY <1>2 DEF AuthorizationExpires, files, bounds, recovery
  <1>3. CASE LeaseExpires
    BY <1>3 DEF LeaseExpires, Fault, Working, files, bounds, recovery
  <1>4. ASSUME NEW c \in Executor, Confirm(c)
        PROVE  SuccessMeansQuarantined'
    BY <1>4 DEF Confirm, Goto, Consumed, files, bounds, recovery
  <1>5. ASSUME NEW c \in Executor, AcquireRunLease(c)
        PROVE  SuccessMeansQuarantined'
    BY <1>5 DEF AcquireRunLease, Goto, HeldBy, Free, files, bounds, recovery
  <1>6. ASSUME NEW c \in Executor, Revalidate(c)
        PROVE  SuccessMeansQuarantined'
    BY <1>6 DEF Revalidate, Goto, files, bounds, recovery
  <1>7. ASSUME NEW c \in Executor, Prepare(c)
        PROVE  SuccessMeansQuarantined'
    BY <1>7 DEF Prepare, Goto, ExecutorFence, Consumed, files, bounds, recovery
  <1>8. ASSUME NEW c \in Executor, Check(c)
        PROVE  SuccessMeansQuarantined'
    BY <1>8 DEF Check, Goto, SameBytes, files, bounds, recovery
  <1>9. ASSUME NEW c \in Executor, Move(c)
        PROVE  SuccessMeansQuarantined'
    BY <1>9 DEF Move, Goto, files, bounds, recovery
  <1>10. ASSUME NEW c \in Executor, AppendMoved(c)
        PROVE  SuccessMeansQuarantined'
    BY <1>10 DEF AppendMoved, AppendOrLeave, ExecutorFence, Goto, Fault, Follows, files, bounds, recovery
  <1>11. ASSUME NEW c \in Executor, Verify(c)
        PROVE  SuccessMeansQuarantined'
    BY <1>11 DEF Verify, Goto, SameBytes, files, bounds, recovery
  <1>12. ASSUME NEW c \in Executor, AppendVerified(c)
        PROVE  SuccessMeansQuarantined'
    BY <1>12 DEF AppendVerified, AppendOrLeave, ExecutorFence, Goto, Fault, Follows, files, bounds, recovery
  <1>13. ASSUME NEW c \in Executor, AppendCompleted(c)
        PROVE  SuccessMeansQuarantined'
    BY <1>13 DEF AppendCompleted, AppendOrLeave, ExecutorFence, Goto, Fault, Follows, files, bounds, recovery
  <1>14. ASSUME NEW c \in Executor, AppendInvalid(c)
        PROVE  SuccessMeansQuarantined'
    BY <1>14 DEF AppendInvalid, AppendOrLeave, ExecutorFence, Goto, Fault, Follows, files, bounds, recovery
  <1>15. ASSUME NEW c \in Executor, AppendReview(c)
        PROVE  SuccessMeansQuarantined'
    BY <1>15 DEF AppendReview, AppendOrLeave, ExecutorFence, Goto, Fault, Follows, files, bounds, recovery
  <1>16. ASSUME NEW c \in Executor, ExecutorRelease(c)
        PROVE  SuccessMeansQuarantined'
    BY <1>16 DEF ExecutorRelease, ReleaseLease, Goto, Fault, Abandoned, Free, files, bounds, recovery
  <1>17. ASSUME NEW c \in Executor, ExecutorCrash(c)
        PROVE  SuccessMeansQuarantined'
    BY <1>17 DEF ExecutorCrash, Goto, Fault, Abandoned, Working, Free, files, bounds, recovery
  <1>18. ASSUME NEW q \in Recoverer, NEW c \in Executor, StartRecovery(q, c)
        PROVE  SuccessMeansQuarantined'
    BY <1>18 DEF StartRecovery, Goto, files, bounds, recovery
  <1>19. ASSUME NEW q \in Recoverer, AcquireRecoveryLease(q)
        PROVE  SuccessMeansQuarantined'
    BY <1>19 DEF AcquireRecoveryLease, Goto, HeldBy, Free, files, bounds, recovery
  <1>20. ASSUME NEW q \in Recoverer, FreeTerminalLease(q)
        PROVE  SuccessMeansQuarantined'
    BY <1>20 DEF FreeTerminalLease, Goto, HeldBy, Free, files, bounds, recovery
  <1>21. ASSUME NEW q \in Recoverer, Reread(q)
        PROVE  SuccessMeansQuarantined'
    BY <1>21 DEF Reread, Goto, RecoveryFence, files, bounds, recovery
  <1>22. ASSUME NEW q \in Recoverer, Inspect(q)
        PROVE  SuccessMeansQuarantined'
    BY <1>22 DEF Inspect, Goto, Physical, files, bounds, recovery
  <1>23. ASSUME NEW q \in Recoverer, InspectAgain(q)
        PROVE  SuccessMeansQuarantined'
    BY <1>23 DEF InspectAgain, Goto, Physical, files, bounds, recovery
  <1>24. ASSUME NEW q \in Recoverer, AppendRecovered(q)
        PROVE  SuccessMeansQuarantined'
    BY <1>24 DEF AppendRecovered, Goto, Fault, RecoveryFence, Recovered, Follows, files, bounds, recovery
  <1>25. ASSUME NEW q \in Recoverer, RecoveryRelease(q)
        PROVE  SuccessMeansQuarantined'
    BY <1>25 DEF RecoveryRelease, ReleaseLease, Goto, Fault, Abandoned, Free, files, bounds, recovery
  <1>26. ASSUME NEW q \in Recoverer, RecoveryCrash(q)
        PROVE  SuccessMeansQuarantined'
    BY <1>26 DEF RecoveryCrash, Goto, Fault, Abandoned, Working, Free, files, bounds, recovery
  <1>27. CASE Meddle
    BY <1>27 DEF Meddle, Entry, Content, files, bounds, recovery
  <1> QED
    BY <1>1, <1>2, <1>3, <1>4, <1>5, <1>6, <1>7, <1>8, <1>9, <1>10, <1>11, <1>12, <1>13, <1>14, <1>15, <1>16, <1>17, <1>18, <1>19, <1>20, <1>21, <1>22, <1>23, <1>24, <1>25, <1>26, <1>27 DEF Next, ExecutorStepOf, RecoveryStepOf

(* A step keeps who holds the lease.                                      *)
LEMMA LeasesStay ==
    ASSUME HistoryInv, HistoryInv', LeaseInv, Next
    PROVE  CallsHoldTheirLease'
  <1> USE ConstantsAssumption DEF HistoryInv, TypeOK, CallsKnowWhatTheyDid, RecoveriesHaveAJob, LeaseInv, Begun, Holding, CallsHoldTheirLease, Process, Entry, Content, SameBytes, Incomplete, Terminal, ExecutorStep, RecoveryStep
  <1>1. ASSUME NEW b \in Auth, Authorize(b)
        PROVE  CallsHoldTheirLease'
    BY <1>1 DEF Authorize, files, bounds, recovery, HeldBy, Free
  <1>2. ASSUME NEW b \in Auth, AuthorizationExpires(b)
        PROVE  CallsHoldTheirLease'
    BY <1>2 DEF AuthorizationExpires, files, bounds, recovery, HeldBy, Free
  <1>3. CASE LeaseExpires
    BY <1>3 DEF LeaseExpires, Fault, Working, files, bounds, recovery, HeldBy, Free
  <1>4. ASSUME NEW c \in Executor, Confirm(c)
        PROVE  CallsHoldTheirLease'
    BY <1>4 DEF Confirm, Goto, Consumed, files, bounds, recovery, HeldBy, Free
  <1>5. ASSUME NEW c \in Executor, AcquireRunLease(c)
        PROVE  CallsHoldTheirLease'
    BY <1>5 DEF AcquireRunLease, Goto, HeldBy, Free, files, bounds, recovery
  <1>6. ASSUME NEW c \in Executor, Revalidate(c)
        PROVE  CallsHoldTheirLease'
    BY <1>6 DEF Revalidate, Goto, files, bounds, recovery, HeldBy, Free
  <1>7. ASSUME NEW c \in Executor, Prepare(c)
        PROVE  CallsHoldTheirLease'
    BY <1>7 DEF Prepare, Goto, ExecutorFence, Consumed, files, bounds, recovery, HeldBy, Free
  <1>8. ASSUME NEW c \in Executor, Check(c)
        PROVE  CallsHoldTheirLease'
    BY <1>8 DEF Check, Goto, SameBytes, files, bounds, recovery, HeldBy, Free
  <1>9. ASSUME NEW c \in Executor, Move(c)
        PROVE  CallsHoldTheirLease'
    BY <1>9 DEF Move, Goto, files, bounds, recovery, HeldBy, Free
  <1>10. ASSUME NEW c \in Executor, AppendMoved(c)
        PROVE  CallsHoldTheirLease'
    BY <1>10 DEF AppendMoved, AppendOrLeave, ExecutorFence, Goto, Fault, Follows, files, bounds, recovery, HeldBy, Free
  <1>11. ASSUME NEW c \in Executor, Verify(c)
        PROVE  CallsHoldTheirLease'
    BY <1>11 DEF Verify, Goto, SameBytes, files, bounds, recovery, HeldBy, Free
  <1>12. ASSUME NEW c \in Executor, AppendVerified(c)
        PROVE  CallsHoldTheirLease'
    BY <1>12 DEF AppendVerified, AppendOrLeave, ExecutorFence, Goto, Fault, Follows, files, bounds, recovery, HeldBy, Free
  <1>13. ASSUME NEW c \in Executor, AppendCompleted(c)
        PROVE  CallsHoldTheirLease'
    BY <1>13 DEF AppendCompleted, AppendOrLeave, ExecutorFence, Goto, Fault, Follows, files, bounds, recovery, HeldBy, Free
  <1>14. ASSUME NEW c \in Executor, AppendInvalid(c)
        PROVE  CallsHoldTheirLease'
    BY <1>14 DEF AppendInvalid, AppendOrLeave, ExecutorFence, Goto, Fault, Follows, files, bounds, recovery, HeldBy, Free
  <1>15. ASSUME NEW c \in Executor, AppendReview(c)
        PROVE  CallsHoldTheirLease'
    BY <1>15 DEF AppendReview, AppendOrLeave, ExecutorFence, Goto, Fault, Follows, files, bounds, recovery, HeldBy, Free
  <1>16. ASSUME NEW c \in Executor, ExecutorRelease(c)
        PROVE  CallsHoldTheirLease'
    BY <1>16 DEF ExecutorRelease, ReleaseLease, Goto, Fault, Abandoned, Free, files, bounds, recovery, HeldBy
  <1>17. ASSUME NEW c \in Executor, ExecutorCrash(c)
        PROVE  CallsHoldTheirLease'
    <2> SUFFICES ASSUME NEW e \in Executor, pc'[e] \in Holding, e \notin outlived'
                 PROVE  row' = HeldBy(e, e)
      BY DEF CallsHoldTheirLease
    <2>1. e # c /\ pc[e] \in Holding /\ e \notin outlived
      BY <1>17 DEF ExecutorCrash, Goto
    <2>2. row = HeldBy(e, e)
      BY <2>1
    <2>3. row' = row
      BY <1>17, <2>1, <2>2 DEF ExecutorCrash, Abandoned, HeldBy
    <2> QED
      BY <2>2, <2>3
  <1>18. ASSUME NEW q \in Recoverer, NEW c \in Executor, StartRecovery(q, c)
        PROVE  CallsHoldTheirLease'
    BY <1>18 DEF StartRecovery, Goto, files, bounds, recovery, HeldBy, Free
  <1>19. ASSUME NEW q \in Recoverer, AcquireRecoveryLease(q)
        PROVE  CallsHoldTheirLease'
    BY <1>19 DEF AcquireRecoveryLease, Goto, HeldBy, Free, files, bounds, recovery
  <1>20. ASSUME NEW q \in Recoverer, FreeTerminalLease(q)
        PROVE  CallsHoldTheirLease'
    BY <1>20 DEF FreeTerminalLease, Goto, HeldBy, Free, files, bounds, recovery
  <1>21. ASSUME NEW q \in Recoverer, Reread(q)
        PROVE  CallsHoldTheirLease'
    BY <1>21 DEF Reread, Goto, RecoveryFence, files, bounds, recovery, HeldBy, Free
  <1>22. ASSUME NEW q \in Recoverer, Inspect(q)
        PROVE  CallsHoldTheirLease'
    BY <1>22 DEF Inspect, Goto, Physical, files, bounds, recovery, HeldBy, Free
  <1>23. ASSUME NEW q \in Recoverer, InspectAgain(q)
        PROVE  CallsHoldTheirLease'
    BY <1>23 DEF InspectAgain, Goto, Physical, files, bounds, recovery, HeldBy, Free
  <1>24. ASSUME NEW q \in Recoverer, AppendRecovered(q)
        PROVE  CallsHoldTheirLease'
    BY <1>24 DEF AppendRecovered, Goto, Fault, RecoveryFence, Recovered, Follows, files, bounds, recovery, HeldBy, Free
  <1>25. ASSUME NEW q \in Recoverer, RecoveryRelease(q)
        PROVE  CallsHoldTheirLease'
    BY <1>25 DEF RecoveryRelease, ReleaseLease, Goto, Fault, Abandoned, Free, files, bounds, recovery, HeldBy
  <1>26. ASSUME NEW q \in Recoverer, RecoveryCrash(q)
        PROVE  CallsHoldTheirLease'
    <2> SUFFICES ASSUME NEW e \in Executor, pc'[e] \in Holding, e \notin outlived'
                 PROVE  row' = HeldBy(e, e)
      BY DEF CallsHoldTheirLease
    <2>1. e # q /\ pc[e] \in Holding /\ e \notin outlived
      BY <1>26 DEF RecoveryCrash, Goto
    <2>2. row = HeldBy(e, e)
      BY <2>1
    <2>3. row' = row
      BY <1>26, <2>1, <2>2 DEF RecoveryCrash, Abandoned, HeldBy
    <2> QED
      BY <2>2, <2>3
  <1>27. CASE Meddle
    BY <1>27 DEF Meddle, Entry, Content, files, bounds, recovery, HeldBy, Free
  <1> QED
    BY <1>1, <1>2, <1>3, <1>4, <1>5, <1>6, <1>7, <1>8, <1>9, <1>10, <1>11, <1>12, <1>13, <1>14, <1>15, <1>16, <1>17, <1>18, <1>19, <1>20, <1>21, <1>22, <1>23, <1>24, <1>25, <1>26, <1>27 DEF Next, ExecutorStepOf, RecoveryStepOf

(* A step keeps that recovered calls are over.                            *)
LEMMA OverStays ==
    ASSUME HistoryInv, HistoryInv', LeaseInv, Next
    PROVE  RecoveredCallsAreOver'
  <1> USE ConstantsAssumption DEF HistoryInv, TypeOK, CallsKnowWhatTheyDid, RecoveriesHaveAJob, LeaseInv, Begun, Holding, CallsHoldTheirLease, RecoveredCallsAreOver, Process, Entry, Content, SameBytes, Incomplete, Terminal, ExecutorStep, RecoveryStep
  <1>1. ASSUME NEW b \in Auth, Authorize(b)
        PROVE  RecoveredCallsAreOver'
    BY <1>1 DEF Authorize, files, bounds, recovery, HeldBy, Free
  <1>2. ASSUME NEW b \in Auth, AuthorizationExpires(b)
        PROVE  RecoveredCallsAreOver'
    BY <1>2 DEF AuthorizationExpires, files, bounds, recovery, HeldBy, Free
  <1>3. CASE LeaseExpires
    BY <1>3 DEF LeaseExpires, Fault, Working, files, bounds, recovery, HeldBy, Free
  <1>4. ASSUME NEW c \in Executor, Confirm(c)
        PROVE  RecoveredCallsAreOver'
    BY <1>4 DEF Confirm, Goto, Consumed, files, bounds, recovery, HeldBy, Free
  <1>5. ASSUME NEW c \in Executor, AcquireRunLease(c)
        PROVE  RecoveredCallsAreOver'
    BY <1>5 DEF AcquireRunLease, Goto, HeldBy, Free, files, bounds, recovery
  <1>6. ASSUME NEW c \in Executor, Revalidate(c)
        PROVE  RecoveredCallsAreOver'
    BY <1>6 DEF Revalidate, Goto, files, bounds, recovery, HeldBy, Free
  <1>7. ASSUME NEW c \in Executor, Prepare(c)
        PROVE  RecoveredCallsAreOver'
    BY <1>7 DEF Prepare, Goto, ExecutorFence, Consumed, files, bounds, recovery, HeldBy, Free
  <1>8. ASSUME NEW c \in Executor, Check(c)
        PROVE  RecoveredCallsAreOver'
    BY <1>8 DEF Check, Goto, SameBytes, files, bounds, recovery, HeldBy, Free
  <1>9. ASSUME NEW c \in Executor, Move(c)
        PROVE  RecoveredCallsAreOver'
    BY <1>9 DEF Move, Goto, files, bounds, recovery, HeldBy, Free
  <1>10. ASSUME NEW c \in Executor, AppendMoved(c)
        PROVE  RecoveredCallsAreOver'
    BY <1>10 DEF AppendMoved, AppendOrLeave, ExecutorFence, Goto, Fault, Follows, files, bounds, recovery, HeldBy, Free
  <1>11. ASSUME NEW c \in Executor, Verify(c)
        PROVE  RecoveredCallsAreOver'
    BY <1>11 DEF Verify, Goto, SameBytes, files, bounds, recovery, HeldBy, Free
  <1>12. ASSUME NEW c \in Executor, AppendVerified(c)
        PROVE  RecoveredCallsAreOver'
    BY <1>12 DEF AppendVerified, AppendOrLeave, ExecutorFence, Goto, Fault, Follows, files, bounds, recovery, HeldBy, Free
  <1>13. ASSUME NEW c \in Executor, AppendCompleted(c)
        PROVE  RecoveredCallsAreOver'
    BY <1>13 DEF AppendCompleted, AppendOrLeave, ExecutorFence, Goto, Fault, Follows, files, bounds, recovery, HeldBy, Free
  <1>14. ASSUME NEW c \in Executor, AppendInvalid(c)
        PROVE  RecoveredCallsAreOver'
    BY <1>14 DEF AppendInvalid, AppendOrLeave, ExecutorFence, Goto, Fault, Follows, files, bounds, recovery, HeldBy, Free
  <1>15. ASSUME NEW c \in Executor, AppendReview(c)
        PROVE  RecoveredCallsAreOver'
    BY <1>15 DEF AppendReview, AppendOrLeave, ExecutorFence, Goto, Fault, Follows, files, bounds, recovery, HeldBy, Free
  <1>16. ASSUME NEW c \in Executor, ExecutorRelease(c)
        PROVE  RecoveredCallsAreOver'
    BY <1>16 DEF ExecutorRelease, ReleaseLease, Goto, Fault, Abandoned, Free, files, bounds, recovery, HeldBy
  <1>17. ASSUME NEW c \in Executor, ExecutorCrash(c)
        PROVE  RecoveredCallsAreOver'
    BY <1>17 DEF ExecutorCrash, Goto, Fault, Abandoned, Working, Free, files, bounds, recovery, HeldBy
  <1>18. ASSUME NEW q \in Recoverer, NEW c \in Executor, StartRecovery(q, c)
        PROVE  RecoveredCallsAreOver'
    BY <1>18 DEF StartRecovery, Goto, files, bounds, recovery, HeldBy, Free
  <1>19. ASSUME NEW q \in Recoverer, AcquireRecoveryLease(q)
        PROVE  RecoveredCallsAreOver'
    BY <1>19 DEF AcquireRecoveryLease, Goto, HeldBy, Free, files, bounds, recovery
  <1>20. ASSUME NEW q \in Recoverer, FreeTerminalLease(q)
        PROVE  RecoveredCallsAreOver'
    BY <1>20 DEF FreeTerminalLease, Goto, HeldBy, Free, files, bounds, recovery
  <1>21. ASSUME NEW q \in Recoverer, Reread(q)
        PROVE  RecoveredCallsAreOver'
    BY <1>21 DEF Reread, Goto, RecoveryFence, files, bounds, recovery, HeldBy, Free
  <1>22. ASSUME NEW q \in Recoverer, Inspect(q)
        PROVE  RecoveredCallsAreOver'
    BY <1>22 DEF Inspect, Goto, Physical, files, bounds, recovery, HeldBy, Free
  <1>23. ASSUME NEW q \in Recoverer, InspectAgain(q)
        PROVE  RecoveredCallsAreOver'
    BY <1>23 DEF InspectAgain, Goto, Physical, files, bounds, recovery, HeldBy, Free
  <1>24. ASSUME NEW q \in Recoverer, AppendRecovered(q)
        PROVE  RecoveredCallsAreOver'
    BY <1>24 DEF AppendRecovered, Goto, Fault, RecoveryFence, Recovered, Follows, files, bounds, recovery, HeldBy, Free
  <1>25. ASSUME NEW q \in Recoverer, RecoveryRelease(q)
        PROVE  RecoveredCallsAreOver'
    BY <1>25 DEF RecoveryRelease, ReleaseLease, Goto, Fault, Abandoned, Free, files, bounds, recovery, HeldBy
  <1>26. ASSUME NEW q \in Recoverer, RecoveryCrash(q)
        PROVE  RecoveredCallsAreOver'
    BY <1>26 DEF RecoveryCrash, Goto, Fault, Abandoned, Working, Free, files, bounds, recovery, HeldBy
  <1>27. CASE Meddle
    BY <1>27 DEF Meddle, Entry, Content, files, bounds, recovery, HeldBy, Free
  <1> QED
    BY <1>1, <1>2, <1>3, <1>4, <1>5, <1>6, <1>7, <1>8, <1>9, <1>10, <1>11, <1>12, <1>13, <1>14, <1>15, <1>16, <1>17, <1>18, <1>19, <1>20, <1>21, <1>22, <1>23, <1>24, <1>25, <1>26, <1>27 DEF Next, ExecutorStepOf, RecoveryStepOf

(* A step keeps that a moving call is prepared.                           *)
LEMMA PreparedStays ==
    ASSUME HistoryInv, HistoryInv', LeaseInv, Next
    PROVE  MovingCallsArePrepared'
  <1> USE ConstantsAssumption DEF HistoryInv, TypeOK, CallsKnowWhatTheyDid, RecoveriesHaveAJob, LeaseInv, Begun, Holding, CallsHoldTheirLease, RecoveredCallsAreOver, MovingCallsArePrepared, Process, Entry, Content, SameBytes, Incomplete, Terminal, ExecutorStep, RecoveryStep
  <1>1. ASSUME NEW b \in Auth, Authorize(b)
        PROVE  MovingCallsArePrepared'
    BY <1>1 DEF Authorize, files, bounds, recovery, HeldBy, Free
  <1>2. ASSUME NEW b \in Auth, AuthorizationExpires(b)
        PROVE  MovingCallsArePrepared'
    BY <1>2 DEF AuthorizationExpires, files, bounds, recovery, HeldBy, Free
  <1>3. CASE LeaseExpires
    BY <1>3 DEF LeaseExpires, Fault, Working, files, bounds, recovery, HeldBy, Free
  <1>4. ASSUME NEW c \in Executor, Confirm(c)
        PROVE  MovingCallsArePrepared'
    BY <1>4 DEF Confirm, Goto, Consumed, files, bounds, recovery, HeldBy, Free
  <1>5. ASSUME NEW c \in Executor, AcquireRunLease(c)
        PROVE  MovingCallsArePrepared'
    BY <1>5 DEF AcquireRunLease, Goto, HeldBy, Free, files, bounds, recovery
  <1>6. ASSUME NEW c \in Executor, Revalidate(c)
        PROVE  MovingCallsArePrepared'
    BY <1>6 DEF Revalidate, Goto, files, bounds, recovery, HeldBy, Free
  <1>7. ASSUME NEW c \in Executor, Prepare(c)
        PROVE  MovingCallsArePrepared'
    BY <1>7 DEF Prepare, Goto, ExecutorFence, Consumed, files, bounds, recovery, HeldBy, Free
  <1>8. ASSUME NEW c \in Executor, Check(c)
        PROVE  MovingCallsArePrepared'
    BY <1>8 DEF Check, Goto, SameBytes, files, bounds, recovery, HeldBy, Free
  <1>9. ASSUME NEW c \in Executor, Move(c)
        PROVE  MovingCallsArePrepared'
    BY <1>9 DEF Move, Goto, files, bounds, recovery, HeldBy, Free
  <1>10. ASSUME NEW c \in Executor, AppendMoved(c)
        PROVE  MovingCallsArePrepared'
    BY <1>10 DEF AppendMoved, AppendOrLeave, ExecutorFence, Goto, Fault, Follows, files, bounds, recovery, HeldBy, Free
  <1>11. ASSUME NEW c \in Executor, Verify(c)
        PROVE  MovingCallsArePrepared'
    BY <1>11 DEF Verify, Goto, SameBytes, files, bounds, recovery, HeldBy, Free
  <1>12. ASSUME NEW c \in Executor, AppendVerified(c)
        PROVE  MovingCallsArePrepared'
    BY <1>12 DEF AppendVerified, AppendOrLeave, ExecutorFence, Goto, Fault, Follows, files, bounds, recovery, HeldBy, Free
  <1>13. ASSUME NEW c \in Executor, AppendCompleted(c)
        PROVE  MovingCallsArePrepared'
    BY <1>13 DEF AppendCompleted, AppendOrLeave, ExecutorFence, Goto, Fault, Follows, files, bounds, recovery, HeldBy, Free
  <1>14. ASSUME NEW c \in Executor, AppendInvalid(c)
        PROVE  MovingCallsArePrepared'
    BY <1>14 DEF AppendInvalid, AppendOrLeave, ExecutorFence, Goto, Fault, Follows, files, bounds, recovery, HeldBy, Free
  <1>15. ASSUME NEW c \in Executor, AppendReview(c)
        PROVE  MovingCallsArePrepared'
    BY <1>15 DEF AppendReview, AppendOrLeave, ExecutorFence, Goto, Fault, Follows, files, bounds, recovery, HeldBy, Free
  <1>16. ASSUME NEW c \in Executor, ExecutorRelease(c)
        PROVE  MovingCallsArePrepared'
    BY <1>16 DEF ExecutorRelease, ReleaseLease, Goto, Fault, Abandoned, Free, files, bounds, recovery, HeldBy
  <1>17. ASSUME NEW c \in Executor, ExecutorCrash(c)
        PROVE  MovingCallsArePrepared'
    BY <1>17 DEF ExecutorCrash, Goto, Fault, Abandoned, Working, Free, files, bounds, recovery, HeldBy
  <1>18. ASSUME NEW q \in Recoverer, NEW c \in Executor, StartRecovery(q, c)
        PROVE  MovingCallsArePrepared'
    BY <1>18 DEF StartRecovery, Goto, files, bounds, recovery, HeldBy, Free
  <1>19. ASSUME NEW q \in Recoverer, AcquireRecoveryLease(q)
        PROVE  MovingCallsArePrepared'
    BY <1>19 DEF AcquireRecoveryLease, Goto, HeldBy, Free, files, bounds, recovery
  <1>20. ASSUME NEW q \in Recoverer, FreeTerminalLease(q)
        PROVE  MovingCallsArePrepared'
    BY <1>20 DEF FreeTerminalLease, Goto, HeldBy, Free, files, bounds, recovery
  <1>21. ASSUME NEW q \in Recoverer, Reread(q)
        PROVE  MovingCallsArePrepared'
    BY <1>21 DEF Reread, Goto, RecoveryFence, files, bounds, recovery, HeldBy, Free
  <1>22. ASSUME NEW q \in Recoverer, Inspect(q)
        PROVE  MovingCallsArePrepared'
    BY <1>22 DEF Inspect, Goto, Physical, files, bounds, recovery, HeldBy, Free
  <1>23. ASSUME NEW q \in Recoverer, InspectAgain(q)
        PROVE  MovingCallsArePrepared'
    BY <1>23 DEF InspectAgain, Goto, Physical, files, bounds, recovery, HeldBy, Free
  <1>24. ASSUME NEW q \in Recoverer, AppendRecovered(q)
        PROVE  MovingCallsArePrepared'
    BY <1>24 DEF AppendRecovered, Goto, Fault, RecoveryFence, Recovered, Follows, files, bounds, recovery, HeldBy, Free
  <1>25. ASSUME NEW q \in Recoverer, RecoveryRelease(q)
        PROVE  MovingCallsArePrepared'
    BY <1>25 DEF RecoveryRelease, ReleaseLease, Goto, Fault, Abandoned, Free, files, bounds, recovery, HeldBy
  <1>26. ASSUME NEW q \in Recoverer, RecoveryCrash(q)
        PROVE  MovingCallsArePrepared'
    BY <1>26 DEF RecoveryCrash, Goto, Fault, Abandoned, Working, Free, files, bounds, recovery, HeldBy
  <1>27. CASE Meddle
    BY <1>27 DEF Meddle, Entry, Content, files, bounds, recovery, HeldBy, Free
  <1> QED
    BY <1>1, <1>2, <1>3, <1>4, <1>5, <1>6, <1>7, <1>8, <1>9, <1>10, <1>11, <1>12, <1>13, <1>14, <1>15, <1>16, <1>17, <1>18, <1>19, <1>20, <1>21, <1>22, <1>23, <1>24, <1>25, <1>26, <1>27 DEF Next, ExecutorStepOf, RecoveryStepOf

(* A step keeps that every move has its record.                           *)
LEMMA RecordStays ==
    ASSUME HistoryInv, HistoryInv', LeaseInv, Next
    PROVE  NothingMovedWithoutARecord'
  <1> USE ConstantsAssumption DEF HistoryInv, TypeOK, CallsKnowWhatTheyDid, RecoveriesHaveAJob, LeaseInv, Begun, Holding, CallsHoldTheirLease, RecoveredCallsAreOver, MovingCallsArePrepared, NothingMovedWithoutARecord, Process, Entry, Content, SameBytes, Incomplete, Terminal, ExecutorStep, RecoveryStep
  <1>1. ASSUME NEW b \in Auth, Authorize(b)
        PROVE  NothingMovedWithoutARecord'
    BY <1>1 DEF Authorize, files, bounds, recovery, HeldBy, Free
  <1>2. ASSUME NEW b \in Auth, AuthorizationExpires(b)
        PROVE  NothingMovedWithoutARecord'
    BY <1>2 DEF AuthorizationExpires, files, bounds, recovery, HeldBy, Free
  <1>3. CASE LeaseExpires
    BY <1>3 DEF LeaseExpires, Fault, Working, files, bounds, recovery, HeldBy, Free
  <1>4. ASSUME NEW c \in Executor, Confirm(c)
        PROVE  NothingMovedWithoutARecord'
    BY <1>4 DEF Confirm, Goto, Consumed, files, bounds, recovery, HeldBy, Free
  <1>5. ASSUME NEW c \in Executor, AcquireRunLease(c)
        PROVE  NothingMovedWithoutARecord'
    BY <1>5 DEF AcquireRunLease, Goto, HeldBy, Free, files, bounds, recovery
  <1>6. ASSUME NEW c \in Executor, Revalidate(c)
        PROVE  NothingMovedWithoutARecord'
    BY <1>6 DEF Revalidate, Goto, files, bounds, recovery, HeldBy, Free
  <1>7. ASSUME NEW c \in Executor, Prepare(c)
        PROVE  NothingMovedWithoutARecord'
    BY <1>7 DEF Prepare, Goto, ExecutorFence, Consumed, files, bounds, recovery, HeldBy, Free
  <1>8. ASSUME NEW c \in Executor, Check(c)
        PROVE  NothingMovedWithoutARecord'
    BY <1>8 DEF Check, Goto, SameBytes, files, bounds, recovery, HeldBy, Free
  <1>9. ASSUME NEW c \in Executor, Move(c)
        PROVE  NothingMovedWithoutARecord'
    BY <1>9 DEF Move, Goto, files, bounds, recovery, HeldBy, Free
  <1>10. ASSUME NEW c \in Executor, AppendMoved(c)
        PROVE  NothingMovedWithoutARecord'
    BY <1>10 DEF AppendMoved, AppendOrLeave, ExecutorFence, Goto, Fault, Follows, files, bounds, recovery, HeldBy, Free
  <1>11. ASSUME NEW c \in Executor, Verify(c)
        PROVE  NothingMovedWithoutARecord'
    BY <1>11 DEF Verify, Goto, SameBytes, files, bounds, recovery, HeldBy, Free
  <1>12. ASSUME NEW c \in Executor, AppendVerified(c)
        PROVE  NothingMovedWithoutARecord'
    BY <1>12 DEF AppendVerified, AppendOrLeave, ExecutorFence, Goto, Fault, Follows, files, bounds, recovery, HeldBy, Free
  <1>13. ASSUME NEW c \in Executor, AppendCompleted(c)
        PROVE  NothingMovedWithoutARecord'
    BY <1>13 DEF AppendCompleted, AppendOrLeave, ExecutorFence, Goto, Fault, Follows, files, bounds, recovery, HeldBy, Free
  <1>14. ASSUME NEW c \in Executor, AppendInvalid(c)
        PROVE  NothingMovedWithoutARecord'
    BY <1>14 DEF AppendInvalid, AppendOrLeave, ExecutorFence, Goto, Fault, Follows, files, bounds, recovery, HeldBy, Free
  <1>15. ASSUME NEW c \in Executor, AppendReview(c)
        PROVE  NothingMovedWithoutARecord'
    BY <1>15 DEF AppendReview, AppendOrLeave, ExecutorFence, Goto, Fault, Follows, files, bounds, recovery, HeldBy, Free
  <1>16. ASSUME NEW c \in Executor, ExecutorRelease(c)
        PROVE  NothingMovedWithoutARecord'
    BY <1>16 DEF ExecutorRelease, ReleaseLease, Goto, Fault, Abandoned, Free, files, bounds, recovery, HeldBy
  <1>17. ASSUME NEW c \in Executor, ExecutorCrash(c)
        PROVE  NothingMovedWithoutARecord'
    BY <1>17 DEF ExecutorCrash, Goto, Fault, Abandoned, Working, Free, files, bounds, recovery, HeldBy
  <1>18. ASSUME NEW q \in Recoverer, NEW c \in Executor, StartRecovery(q, c)
        PROVE  NothingMovedWithoutARecord'
    BY <1>18 DEF StartRecovery, Goto, files, bounds, recovery, HeldBy, Free
  <1>19. ASSUME NEW q \in Recoverer, AcquireRecoveryLease(q)
        PROVE  NothingMovedWithoutARecord'
    BY <1>19 DEF AcquireRecoveryLease, Goto, HeldBy, Free, files, bounds, recovery
  <1>20. ASSUME NEW q \in Recoverer, FreeTerminalLease(q)
        PROVE  NothingMovedWithoutARecord'
    BY <1>20 DEF FreeTerminalLease, Goto, HeldBy, Free, files, bounds, recovery
  <1>21. ASSUME NEW q \in Recoverer, Reread(q)
        PROVE  NothingMovedWithoutARecord'
    BY <1>21 DEF Reread, Goto, RecoveryFence, files, bounds, recovery, HeldBy, Free
  <1>22. ASSUME NEW q \in Recoverer, Inspect(q)
        PROVE  NothingMovedWithoutARecord'
    BY <1>22 DEF Inspect, Goto, Physical, files, bounds, recovery, HeldBy, Free
  <1>23. ASSUME NEW q \in Recoverer, InspectAgain(q)
        PROVE  NothingMovedWithoutARecord'
    BY <1>23 DEF InspectAgain, Goto, Physical, files, bounds, recovery, HeldBy, Free
  <1>24. ASSUME NEW q \in Recoverer, AppendRecovered(q)
        PROVE  NothingMovedWithoutARecord'
    BY <1>24 DEF AppendRecovered, Goto, Fault, RecoveryFence, Recovered, Follows, files, bounds, recovery, HeldBy, Free
  <1>25. ASSUME NEW q \in Recoverer, RecoveryRelease(q)
        PROVE  NothingMovedWithoutARecord'
    BY <1>25 DEF RecoveryRelease, ReleaseLease, Goto, Fault, Abandoned, Free, files, bounds, recovery, HeldBy
  <1>26. ASSUME NEW q \in Recoverer, RecoveryCrash(q)
        PROVE  NothingMovedWithoutARecord'
    BY <1>26 DEF RecoveryCrash, Goto, Fault, Abandoned, Working, Free, files, bounds, recovery, HeldBy
  <1>27. CASE Meddle
    BY <1>27 DEF Meddle, Entry, Content, files, bounds, recovery, HeldBy, Free
  <1> QED
    BY <1>1, <1>2, <1>3, <1>4, <1>5, <1>6, <1>7, <1>8, <1>9, <1>10, <1>11, <1>12, <1>13, <1>14, <1>15, <1>16, <1>17, <1>18, <1>19, <1>20, <1>21, <1>22, <1>23, <1>24, <1>25, <1>26, <1>27 DEF Next, ExecutorStepOf, RecoveryStepOf

(* A stuttering step changes nothing the invariants speak about.           *)
LEMMA StutterKeeps ==
    ASSUME HistoryInv, LeaseInv, UNCHANGED vars
    PROVE  HistoryInv' /\ LeaseInv'
  BY DEF vars, HistoryInv, LeaseInv, TypeOK, CallsKnowWhatTheyDid, TargetsWereMoved,
         OneRunPerAuthorization, RecoveriesHaveAJob, SuccessMeansQuarantined,
         CallsHoldTheirLease, RecoveredCallsAreOver, MovingCallsArePrepared,
         NothingMovedWithoutARecord, Free, Lease

(* Both halves together are inductive.                                     *)
THEOREM Inductive == Spec => [](HistoryInv /\ LeaseInv)
  <1>1. Init => HistoryInv /\ LeaseInv
    BY ConstantsAssumption
    DEF Init, HistoryInv, LeaseInv, TypeOK, CallsKnowWhatTheyDid, TargetsWereMoved,
        OneRunPerAuthorization, RecoveriesHaveAJob, SuccessMeansQuarantined,
        CallsHoldTheirLease, RecoveredCallsAreOver, MovingCallsArePrepared,
        NothingMovedWithoutARecord, Free, Lease, Begun, Holding, Process, Entry,
        Content, SameBytes, Incomplete, Terminal, ExecutorStep, RecoveryStep
  <1>2. HistoryInv /\ LeaseInv /\ [Next]_vars => HistoryInv' /\ LeaseInv'
    <2> SUFFICES ASSUME HistoryInv, LeaseInv, [Next]_vars
                 PROVE  HistoryInv' /\ LeaseInv'
      OBVIOUS
    <2>1. CASE Next
      <3>1. TypeOK'
        BY <2>1, TypesStay
      <3>2. HistoryInv'
        BY <2>1, <3>1, CallsStay, TargetsStay, RunsStay, JobsStay, SuccessStays
        DEF HistoryInv
      <3> QED
        BY <2>1, <3>2, LeasesStay, OverStays, PreparedStays, RecordStays DEF LeaseInv
    <2>2. CASE UNCHANGED vars
      BY <2>2, StutterKeeps
    <2> QED
      BY <2>1, <2>2
  <1> QED
    BY <1>1, <1>2, PTL DEF Spec

(* The types hold in every reachable state.                                *)
THEOREM TypeCorrect == Spec => []TypeOK
  <1>1. HistoryInv => TypeOK
    BY DEF HistoryInv
  <1> QED
    BY <1>1, Inductive, PTL

(* A run that claims VERIFIED or COMPLETED has moved its candidate, and    *)
(* the candidate's bytes are at its target.                                *)
THEOREM Success == Spec => []SuccessMeansQuarantined
  <1>1. HistoryInv => SuccessMeansQuarantined
    BY DEF HistoryInv
  <1> QED
    BY <1>1, Inductive, PTL

(* Two calls never both persist a run, or both move, under one              *)
(* authorization, even if they run on after their lease has expired.       *)
THEOREM UsedOnce == Spec => []AuthorizationIsUsedOnce
  <1>1. HistoryInv => AuthorizationIsUsedOnce
    BY DEF HistoryInv, CallsKnowWhatTheyDid, OneRunPerAuthorization,
           AuthorizationIsUsedOnce
  <1> QED
    BY <1>1, Inductive, PTL

(* A call that stays within its lease never moves a file under a run that  *)
(* is missing, cancelled or failed.                                        *)
THEOREM MovesAreRecorded == Spec => []NothingMovedWithoutARecord
  <1>1. LeaseInv => NothingMovedWithoutARecord
    BY DEF LeaseInv
  <1> QED
    BY <1>1, Inductive, PTL
=============================================================================
