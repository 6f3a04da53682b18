----------------------- MODULE IncrementalScan_proofs -----------------------
(***************************************************************************)
(* What the incremental index promises for any set of paths, any number of *)
(* scans, of changes of the tree and of faults, any batch size and any     *)
(* absence threshold.                                                      *)
(*                                                                         *)
(* The argument follows the lease.  The run that holds it is the only      *)
(* RUNNING one; what it has put into the open batch it has also observed,  *)
(* so the latest observation of such a path is its own; and a path it has  *)
(* finished the discovery with was observed by it, absent at some time of  *)
(* the scan, or left out by its suffix filter.  Scans hold the root one    *)
(* after the other, in the order of their numbers, so what the owner writes *)
(* is later than all on record.                                            *)
(***************************************************************************)
EXTENDS IncrementalScan, SequenceTheorems, FiniteSetTheorems, TLAPS

Presences == {"NONE", "PRESENT", "MISSING", "DELETED"}
Events == {"NONE", "NEW", "UNCHANGED", "MODIFIED", "REAPPEARED", "MISSING", "DELETED"}
Entry == [content : Nat \ {0}, here : BOOLEAN]
Record == [presence : Presences, content : Nat, missing : Nat]
Run == [status : {"NOT_STARTED", "RUNNING", "COMPLETED", "INTERRUPTED"},
        events : [Files -> Events]]
Observation == [run : Scans, content : Nat \ {0}, print : Nat]

(* TypeOK without its bounds, which say nothing of the code.               *)
Typing ==
    /\ disk \in [Files -> Entry]
    /\ records \in [Files -> Record]
    /\ observations \in [Files -> Seq(Observation)]
    /\ runs \in [Scans -> Run]
    /\ lease \in [owner : Scans \cup {NoScan}, expired : BOOLEAN]
    /\ pc \in [Scans -> {"idle", "discover", "hash", "save", "finish", "ended"}]
    /\ unlisted \in [Scans -> SUBSET Files]
    /\ batch \in [Scans -> [Files -> Nat]]
    /\ hashed \in [Scans -> [Files -> Nat]]
    /\ absent \in SUBSET Files
    /\ skipped \in SUBSET Files

(* A path that is in a batch was observed by the scan whose batch it is;   *)
(* a fingerprint not yet saved belongs to such a path.                     *)
BatchIsObserved ==
    \A r \in Scans, f \in Files :
        lease.owner = r /\ pc[r] \in {"hash", "save"} /\ batch[r][f] > 0
            => observations[f] # <<>> /\ Last(f).run = r

HashedIsInBatch ==
    \A r \in Scans, f \in Files :
        hashed[r][f] > 0 => pc[r] = "save" /\ batch[r][f] > 0

-----------------------------------------------------------------------------
(* The owner 0 of a free lease is no scan; scans are numbered from 1.      *)
LEMMA RunsAreScans == NoScan \notin Scans /\ \A r \in Scans : r \in Nat \ {0}
  BY ScanAssumption DEF Scans, NoScan

(* The first scan finds an empty index of a typed tree.                    *)
LEMMA InitTyping == Init => Typing
  <1> SUFFICES ASSUME Init PROVE Typing
    OBVIOUS
  <1>1. \A f \in Files : <<>> \in Seq(Observation)
    OBVIOUS
  <1> QED
    BY <1>1
       DEF Init, Typing, Entry, Record, Run, NoRecord, Presences, Events,
           NoEvents, Free, Nothing

(* How a step changes a record of each type.                               *)
LEMMA EntryTyping ==
    ASSUME NEW d \in Entry, NEW b \in BOOLEAN
    PROVE  /\ [d EXCEPT !.here = b] \in Entry
           /\ [content |-> d.content + 1, here |-> b] \in Entry
           /\ d.content \in Nat \ {0}
  BY DEF Entry

(* Advancing the absence series leaves a record a record.                  *)
LEMMA RecordTyping ==
    ASSUME NEW d \in Record, NEW p \in Presences
    PROVE  [d EXCEPT !.presence = p, !.missing = d.missing + 1] \in Record
  <1>1. d.missing + 1 \in Nat
    BY DEF Record
  <1>2. \A n \in Nat : [d EXCEPT !.presence = p, !.missing = n] \in Record
    BY DEF Record
  <1> QED
    BY <1>1, <1>2

(* A run with another status is a run.                                     *)
LEMMA RunTyping ==
    ASSUME NEW d \in Run
    PROVE  /\ \A e \in [Files -> Events] : [d EXCEPT !.events = e] \in Run
           /\ \A st \in {"RUNNING", "COMPLETED", "INTERRUPTED"} :
                [d EXCEPT !.status = st] \in Run
           /\ d.events \in [Files -> Events]
  BY DEF Run

(* Saving a fingerprint leaves an observation an observation.              *)
LEMMA ObservationTyping ==
    ASSUME NEW d \in Observation, NEW n \in Nat
    PROVE  [d EXCEPT !.print = n] \in Observation
  BY DEF Observation

(* finish_scan and the recovery of a stale run: run and lease stay typed.  *)
LEMMA TerminateTyping ==
    ASSUME Typing, NEW r \in Scans, NEW status \in {"COMPLETED", "INTERRUPTED"},
           Terminate(r, status)
    PROVE  /\ runs' \in [Scans -> Run]
           /\ lease' \in [owner : Scans \cup {NoScan}, expired : BOOLEAN]
  <1>1. [runs[r] EXCEPT !.status = status] \in Run
    BY RunTyping DEF Typing
  <1>2. runs' = [runs EXCEPT ![r] = [runs[r] EXCEPT !.status = status]]
    BY DEF Terminate
  <1> QED
    BY <1>1, <1>2 DEF Terminate, Free, Typing

(* A process that ends leaves its memory typed.                            *)
LEMMA EndTyping ==
    ASSUME Typing, NEW r \in Scans, End(r)
    PROVE  /\ pc' \in [Scans -> {"idle", "discover", "hash", "save", "finish", "ended"}]
           /\ unlisted' \in [Scans -> SUBSET Files]
           /\ batch' \in [Scans -> [Files -> Nat]]
           /\ hashed' \in [Scans -> [Files -> Nat]]
  BY DEF End, Nothing, Typing

(* Every step of a scan, of the clock and of the tree keeps the types.     *)
LEMMA NextTyping == Typing /\ [Next]_vars => Typing'
  <1> SUFFICES ASSUME Typing, [Next]_vars PROVE Typing'
    OBVIOUS
  <1> USE DEF Typing, latest
  <1>1. ASSUME NEW f \in Files, WriteFile(f) \/ RemoveFile(f) \/ RestoreFile(f)
        PROVE  Typing'
    <2>1. PICK entry \in Entry : Change(f, entry)
      BY <1>1, EntryTyping DEF WriteFile, RemoveFile, RestoreFile
    <2> QED
      BY <2>1 DEF Change, index, local
  <1>2. ASSUME NEW r \in Scans, Start(r)
        PROVE  Typing'
    <2>1. runs' = [runs EXCEPT ![r] = [runs[r] EXCEPT !.status = "RUNNING"]]
      BY <1>2 DEF Start
    <2>2. runs' \in [Scans -> Run]
      BY <2>1, RunTyping
    <2>3. PICK wanted \in Filters : /\ unlisted' = [unlisted EXCEPT ![r] = wanted]
                                   /\ skipped' = Files \ wanted
      BY <1>2 DEF Start
    <2>4. wanted \in SUBSET Files
      BY ScanAssumption
    <2> QED
      BY <1>2, <2>2, <2>3, <2>4 DEF Start, tree, index
  <1>3. ASSUME NEW r \in Scans, NEW f \in Files, Discover(r, f)
        PROVE  Typing'
    <2>1. disk[f].content \in Nat
      BY EntryTyping
    <2> QED
      BY <1>3, <2>1 DEF Discover, tree, index
  <1>4. ASSUME NEW r \in Scans, Reconcile(r)
        PROVE  Typing'
    <2>1. \A f \in InBatch(r) : f \in Files /\ batch[r][f] \in Nat \ {0}
      BY DEF InBatch
    <2>2. \A f \in InBatch(r) :
            [run |-> r, content |-> batch[r][f], print |-> 0] \in Observation
      BY <2>1 DEF Observation
    <2>3. observations' \in [Files -> Seq(Observation)]
      BY <1>4, <2>1, <2>2, AppendProperties DEF Reconcile
    <2>4. \A f \in InBatch(r) : Reconciled(records[f], batch[r][f]) \in Record
      BY <2>1 DEF Reconciled, Presences, Record
    <2>5. records' \in [Files -> Record]
      BY <1>4, <2>1, <2>4 DEF Reconcile
    <2> DEFINE e == [f \in Files |->
                       IF f \in InBatch(r) THEN ChangeState(records[f], batch[r][f])
                       ELSE runs[r].events[f]]
    <2>6. \A f \in Files : ChangeState(records[f], batch[r][f]) \in Events
      BY DEF ChangeState, Events
    <2>7. e \in [Files -> Events]
      BY <2>6, RunTyping
    <2>8. runs' = [runs EXCEPT ![r] = [runs[r] EXCEPT !.events = e]]
      BY <1>4 DEF Reconcile
    <2> HIDE DEF e
    <2>9. runs' \in [Scans -> Run]
      BY <2>7, <2>8, RunTyping
    <2> QED
      BY <1>4, <2>3, <2>5, <2>9 DEF Reconcile, tree, local
  <1>5. ASSUME NEW r \in Scans, Hash(r)
        PROVE  Typing'
    <2>1. \A f \in Files : Reusable(f) \in Nat
      <3> SUFFICES ASSUME NEW f \in Files, Len(observations[f]) >= 2
                   PROVE  observations[f][Len(observations[f]) - 1].print \in Nat
        BY LenProperties DEF Reusable
      <3>1. observations[f][Len(observations[f]) - 1] \in Observation
        BY ElementOfSeq, LenProperties
      <3> QED
        BY <3>1 DEF Observation
    <2>2. \A f \in Files : disk[f].content \in Nat
      BY EntryTyping
    <2>3. hashed' \in [Scans -> [Files -> Nat]]
      BY <1>5, <2>1, <2>2 DEF Hash
    <2> QED
      BY <1>5, <2>3 DEF Hash, tree, index
  <1>6. ASSUME NEW r \in Scans, Save(r)
        PROVE  Typing'
    <2>1. ASSUME NEW f \in Files
          PROVE  [observations[f] EXCEPT ![Len(observations[f])].print = hashed[r][f]]
                   \in Seq(Observation)
      <3> DEFINE s == observations[f]  n == Len(s)
      <3>0. /\ s \in Seq(Observation) /\ n \in Nat /\ s \in [1..n -> Observation]
            /\ hashed[r][f] \in Nat
        BY LenProperties
      <3>1. CASE n = 0
        <4>1. [s EXCEPT ![n].print = hashed[r][f]] = s
          BY <3>0, <3>1
        <4> QED
          BY <3>0, <4>1
      <3>2. CASE n > 0
        <4>1. s[n] \in Observation
          BY <3>0, <3>2
        <4>2. [s[n] EXCEPT !.print = hashed[r][f]] \in Observation
          BY <3>0, <4>1, ObservationTyping
        <4>3. [s EXCEPT ![n] = [s[n] EXCEPT !.print = hashed[r][f]]] \in Seq(Observation)
          BY <3>0, <3>2, <4>2, ExceptSeq
        <4> QED
          BY <4>3
      <3> QED
        BY <3>0, <3>1, <3>2
    <2>2. observations' \in [Files -> Seq(Observation)]
      BY <1>6, <2>1 DEF Save
    <2> QED
      BY <1>6, <2>2 DEF Save, Nothing, tree
  <1>7. ASSUME NEW r \in Scans, MarkMissing(r)
        PROVE  Typing'
    <2>1. PICK old \in SUBSET Unseen(r) :
            /\ records' = [f \in Files |->
                 IF f \in Unseen(r)
                 THEN [records[f] EXCEPT
                         !.presence = IF Confirmed(f, old) THEN "DELETED" ELSE "MISSING",
                         !.missing = @ + 1]
                 ELSE records[f]]
            /\ runs' = [runs EXCEPT ![r].events = [f \in Files |->
                 IF f \in Unseen(r)
                 THEN IF Confirmed(f, old) THEN "DELETED" ELSE "MISSING"
                 ELSE @[f]]]
      BY <1>7 DEF MarkMissing
    <2> DEFINE p(f) == IF Confirmed(f, old) THEN "DELETED" ELSE "MISSING"
               e == [f \in Files |-> IF f \in Unseen(r) THEN p(f) ELSE runs[r].events[f]]
    <2>2. \A f : p(f) \in Presences \cap Events
      BY DEF Presences, Events
    <2>3. /\ records' = [f \in Files |->
               IF f \in Unseen(r)
               THEN [records[f] EXCEPT !.presence = p(f),
                                       !.missing = records[f].missing + 1]
               ELSE records[f]]
          /\ runs' = [runs EXCEPT ![r] = [runs[r] EXCEPT !.events = e]]
      BY <2>1
    <2> HIDE DEF p
    <2>4. records' \in [Files -> Record]
      <3>1. ASSUME NEW f \in Files
            PROVE  [records[f] EXCEPT !.presence = p(f),
                                      !.missing = records[f].missing + 1] \in Record
        <4>1. records[f] \in Record /\ p(f) \in Presences
          BY <2>2
        <4> QED
          BY <4>1, RecordTyping
      <3> QED
        BY <2>3, <3>1
    <2>5. e \in [Files -> Events]
      BY <2>2, RunTyping
    <2> HIDE DEF e
    <2>6. runs' \in [Scans -> Run]
      BY <2>3, <2>5, RunTyping
    <2> QED
      BY <1>7, <2>4, <2>6 DEF MarkMissing, tree, local
  <1>8. ASSUME NEW r \in Scans, Finish(r) \/ Abort(r)
        PROVE  Typing'
    <2>1. PICK status \in {"COMPLETED", "INTERRUPTED"} :
            Terminate(r, status) /\ End(r) /\ UNCHANGED <<tree, index, latest>>
      BY <1>8 DEF Finish, Abort
    <2> QED
      BY <2>1, TerminateTyping, EndTyping DEF tree, index
  <1>9. ASSUME NEW r \in Scans, FencedOut(r) \/ Crash(r)
        PROVE  Typing'
    <2>1. End(r) /\ UNCHANGED <<tree, index, runs, lease, latest>>
      BY <1>9 DEF FencedOut, Crash
    <2> QED
      BY <2>1, EndTyping DEF tree, index
  <1>10. ASSUME NEW r \in Scans, Expire(r)
         PROVE  Typing'
    BY <1>10 DEF Expire, tree, index, local
  <1>11. ASSUME NEW r \in Scans, RecoverStale(r)
         PROVE  Typing'
    <2>1. Terminate(r, "INTERRUPTED") /\ UNCHANGED <<tree, index, pc, local, latest>>
      BY <1>11 DEF RecoverStale
    <2> QED
      BY <2>1, TerminateTyping DEF tree, index, local
  <1>12. CASE UNCHANGED vars
    BY <1>12 DEF vars, tree, index, local, latest
  <1> QED
    BY <1>1, <1>2, <1>3, <1>4, <1>5, <1>6, <1>7, <1>8, <1>9, <1>10, <1>11,
       <1>12
       DEF Next

(* Hence the types hold in every state.                                    *)
LEMMA TypingInvariant == Spec => []Typing
  <1> QED
    BY InitTyping, NextTyping, PTL DEF Spec
-----------------------------------------------------------------------------
(* RunningScanHoldsLease: start_scan, finish_scan and the recovery of a     *)
(* stale run change run and lease in one transaction each (store.py); for   *)
(* every number of scans, crash and lost lease, at most one run is RUNNING  *)
(* and it is the one the lease names.                                       *)
THEOREM OneScanHoldsTheRoot == Spec => []RunningScanHoldsLease
  <1>1. Init => RunningScanHoldsLease
    BY RunsAreScans DEF Init, RunningScanHoldsLease, Free
  <1>2. Typing /\ RunningScanHoldsLease /\ [Next]_vars => RunningScanHoldsLease'
    <2> SUFFICES ASSUME Typing, RunningScanHoldsLease, [Next]_vars
                 PROVE  RunningScanHoldsLease'
      OBVIOUS
    <2> USE DEF RunningScanHoldsLease
    <2>0. \A r \in Scans, st \in {"RUNNING", "COMPLETED", "INTERRUPTED"} :
            [runs[r] EXCEPT !.status = st].status = st
      BY DEF Typing, Run
    <2>1. ASSUME NEW r \in Scans, Start(r)
          PROVE  RunningScanHoldsLease'
      <3>1. runs' = [runs EXCEPT ![r] = [runs[r] EXCEPT !.status = "RUNNING"]]
        BY <2>1 DEF Start
      <3> QED
        BY <2>0, <2>1, <3>1, RunsAreScans DEF Start, Acquirable, Typing
    <2>2. ASSUME NEW r \in Scans, NEW status \in {"COMPLETED", "INTERRUPTED"},
                 Terminate(r, status), lease.owner = r
          PROVE  RunningScanHoldsLease'
      <3>1. runs' = [runs EXCEPT ![r] = [runs[r] EXCEPT !.status = status]]
        BY <2>2 DEF Terminate
      <3> QED
        BY <2>0, <2>2, <3>1, RunsAreScans DEF Terminate, Free, Typing
    <2>3. ASSUME NEW r \in Scans, Finish(r) \/ Abort(r) \/ RecoverStale(r)
          PROVE  RunningScanHoldsLease'
      BY <2>2, <2>3 DEF Finish, Abort, RecoverStale, Owns, Recoverable
    <2>4. ASSUME NEW r \in Scans, Reconcile(r) \/ MarkMissing(r)
          PROVE  RunningScanHoldsLease'
      <3>1. lease' = lease /\ \E e : runs' = [runs EXCEPT ![r].events = e]
        BY <2>4 DEF Reconcile, MarkMissing
      <3>2. \A q \in Scans : runs'[q].status = runs[q].status
        BY <3>1 DEF Typing, Run
      <3> QED
        BY <3>1, <3>2
    <2>5. ASSUME NEW r \in Scans, Expire(r)
          PROVE  RunningScanHoldsLease'
      BY <2>5 DEF Expire, Typing
    <2>6. CASE UNCHANGED <<runs, lease>>
      BY <2>6
    <2>7. ASSUME NEW r \in Scans,
                 \/ \E f \in Files : Discover(r, f)
                 \/ Hash(r) \/ Save(r) \/ FencedOut(r) \/ Crash(r)
          PROVE  UNCHANGED <<runs, lease>>
      BY <2>7 DEF Discover, Hash, Save, FencedOut, Crash
    <2>8. ASSUME NEW f \in Files, WriteFile(f) \/ RemoveFile(f) \/ RestoreFile(f)
          PROVE  UNCHANGED <<runs, lease>>
      BY <2>8 DEF WriteFile, RemoveFile, RestoreFile, Change
    <2> QED
      BY <2>1, <2>3, <2>4, <2>5, <2>6, <2>7, <2>8 DEF Next, vars
  <1> QED
    BY <1>1, <1>2, TypingInvariant, PTL DEF Spec

(* The invariants about the open batch: an observation of r is the latest   *)
(* of its path as long as r owns the root, because nobody else can append   *)
(* one (every write of a scan is fenced).                                   *)
LEMMA BatchInvariant == Spec => [](BatchIsObserved /\ HashedIsInBatch)
  <1>1. Init => BatchIsObserved /\ HashedIsInBatch
    BY DEF Init, BatchIsObserved, HashedIsInBatch, Nothing
  <1>2. Typing /\ BatchIsObserved /\ HashedIsInBatch /\ [Next]_vars
          => BatchIsObserved' /\ HashedIsInBatch'
    <2> SUFFICES ASSUME Typing, BatchIsObserved, HashedIsInBatch, [Next]_vars
                 PROVE  BatchIsObserved' /\ HashedIsInBatch'
      OBVIOUS
    <2> USE DEF BatchIsObserved, HashedIsInBatch
    <2>1. ASSUME NEW r \in Scans, Start(r)
          PROVE  BatchIsObserved' /\ HashedIsInBatch'
      BY <2>1 DEF Start, index, Last, Typing
    <2>2. ASSUME NEW r \in Scans, NEW f \in Files, Discover(r, f)
          PROVE  BatchIsObserved' /\ HashedIsInBatch'
      BY <2>2 DEF Discover, index, Last, Typing
    <2>3. ASSUME NEW r \in Scans, Reconcile(r)
          PROVE  BatchIsObserved' /\ HashedIsInBatch'
      <3>1. ASSUME NEW f \in Files, batch[r][f] > 0
            PROVE  observations'[f] # <<>> /\ Last(f)'.run = r
        <4> DEFINE o == [run |-> r, content |-> batch[r][f], print |-> 0]
        <4>0. batch[r][f] \in Nat /\ observations[f] \in Seq(Observation)
          BY DEF Typing
        <4>1. o \in Observation
          BY <3>1, <4>0 DEF Observation
        <4>2. observations'[f] = Append(observations[f], o)
          BY <2>3, <3>1 DEF Reconcile, InBatch
        <4> HIDE DEF o
        <4>3. /\ observations'[f] # <<>>
              /\ observations'[f][Len(observations'[f])] = o
          BY <4>0, <4>1, <4>2, AppendProperties
        <4> QED
          BY <4>3 DEF o, Last
      <3>2. lease' = lease /\ lease.owner = r /\ batch' = batch /\ hashed' = hashed
        BY <2>3 DEF Reconcile, Owns, local
      <3>3. pc' = [pc EXCEPT ![r] = "hash"] /\ pc[r] = "discover"
        BY <2>3 DEF Reconcile
      <3> QED
        BY <3>1, <3>2, <3>3 DEF Typing
    <2>4. ASSUME NEW r \in Scans, Hash(r)
          PROVE  BatchIsObserved' /\ HashedIsInBatch'
      BY <2>4 DEF Hash, index, Last, InBatch, Typing
    <2>5. ASSUME NEW r \in Scans, Save(r)
          PROVE  BatchIsObserved' /\ HashedIsInBatch'
      BY <2>5 DEF Save, Owns, Nothing, Last, Typing
    <2>6. ASSUME NEW r \in Scans, MarkMissing(r)
          PROVE  BatchIsObserved' /\ HashedIsInBatch'
      <3>1. /\ UNCHANGED <<observations, lease, batch, hashed>>
            /\ pc' = [pc EXCEPT ![r] = "finish"] /\ pc[r] = "discover"
        BY <2>6 DEF MarkMissing, local
      <3> QED
        BY <3>1 DEF Last, Typing
    <2>7. ASSUME NEW r \in Scans, End(r), UNCHANGED observations, lease' \in {lease, Free}
          PROVE  BatchIsObserved' /\ HashedIsInBatch'
      BY <2>7, RunsAreScans DEF End, Nothing, Free, Last, Typing
    <2>8. ASSUME NEW r \in Scans, Finish(r) \/ Abort(r) \/ FencedOut(r) \/ Crash(r)
          PROVE  BatchIsObserved' /\ HashedIsInBatch'
      BY <2>7, <2>8 DEF Finish, Abort, FencedOut, Crash, Terminate, index
    <2>9. ASSUME NEW r \in Scans, Expire(r) \/ RecoverStale(r)
          PROVE  BatchIsObserved' /\ HashedIsInBatch'
      <3>1. /\ UNCHANGED <<observations, pc, batch, hashed>>
            /\ lease' = Free \/ lease'.owner = lease.owner
        BY <2>9 DEF Expire, RecoverStale, Terminate, index, local, Typing
      <3> QED
        BY <3>1, RunsAreScans DEF Free, Last, Typing
    <2>10. ASSUME NEW f \in Files, WriteFile(f) \/ RemoveFile(f) \/ RestoreFile(f)
           PROVE  BatchIsObserved' /\ HashedIsInBatch'
      BY <2>10
         DEF WriteFile, RemoveFile, RestoreFile, Change, index, local, Last
    <2>11. CASE UNCHANGED vars
      BY <2>11 DEF vars, index, local, Last
    <2> QED
      BY <2>1, <2>2, <2>3, <2>4, <2>5, <2>6, <2>8, <2>9, <2>10, <2>11 DEF Next
  <1> QED
    BY <1>1, <1>2, TypingInvariant, PTL DEF Spec

(* Only a run that has not started can be started.                          *)
IdleHasNotStarted ==
    \A r \in Scans : pc[r] = "idle" => runs[r].status = "NOT_STARTED"

(* No process, so no run: start_scan creates both.                         *)
LEMMA IdleInvariant == Spec => []IdleHasNotStarted
  <1>1. Init => IdleHasNotStarted
    BY DEF Init, IdleHasNotStarted
  <1>2. Typing /\ IdleHasNotStarted /\ [Next]_vars => IdleHasNotStarted'
    <2> SUFFICES ASSUME Typing, IdleHasNotStarted, [Next]_vars
                 PROVE  IdleHasNotStarted'
      OBVIOUS
    <2> USE DEF IdleHasNotStarted
    <2>1. ASSUME NEW r \in Scans, Start(r)
          PROVE  IdleHasNotStarted'
      BY <2>1 DEF Start, Typing
    <2>2. ASSUME NEW r \in Scans, Reconcile(r) \/ MarkMissing(r)
          PROVE  IdleHasNotStarted'
      <3>1. /\ \E e : runs' = [runs EXCEPT ![r].events = e]
            /\ pc[r] # "idle" /\ \E x \in {"hash", "finish"} : pc' = [pc EXCEPT ![r] = x]
        BY <2>2 DEF Reconcile, MarkMissing
      <3> QED
        BY <3>1 DEF Typing
    <2>3. ASSUME NEW r \in Scans, Finish(r) \/ Abort(r)
          PROVE  IdleHasNotStarted'
      BY <2>3 DEF Finish, Abort, Terminate, End, Typing
    <2>4. ASSUME NEW r \in Scans, RecoverStale(r)
          PROVE  IdleHasNotStarted'
      BY <2>4 DEF RecoverStale, Recoverable, Terminate, local, Typing
    <2>5. ASSUME NEW r \in Scans, \/ \E f \in Files : Discover(r, f)
                                  \/ Hash(r) \/ Save(r) \/ Expire(r)
          PROVE  IdleHasNotStarted'
      BY <2>5 DEF Discover, Hash, Save, Expire, Typing
    <2>6. ASSUME NEW r \in Scans, FencedOut(r) \/ Crash(r)
          PROVE  IdleHasNotStarted'
      BY <2>6 DEF FencedOut, Crash, End, Typing
    <2>7. ASSUME NEW f \in Files, WriteFile(f) \/ RemoveFile(f) \/ RestoreFile(f)
          PROVE  IdleHasNotStarted'
      BY <2>7 DEF WriteFile, RemoveFile, RestoreFile, Change
    <2>8. CASE UNCHANGED vars
      BY <2>8 DEF vars
    <2> QED
      BY <2>1, <2>2, <2>3, <2>4, <2>5, <2>6, <2>7, <2>8 DEF Next
  <1> QED
    BY <1>1, <1>2, TypingInvariant, PTL DEF Spec

(* What a step may not do to a run that is over.                            *)
Closed(r) ==
    runs[r].status \in {"COMPLETED", "INTERRUPTED"} =>
      /\ runs'[r] = runs[r]
      /\ \A f \in Files :
           observations'[f] # observations[f] =>
             observations'[f][Len(observations'[f])].run # r

(* TerminalRunIsClosed (ADR-0025): after finish_scan, a failure's clean-up  *)
(* or recover_latest_stale_run has given a run its terminal status, no      *)
(* process adds an event or an observation to it, whatever it still holds   *)
(* in memory.                                                               *)
THEOREM TerminalRunsAreClosed == Spec => TerminalRunIsClosed
  <1>1. Typing /\ BatchIsObserved /\ HashedIsInBatch /\ IdleHasNotStarted /\ [Next]_vars
          => [\A r \in Scans : Closed(r)]_vars
    <2> SUFFICES ASSUME Typing, BatchIsObserved, HashedIsInBatch, IdleHasNotStarted,
                        Next, NEW r \in Scans,
                        runs[r].status \in {"COMPLETED", "INTERRUPTED"}
                 PROVE  /\ runs'[r] = runs[r]
                        /\ \A f \in Files :
                             observations'[f] # observations[f] =>
                               observations'[f][Len(observations'[f])].run # r
      BY DEF Closed
    <2>1. ASSUME NEW q \in Scans, Start(q)
          PROVE  runs'[r] = runs[r] /\ observations' = observations
      BY <2>1 DEF Start, IdleHasNotStarted, index, Typing
    <2>2. ASSUME NEW q \in Scans, Reconcile(q)
          PROVE  /\ runs'[r] = runs[r]
                 /\ \A f \in Files :
                      observations'[f] # observations[f] =>
                        observations'[f][Len(observations'[f])].run # r
      <3>1. q # r /\ \E e : runs' = [runs EXCEPT ![q].events = e]
        BY <2>2 DEF Reconcile, Owns
      <3>2. ASSUME NEW f \in Files, observations'[f] # observations[f]
            PROVE  observations'[f][Len(observations'[f])].run = q
        <4> DEFINE o == [run |-> q, content |-> batch[q][f], print |-> 0]
        <4>1. f \in InBatch(q) /\ observations'[f] = Append(observations[f], o)
          BY <2>2, <3>2 DEF Reconcile
        <4>2. batch[q][f] \in Nat \ {0} /\ observations[f] \in Seq(Observation)
          BY <4>1 DEF InBatch, Typing
        <4>3. o \in Observation
          BY <4>2 DEF Observation
        <4> HIDE DEF o
        <4>4. observations'[f][Len(observations'[f])] = o
          BY <4>1, <4>2, <4>3, AppendProperties
        <4> QED
          BY <4>4 DEF o
      <3> QED
        BY <3>1, <3>2 DEF Typing
    <2>3. ASSUME NEW q \in Scans, Save(q)
          PROVE  /\ runs'[r] = runs[r]
                 /\ \A f \in Files :
                      observations'[f] # observations[f] =>
                        observations'[f][Len(observations'[f])].run # r
      <3>1. ASSUME NEW f \in Files, observations'[f] # observations[f]
            PROVE  observations'[f][Len(observations'[f])].run # r
        <4>1. /\ hashed[q][f] > 0
              /\ observations'[f] =
                   [observations[f] EXCEPT ![Len(observations[f])].print = hashed[q][f]]
          BY <2>3, <3>1 DEF Save
        <4>2. lease.owner = q /\ runs[q].status = "RUNNING"
          BY <2>3, <4>1 DEF Save, Owns, Nothing
        <4>3. observations[f] # <<>> /\ Last(f).run = q
          BY <4>1, <4>2 DEF HashedIsInBatch, BatchIsObserved
        <4>4. observations[f] \in Seq(Observation) /\ Len(observations[f]) \in Nat \ {0}
          BY <4>3, EmptySeq DEF Typing
        <4>5. Last(f) \in Observation
          BY <4>4, ElementOfSeq DEF Last
        <4>6. /\ Len(observations'[f]) = Len(observations[f])
              /\ observations'[f][Len(observations[f])] =
                   [Last(f) EXCEPT !.print = hashed[q][f]]
          BY <4>1, <4>4, LenProperties DEF Last
        <4>7. [Last(f) EXCEPT !.print = hashed[q][f]].run = Last(f).run
          BY <4>5 DEF Observation
        <4> QED
          BY <4>2, <4>3, <4>6, <4>7
      <3> QED
        BY <2>3, <3>1 DEF Save
    <2>4. ASSUME NEW q \in Scans, MarkMissing(q)
          PROVE  runs'[r] = runs[r] /\ observations' = observations
      <3>1. /\ q # r /\ observations' = observations
            /\ \E e : runs' = [runs EXCEPT ![q].events = e]
        BY <2>4 DEF MarkMissing, Owns
      <3> QED
        BY <3>1 DEF Typing
    <2>5. ASSUME NEW q \in Scans, Finish(q) \/ Abort(q) \/ RecoverStale(q)
          PROVE  runs'[r] = runs[r] /\ observations' = observations
      <3>1. /\ q # r /\ observations' = observations
            /\ \E st : runs' = [runs EXCEPT ![q].status = st]
        BY <2>5
           DEF Finish, Abort, RecoverStale, Terminate, Owns, Recoverable, index
      <3> QED
        BY <3>1 DEF Typing
    <2>6. ASSUME NEW q \in Scans,
                 \/ \E f \in Files : Discover(q, f)
                 \/ Hash(q) \/ FencedOut(q) \/ Crash(q) \/ Expire(q)
          PROVE  runs'[r] = runs[r] /\ observations' = observations
      BY <2>6 DEF Discover, Hash, FencedOut, Crash, Expire, index
    <2>7. ASSUME NEW f \in Files, WriteFile(f) \/ RemoveFile(f) \/ RestoreFile(f)
          PROVE  runs'[r] = runs[r] /\ observations' = observations
      BY <2>7 DEF WriteFile, RemoveFile, RestoreFile, Change, index
    <2> QED
      BY <2>1, <2>2, <2>3, <2>4, <2>5, <2>6, <2>7 DEF Next
  <1>2. (Spec => [][\A r \in Scans : Closed(r)]_vars) => (Spec => TerminalRunIsClosed)
    BY DEF TerminalRunIsClosed, Closed
  <1> QED
    BY <1>1, <1>2, TypingInvariant, BatchInvariant, IdleInvariant, PTL DEF Spec

-----------------------------------------------------------------------------
(* What the steps do to the observations: Reconcile appends one to each     *)
(* path of the batch, Save changes the fingerprint of the last one.         *)
LEMMA AppendedObservation ==
    ASSUME Typing, NEW r \in Scans, Reconcile(r), NEW f \in Files
    PROVE  /\ f \notin InBatch(r) => observations'[f] = observations[f]
           /\ f \in InBatch(r) =>
                /\ Len(observations'[f]) = Len(observations[f]) + 1
                /\ \A i \in 1..Len(observations[f]) :
                     observations'[f][i] = observations[f][i]
                /\ Last(f)'.run = r
                /\ Last(f)'.content = batch[r][f]
                /\ Last(f)'.print = 0
  <1> SUFFICES ASSUME f \in InBatch(r)
               PROVE  /\ Len(observations'[f]) = Len(observations[f]) + 1
                      /\ \A i \in 1..Len(observations[f]) :
                           observations'[f][i] = observations[f][i]
                      /\ Last(f)'.run = r
                      /\ Last(f)'.content = batch[r][f]
                      /\ Last(f)'.print = 0
    BY DEF Reconcile
  <1> DEFINE o == [run |-> r, content |-> batch[r][f], print |-> 0]
  <1>1. batch[r][f] \in Nat \ {0} /\ observations[f] \in Seq(Observation)
    BY DEF InBatch, Typing
  <1>2. o \in Observation
    BY <1>1 DEF Observation
  <1>3. observations'[f] = Append(observations[f], o)
    BY DEF Reconcile
  <1>4. o.run = r /\ o.content = batch[r][f] /\ o.print = 0
    OBVIOUS
  <1> HIDE DEF o
  <1> QED
    BY <1>1, <1>2, <1>3, <1>4, AppendProperties DEF Last

(* Save, path by path: the sequence keeps its length and all but the last  *)
(* fingerprint.                                                            *)
LEMMA SavedObservation ==
    ASSUME Typing, NEW r \in Scans, Save(r), NEW f \in Files
    PROVE  /\ Len(observations'[f]) = Len(observations[f])
           /\ hashed[r][f] = 0 => observations'[f] = observations[f]
           /\ \A i \in 1..Len(observations[f]) :
                /\ observations'[f][i].run = observations[f][i].run
                /\ observations'[f][i].content = observations[f][i].content
                /\ observations'[f][i].print =
                     IF hashed[r][f] > 0 /\ i = Len(observations[f])
                     THEN hashed[r][f] ELSE observations[f][i].print
  <1> DEFINE s == observations[f]  n == Len(s)
  <1>1. /\ s \in Seq(Observation) /\ n \in Nat /\ DOMAIN s = 1..n
        /\ \A i \in 1..n : s[i] \in Observation
        /\ hashed[r][f] \in Nat
    BY LenProperties, ElementOfSeq DEF Typing
  <1>2. CASE hashed[r][f] = 0
    <2>1. observations'[f] = s
      BY <1>2 DEF Save
    <2> QED
      BY <1>1, <1>2, <2>1
  <1>3. CASE hashed[r][f] > 0
    <2>1. observations'[f] = [s EXCEPT ![n] = [s[n] EXCEPT !.print = hashed[r][f]]]
      BY <1>3 DEF Save
    <2>2. CASE n = 0
      <3>1. observations'[f] = s
        BY <1>1, <2>1, <2>2
      <3> QED
        BY <1>1, <1>3, <2>2, <3>1
    <2>3. CASE n > 0
      <3> DEFINE d == [s[n] EXCEPT !.print = hashed[r][f]]
      <3>1. d \in Observation
        BY <1>1, <2>3, ObservationTyping
      <3>2. d.run = s[n].run /\ d.content = s[n].content /\ d.print = hashed[r][f]
        BY <1>1, <2>3 DEF Observation
      <3> HIDE DEF d
      <3>3. /\ Len(observations'[f]) = n
            /\ \A i \in 1..n : observations'[f][i] = IF i = n THEN d ELSE s[i]
        BY <1>1, <2>1, <2>3, <3>1, ExceptSeq DEF d
      <3> QED
        BY <1>1, <1>3, <3>2, <3>3
    <2> QED
      BY <1>1, <2>2, <2>3
  <1> QED
    BY <1>1, <1>2, <1>3

(* No other step touches them.                                              *)
LEMMA ObservationsElsewhere ==
    ASSUME [Next]_vars, \A r \in Scans : ~Reconcile(r) /\ ~Save(r)
    PROVE  observations' = observations
  BY DEF Next, vars, index, WriteFile, RemoveFile, RestoreFile, Change, Start,
     Discover, Hash, MarkMissing, Finish, Abort, FencedOut, Crash, Expire,
     RecoverStale

(* What a run has observed stays observed by it.                           *)
LEMMA ObservedStays ==
    ASSUME Typing, [Next]_vars, NEW r \in Scans, NEW f \in Files, ObservedIn(r, f)
    PROVE  ObservedIn(r, f)'
  <1>1. PICK i \in 1..Len(observations[f]) : observations[f][i].run = r
    BY DEF ObservedIn
  <1>2. Len(observations[f]) \in Nat
    BY LenProperties DEF Typing
  <1>3. ASSUME NEW q \in Scans, Reconcile(q)
        PROVE  ObservedIn(r, f)'
    BY <1>1, <1>2, <1>3, AppendedObservation DEF ObservedIn
  <1>4. ASSUME NEW q \in Scans, Save(q)
        PROVE  ObservedIn(r, f)'
    BY <1>1, <1>2, <1>4, SavedObservation DEF ObservedIn
  <1> QED
    BY <1>1, <1>3, <1>4, ObservationsElsewhere DEF ObservedIn

-----------------------------------------------------------------------------
(* Who is not accounted for yet: while a run works through its batches, a   *)
(* path is still to be listed, in the open batch, observed by this run,     *)
(* absent at some time of it, or left out by its filter; and the run has    *)
(* declared no path absent.                                                 *)
GoneIsAbsent == \A f \in Files : ~disk[f].here => f \in absent

Accounted ==
    \A r \in Scans, f \in Files :
        lease.owner = r /\ pc[r] \in {"discover", "hash", "save"} =>
          \/ f \in unlisted[r] \/ batch[r][f] > 0
          \/ ObservedIn(r, f) \/ f \in absent \cup skipped

NotYetDeclared ==
    \A r \in Scans, f \in Files :
        pc[r] \in {"idle", "discover", "hash", "save"} =>
          runs[r].events[f] \notin {"MISSING", "DELETED"}

AbsenceInv == GoneIsAbsent /\ Accounted /\ NotYetDeclared

(* A path whose batch is about to be closed was observed by the run.       *)
LEMMA ObservedInBatch ==
    ASSUME Typing, BatchIsObserved, NEW r \in Scans, NEW f \in Files,
           lease.owner = r, pc[r] = "save", batch[r][f] > 0
    PROVE  ObservedIn(r, f)
  <1>1. observations[f] \in Seq(Observation) /\ observations[f] # <<>> /\ Last(f).run = r
    BY DEF BatchIsObserved, Typing
  <1>2. Len(observations[f]) \in 1..Len(observations[f])
    BY <1>1, EmptySeq
  <1> QED
    BY <1>1, <1>2 DEF ObservedIn, Last

(* The bookkeeping of the walk holds in every state.                       *)
LEMMA AbsenceInvariant == Spec => []AbsenceInv
  <1>1. Init => AbsenceInv
    <2> SUFFICES ASSUME Init PROVE AbsenceInv
      OBVIOUS
    <2>1. GoneIsAbsent /\ Accounted /\ NotYetDeclared
      BY RunsAreScans
         DEF Init, GoneIsAbsent, Accounted, NotYetDeclared, Free, NoEvents
    <2> QED
      BY <2>1 DEF AbsenceInv
  <1>2. Typing /\ BatchIsObserved /\ AbsenceInv /\ [Next]_vars => AbsenceInv'
    <2> SUFFICES ASSUME Typing, BatchIsObserved, AbsenceInv, [Next]_vars
                 PROVE  AbsenceInv'
      OBVIOUS
    <2> USE DEF AbsenceInv, latest
    <2>0. \A r \in Scans, f \in Files : ObservedIn(r, f) => ObservedIn(r, f)'
      BY ObservedStays
    <2>1. ASSUME NEW f \in Files, WriteFile(f) \/ RemoveFile(f) \/ RestoreFile(f)
          PROVE  AbsenceInv'
      <3>1. PICK entry : Change(f, entry) /\ entry.here \in BOOLEAN
        BY <2>1, EntryTyping
           DEF WriteFile, RemoveFile, RestoreFile, Typing, Entry
      <3>2. GoneIsAbsent'
        BY <3>1 DEF Change, GoneIsAbsent, Typing
      <3>3. Accounted' /\ NotYetDeclared'
        BY <2>0, <3>1 DEF Change, Accounted, NotYetDeclared, local, index, latest
      <3> QED
        BY <3>2, <3>3
    <2>2. ASSUME NEW r \in Scans, Start(r)
          PROVE  AbsenceInv'
      <3>1. GoneIsAbsent'
        BY <2>2 DEF Start, GoneIsAbsent, tree
      <3>2. Accounted'
        <4>1. PICK wanted \in Filters : /\ unlisted' = [unlisted EXCEPT ![r] = wanted]
                                       /\ skipped' = Files \ wanted
          BY <2>2 DEF Start
        <4>2. lease'.owner = r
          BY <2>2 DEF Start
        <4>3. \A f \in Files : f \in unlisted'[r] \/ f \in skipped'
          BY <4>1 DEF Typing
        <4> QED
          BY <4>2, <4>3 DEF Accounted
      <3>3. runs' = [runs EXCEPT ![r].status = "RUNNING"] /\ pc[r] = "idle"
        BY <2>2 DEF Start
      <3>4. \A q \in Scans : runs'[q].events = runs[q].events
        BY <3>3 DEF Typing, Run
      <3>5. NotYetDeclared'
        BY <2>2, <3>3, <3>4 DEF Start, NotYetDeclared, Typing
      <3> QED
        BY <3>1, <3>2, <3>5
    <2>3. ASSUME NEW r \in Scans, NEW f \in Files, Discover(r, f)
          PROVE  AbsenceInv'
      <3>1. GoneIsAbsent' /\ NotYetDeclared'
        BY <2>3 DEF Discover, GoneIsAbsent, NotYetDeclared, tree
      <3>2. disk[f].content \in Nat \ {0}
        BY EntryTyping DEF Typing
      <3>3. ASSUME NEW q \in Scans, NEW g \in Files,
                   lease.owner = q, pc[q] \in {"discover", "hash", "save"}
            PROVE  \/ g \in unlisted'[q] \/ batch'[q][g] > 0
                   \/ ObservedIn(q, g)' \/ g \in (absent \cup skipped)'
        <4>1. \/ g \in unlisted[q] \/ batch[q][g] > 0
              \/ ObservedIn(q, g) \/ g \in absent \cup skipped
          BY <3>3 DEF Accounted
        <4> QED
          BY <2>0, <2>3, <3>2, <4>1 DEF Discover, GoneIsAbsent, Typing
      <3> QED
        BY <2>3, <3>1, <3>3 DEF Discover, Accounted
    <2>4. ASSUME NEW r \in Scans, Reconcile(r)
          PROVE  AbsenceInv'
      <3>1. GoneIsAbsent'
        BY <2>4 DEF Reconcile, GoneIsAbsent, tree
      <3>2. UNCHANGED <<lease, unlisted, batch, latest>> /\ pc[r] = "discover"
            /\ pc' = [pc EXCEPT ![r] = "hash"]
        BY <2>4 DEF Reconcile, local
      <3>3. Accounted'
        BY <2>0, <3>2 DEF Accounted, Typing
      <3>4. runs' = [runs EXCEPT ![r].events = [f \in Files |->
              IF f \in InBatch(r) THEN ChangeState(records[f], batch[r][f])
              ELSE runs[r].events[f]]]
        BY <2>4 DEF Reconcile
      <3>5. \A f \in Files : ChangeState(records[f], batch[r][f]) \notin {"MISSING", "DELETED"}
        BY DEF ChangeState
      <3>6. /\ \A f \in Files : runs'[r].events[f] =
                 IF f \in InBatch(r) THEN ChangeState(records[f], batch[r][f])
                 ELSE runs[r].events[f]
            /\ \A q \in Scans \ {r} : runs'[q] = runs[q]
        BY <3>4 DEF Typing, Run
      <3>7. NotYetDeclared'
        BY <3>2, <3>5, <3>6 DEF NotYetDeclared, Typing
      <3> QED
        BY <3>1, <3>3, <3>7
    <2>5. ASSUME NEW r \in Scans, Hash(r)
          PROVE  AbsenceInv'
      <3>1. UNCHANGED <<disk, lease, runs, unlisted, batch, latest>> /\ pc[r] = "hash"
            /\ pc' = [pc EXCEPT ![r] = "save"]
        BY <2>5 DEF Hash, tree
      <3> QED
        BY <2>0, <3>1 DEF GoneIsAbsent, Accounted, NotYetDeclared, Typing
    <2>6. ASSUME NEW r \in Scans, Save(r)
          PROVE  AbsenceInv'
      <3>1. /\ UNCHANGED <<disk, lease, runs, unlisted, latest>> /\ pc[r] = "save"
            /\ pc' = [pc EXCEPT ![r] = "discover"]
            /\ batch' = [batch EXCEPT ![r] = Nothing]
        BY <2>6 DEF Save, tree
      <3>2. ASSUME NEW q \in Scans, NEW g \in Files,
                   lease.owner = q, pc'[q] \in {"discover", "hash", "save"}
            PROVE  \/ g \in unlisted'[q] \/ batch'[q][g] > 0
                   \/ ObservedIn(q, g)' \/ g \in (absent \cup skipped)'
        <4>1. \/ g \in unlisted[q] \/ batch[q][g] > 0
              \/ ObservedIn(q, g) \/ g \in absent \cup skipped
          BY <3>1, <3>2 DEF Accounted, Typing
        <4>2. q = r /\ batch[q][g] > 0 => ObservedIn(q, g)
          BY <3>1, <3>2, ObservedInBatch
        <4> QED
          BY <2>0, <3>1, <4>1, <4>2 DEF Typing
      <3>3. Accounted'
        BY <3>1, <3>2 DEF Accounted
      <3> QED
        BY <3>1, <3>3 DEF GoneIsAbsent, NotYetDeclared, Typing
    <2>7. ASSUME NEW r \in Scans, MarkMissing(r)
          PROVE  AbsenceInv'
      <3>1. /\ UNCHANGED <<disk, lease, unlisted, batch, latest>> /\ pc[r] = "discover"
            /\ pc' = [pc EXCEPT ![r] = "finish"]
            /\ \E e : runs' = [runs EXCEPT ![r].events = e]
        BY <2>7 DEF MarkMissing, tree, local
      <3>2. Accounted' /\ GoneIsAbsent'
        BY <2>0, <3>1 DEF GoneIsAbsent, Accounted, Typing
      <3>3. NotYetDeclared'
        BY <3>1 DEF NotYetDeclared, Typing
      <3> QED
        BY <3>2, <3>3
    <2>8. ASSUME NEW r \in Scans, Finish(r) \/ Abort(r)
          PROVE  AbsenceInv'
      <3>1. /\ UNCHANGED <<disk, latest>> /\ lease' = Free
            /\ pc' = [pc EXCEPT ![r] = "ended"]
            /\ \E st : runs' = [runs EXCEPT ![r].status = st]
        BY <2>8 DEF Finish, Abort, Terminate, End, tree
      <3>2. \A q \in Scans : runs'[q].events = runs[q].events
        BY <3>1 DEF Typing, Run
      <3> QED
        BY <3>1, <3>2, RunsAreScans
           DEF GoneIsAbsent, Accounted, NotYetDeclared, Free, Typing
    <2>9. ASSUME NEW r \in Scans, FencedOut(r) \/ Crash(r)
          PROVE  AbsenceInv'
      <3>1. /\ UNCHANGED <<disk, latest, lease, runs>>
            /\ pc' = [pc EXCEPT ![r] = "ended"]
            /\ unlisted' = [unlisted EXCEPT ![r] = {}]
            /\ batch' = [batch EXCEPT ![r] = Nothing]
        BY <2>9 DEF FencedOut, Crash, End, tree
      <3> QED
        BY <2>0, <3>1 DEF GoneIsAbsent, Accounted, NotYetDeclared, Typing
    <2>10. ASSUME NEW r \in Scans, Expire(r)
           PROVE  AbsenceInv'
      <3>1. UNCHANGED <<disk, latest, runs, pc, unlisted, batch>> /\ lease'.owner = lease.owner
        BY <2>10 DEF Expire, tree, local, Typing
      <3> QED
        BY <2>0, <3>1 DEF GoneIsAbsent, Accounted, NotYetDeclared
    <2>11. ASSUME NEW r \in Scans, RecoverStale(r)
           PROVE  AbsenceInv'
      <3>1. /\ UNCHANGED <<disk, latest, pc, unlisted, batch>> /\ lease' = Free
            /\ \E st : runs' = [runs EXCEPT ![r].status = st]
        BY <2>11 DEF RecoverStale, Terminate, tree, local
      <3>2. \A q \in Scans : runs'[q].events = runs[q].events
        BY <3>1 DEF Typing, Run
      <3> QED
        BY <3>1, <3>2, RunsAreScans
           DEF GoneIsAbsent, Accounted, NotYetDeclared, Free
    <2>12. CASE UNCHANGED vars
      BY <2>0, <2>12
         DEF vars, tree, local, GoneIsAbsent, Accounted, NotYetDeclared
    <2> QED
      BY <2>1, <2>2, <2>3, <2>4, <2>5, <2>6, <2>7, <2>8, <2>9, <2>10, <2>11,
         <2>12
         DEF Next
  <1> QED
    BY <1>1, <1>2, TypingInvariant, BatchInvariant, PTL DEF Spec

(* AbsenceHasACause (W2-003): mark_missing runs after the last batch and    *)
(* over the paths its run has not observed, so a path is declared absent    *)
(* only by a scan during which it was absent at some time, or whose suffix  *)
(* filter left it out.                                                      *)
THEOREM AbsenceIsAccountedFor == Spec => AbsenceHasACause
  <1>1. Typing /\ AbsenceInv /\ [Next]_vars
          => [\A f \in Files : DeclaredAbsent(f)' # DeclaredAbsent(f) => f \in absent \cup skipped]_vars
    <2> SUFFICES ASSUME Typing, AbsenceInv, Next, NEW f \in Files,
                        DeclaredAbsent(f)' # DeclaredAbsent(f)
                 PROVE  f \in absent \cup skipped
      OBVIOUS
    <2>0. PICK q \in Scans : \/ q \in DeclaredAbsent(f)' /\ q \notin DeclaredAbsent(f)
                             \/ q \notin DeclaredAbsent(f)' /\ q \in DeclaredAbsent(f)
      BY DEF DeclaredAbsent
    <2>1. runs'[q].events[f] # runs[q].events[f]
      BY <2>0 DEF DeclaredAbsent
    <2>2. ASSUME NEW r \in Scans, Reconcile(r)
          PROVE  FALSE
      <3>1. /\ pc[r] = "discover" /\ pc' = [pc EXCEPT ![r] = "hash"]
            /\ runs' = [runs EXCEPT ![r].events = [g \in Files |->
                 IF g \in InBatch(r) THEN ChangeState(records[g], batch[r][g])
                 ELSE runs[r].events[g]]]
        BY <2>2 DEF Reconcile
      <3>2. ChangeState(records[f], batch[r][f]) \notin {"MISSING", "DELETED"}
        BY DEF ChangeState
      <3>3. /\ q = r
            /\ runs'[r].events[f] \in
                 {ChangeState(records[f], batch[r][f]), runs[r].events[f]}
        BY <2>1, <3>1 DEF Typing, Run
      <3>4. runs[r].events[f] \notin {"MISSING", "DELETED"}
        BY <3>1 DEF AbsenceInv, NotYetDeclared
      <3> QED
        BY <2>0, <3>2, <3>3, <3>4 DEF DeclaredAbsent
    <2>3. ASSUME NEW r \in Scans, MarkMissing(r)
          PROVE  f \in absent \cup skipped
      <3>1. PICK p : runs' = [runs EXCEPT ![r].events = [g \in Files |->
                       IF g \in Unseen(r) THEN p[g] ELSE runs[r].events[g]]]
        <4>1. PICK old \in SUBSET Unseen(r) :
                runs' = [runs EXCEPT ![r].events = [g \in Files |->
                  IF g \in Unseen(r)
                  THEN IF Confirmed(g, old) THEN "DELETED" ELSE "MISSING"
                  ELSE runs[r].events[g]]]
          BY <2>3 DEF MarkMissing
        <4> DEFINE d == [g \in Files |-> IF Confirmed(g, old) THEN "DELETED" ELSE "MISSING"]
        <4>2. runs' = [runs EXCEPT ![r].events = [g \in Files |->
                IF g \in Unseen(r) THEN d[g] ELSE runs[r].events[g]]]
          BY <4>1
        <4> HIDE DEF d
        <4> QED
          BY <4>2
      <3>2. q = r /\ f \in Unseen(r)
        BY <2>1, <3>1 DEF Typing, Run
      <3>3. lease.owner = r /\ pc[r] = "discover" /\ unlisted[r] = {} /\ InBatch(r) = {}
        BY <2>3 DEF MarkMissing, Discovered, Owns
      <3>4. ~ObservedIn(r, f)
        BY <3>2 DEF Unseen
      <3> QED
        BY <3>3, <3>4 DEF AbsenceInv, Accounted, InBatch
    <2>4. ASSUME NEW r \in Scans,
                 Start(r) \/ Finish(r) \/ Abort(r) \/ RecoverStale(r)
          PROVE  FALSE
      <3>1. \E st : runs' = [runs EXCEPT ![r].status = st]
        BY <2>4 DEF Start, Finish, Abort, RecoverStale, Terminate
      <3> QED
        BY <2>1, <3>1 DEF Typing, Run
    <2>5. ASSUME UNCHANGED runs
          PROVE  FALSE
      BY <2>1, <2>5
    <2>6. ASSUME NEW r \in Scans,
                 \/ \E g \in Files : Discover(r, g)
                 \/ Hash(r) \/ Save(r) \/ FencedOut(r) \/ Crash(r) \/ Expire(r)
          PROVE  UNCHANGED runs
      BY <2>6 DEF Discover, Hash, Save, FencedOut, Crash, Expire
    <2>7. ASSUME NEW g \in Files, WriteFile(g) \/ RemoveFile(g) \/ RestoreFile(g)
          PROVE  UNCHANGED runs
      BY <2>7 DEF WriteFile, RemoveFile, RestoreFile, Change
    <2> QED
      BY <2>2, <2>3, <2>4, <2>5, <2>6, <2>7 DEF Next
  <1> QED
    BY <1>1, TypingInvariant, AbsenceInvariant, PTL DEF Spec, AbsenceHasACause

-----------------------------------------------------------------------------
(* Hashes.  Contents only grow, and a fingerprint was read after its        *)
(* observation was listed; one that is reused comes from the observation    *)
(* just before, of the same content.                                        *)
PrintsInOrder ==
    \A f \in Files : \A i \in 1..Len(observations[f]) :
        /\ observations[f][i].content <= disk[f].content
        /\ observations[f][i].print > 0 =>
             /\ observations[f][i].content <= observations[f][i].print
             /\ observations[f][i].print <= disk[f].content

RecordIsLastObservation ==
    \A f \in Files : records[f].presence # "NONE" =>
        observations[f] # <<>> /\ Last(f).content = records[f].content

BatchIsListed == \A r \in Scans, f \in Files : batch[r][f] <= disk[f].content

UnchangedIsAsBefore ==
    \A r \in Scans, f \in Files :
        /\ lease.owner = r /\ pc[r] = "hash" /\ batch[r][f] > 0
        /\ runs[r].events[f] = "UNCHANGED" /\ Len(observations[f]) >= 2
        => observations[f][Len(observations[f]) - 1].content = Last(f).content

HashedIsInOrder ==
    \A r \in Scans, f \in Files :
        lease.owner = r /\ hashed[r][f] > 0 =>
          Last(f).content <= hashed[r][f] /\ hashed[r][f] <= disk[f].content

HashInv ==
    /\ PrintsInOrder
    /\ RecordIsLastObservation
    /\ BatchIsListed
    /\ UnchangedIsAsBefore
    /\ HashedIsInOrder

(* An empty index has no hash to be wrong.                                 *)
LEMMA InitHashInv == Init => HashInv
  <1> SUFFICES ASSUME Init PROVE HashInv
    OBVIOUS
  <1>1. PrintsInOrder /\ RecordIsLastObservation
    BY DEF Init, PrintsInOrder, RecordIsLastObservation, NoRecord
  <1>2. BatchIsListed /\ UnchangedIsAsBefore /\ HashedIsInOrder
    BY DEF Init, BatchIsListed, UnchangedIsAsBefore, HashedIsInOrder, Nothing
  <1> QED
    BY <1>1, <1>2 DEF HashInv

(* The steps that leave the index alone and forget, or keep, what a process *)
(* holds in memory.                                                         *)
LEMMA ForgettingKeepsHashInv ==
    ASSUME Typing, HashInv, UNCHANGED <<records, observations, disk>>,
           \A r \in Scans : lease'.owner = r => lease.owner = r,
           \A r \in Scans : runs'[r].events = runs[r].events,
           \A r \in Scans : pc'[r] = "hash" => pc[r] = "hash",
           \A r \in Scans, f \in Files : batch'[r][f] \in {0, batch[r][f]},
           \A r \in Scans, f \in Files : hashed'[r][f] \in {0, hashed[r][f]}
    PROVE  HashInv'
  <1>0. \A f \in Files : disk[f].content \in Nat \ {0}
    BY EntryTyping DEF Typing
  <1>1. PrintsInOrder' /\ RecordIsLastObservation'
    BY DEF HashInv, PrintsInOrder, RecordIsLastObservation, Last
  <1>2. BatchIsListed'
    BY <1>0 DEF HashInv, BatchIsListed
  <1>3. UnchangedIsAsBefore'
    BY DEF HashInv, UnchangedIsAsBefore, Last
  <1>4. HashedIsInOrder'
    BY DEF HashInv, HashedIsInOrder, Last
  <1> QED
    BY <1>1, <1>2, <1>3, <1>4 DEF HashInv

(* Observing, hashing, saving and every failure between them keep the      *)
(* hashes in order.                                                        *)
LEMMA NextHashInv ==
    Typing /\ BatchIsObserved /\ HashedIsInBatch /\ HashInv /\ [Next]_vars => HashInv'
  <1> SUFFICES ASSUME Typing, BatchIsObserved, HashedIsInBatch, HashInv, [Next]_vars
               PROVE  HashInv'
    OBVIOUS
  <1>0. /\ \A f \in Files : disk[f].content \in Nat \ {0}
        /\ \A f \in Files : Len(observations[f]) \in Nat
        /\ \A f \in Files : observations[f] # <<>> =>
             Len(observations[f]) \in 1..Len(observations[f])
        /\ \A f \in Files, i \in Nat : i \in 1..Len(observations[f]) =>
             observations[f][i].content \in Nat /\ observations[f][i].print \in Nat
        /\ \A r \in Scans, f \in Files : hashed[r][f] \in Nat /\ batch[r][f] \in Nat
    <2>1. \A f \in Files : observations[f] \in Seq(Observation)
      BY DEF Typing
    <2>2. \A f \in Files, i \in Nat : i \in 1..Len(observations[f]) =>
            observations[f][i] \in Observation
      BY <2>1, ElementOfSeq
    <2>3. \A f \in Files : Len(observations[f]) \in Nat
      BY <2>1, LenProperties
    <2>4. \A f \in Files : observations[f] # <<>> =>
            Len(observations[f]) \in 1..Len(observations[f])
      BY <2>1, EmptySeq
    <2>5. \A r \in Scans, f \in Files : hashed[r][f] \in Nat /\ batch[r][f] \in Nat
      BY DEF Typing
    <2>6. \A f \in Files : disk[f].content \in Nat \ {0}
      BY EntryTyping DEF Typing
    <2> QED
      BY <2>2, <2>3, <2>4, <2>5, <2>6 DEF Observation
  <1>1. ASSUME NEW g \in Files, WriteFile(g) \/ RemoveFile(g) \/ RestoreFile(g)
        PROVE  HashInv'
    <2>1. PICK entry : Change(g, entry) /\ entry.content \in {disk[g].content, disk[g].content + 1}
      <3>1. disk[g] \in Entry
        BY DEF Typing
      <3>2. \A b : [disk[g] EXCEPT !.here = b].content = disk[g].content
        BY <3>1 DEF Entry
      <3> QED
        BY <1>1, <3>2 DEF WriteFile, RemoveFile, RestoreFile
    <2>2. /\ UNCHANGED <<records, observations, runs, lease, pc, batch, hashed>>
          /\ disk' = [disk EXCEPT ![g] = entry]
      BY <2>1 DEF Change, index, local
    <2>3. \A f \in Files : /\ disk'[f].content \in Nat
                           /\ disk[f].content <= disk'[f].content
      BY <1>0, <2>1, <2>2 DEF Typing
    <2>4. PrintsInOrder'
      <3> SUFFICES ASSUME NEW f \in Files, NEW i \in 1..Len(observations[f])
                   PROVE  /\ observations[f][i].content <= disk'[f].content
                          /\ observations[f][i].print > 0 =>
                               /\ observations[f][i].content <= observations[f][i].print
                               /\ observations[f][i].print <= disk'[f].content
        BY <2>2 DEF PrintsInOrder
      <3>1. observations[f][i].content \in Nat /\ observations[f][i].print \in Nat
        BY <1>0
      <3>2. /\ observations[f][i].content <= disk[f].content
            /\ observations[f][i].print > 0 =>
                 /\ observations[f][i].content <= observations[f][i].print
                 /\ observations[f][i].print <= disk[f].content
        BY DEF HashInv, PrintsInOrder
      <3> QED
        BY <1>0, <2>3, <3>1, <3>2
    <2>5. RecordIsLastObservation' /\ UnchangedIsAsBefore'
      BY <2>2 DEF HashInv, RecordIsLastObservation, UnchangedIsAsBefore, Last
    <2>6. BatchIsListed'
      BY <1>0, <2>2, <2>3 DEF HashInv, BatchIsListed
    <2>7. HashedIsInOrder'
      BY <1>0, <2>2, <2>3 DEF HashInv, HashedIsInOrder, Last
    <2> QED
      BY <2>4, <2>5, <2>6, <2>7 DEF HashInv
  <1>2. ASSUME NEW r \in Scans, Start(r)
        PROVE  HashInv'
    <2>1. /\ UNCHANGED <<disk, records, observations, batch, hashed>>
          /\ pc[r] = "idle" /\ pc' = [pc EXCEPT ![r] = "discover"]
          /\ lease'.owner = r
          /\ runs' = [runs EXCEPT ![r].status = "RUNNING"]
      BY <1>2 DEF Start, tree, index
    <2>2. PrintsInOrder' /\ RecordIsLastObservation' /\ BatchIsListed'
      BY <2>1
         DEF HashInv, PrintsInOrder, RecordIsLastObservation, BatchIsListed,
             Last
    <2>3. UnchangedIsAsBefore'
      BY <2>1 DEF UnchangedIsAsBefore, Typing
    <2>4. HashedIsInOrder'
      BY <2>1 DEF HashedIsInOrder, HashedIsInBatch
    <2> QED
      BY <2>2, <2>3, <2>4 DEF HashInv
  <1>3. ASSUME NEW r \in Scans, NEW g \in Files, Discover(r, g)
        PROVE  HashInv'
    <2>1. /\ UNCHANGED <<disk, records, observations, runs, lease, pc, hashed>>
          /\ pc[r] = "discover"
          /\ batch' \in {batch, [batch EXCEPT ![r][g] = disk[g].content]}
      BY <1>3 DEF Discover, tree, index
    <2>2. /\ PrintsInOrder' /\ RecordIsLastObservation' /\ HashedIsInOrder'
      BY <2>1
         DEF HashInv, PrintsInOrder, RecordIsLastObservation, HashedIsInOrder,
             Last
    <2>3. BatchIsListed'
      <3>1. \A q \in Scans, f \in Files :
              batch'[q][f] = batch[q][f] \/ batch'[q][f] = disk[f].content
        <4>1. CASE batch' = batch
          BY <4>1
        <4>2. CASE batch' = [batch EXCEPT ![r] = [batch[r] EXCEPT ![g] = disk[g].content]]
          BY <4>2 DEF Typing
        <4> QED
          BY <2>1, <4>1, <4>2
      <3> QED
        BY <1>0, <2>1, <3>1 DEF HashInv, BatchIsListed
    <2>4. UnchangedIsAsBefore'
      BY <2>1 DEF HashInv, UnchangedIsAsBefore, Last, Typing
    <2> QED
      BY <2>2, <2>3, <2>4 DEF HashInv
  <1>4. ASSUME NEW r \in Scans, Reconcile(r)
        PROVE  HashInv'
    <2>1. /\ UNCHANGED <<disk, lease, batch, hashed>>
          /\ lease.owner = r
          /\ pc[r] = "discover" /\ pc' = [pc EXCEPT ![r] = "hash"]
          /\ records' = [f \in Files |->
               IF f \in InBatch(r) THEN Reconciled(records[f], batch[r][f])
               ELSE records[f]]
          /\ runs' = [runs EXCEPT ![r].events = [f \in Files |->
               IF f \in InBatch(r) THEN ChangeState(records[f], batch[r][f])
               ELSE runs[r].events[f]]]
      BY <1>4 DEF Reconcile, Owns, tree, local
    <2>2. ASSUME NEW f \in Files
          PROVE  /\ f \notin InBatch(r) => observations'[f] = observations[f]
                 /\ f \in InBatch(r) =>
                      /\ Len(observations'[f]) = Len(observations[f]) + 1
                      /\ \A i \in 1..Len(observations[f]) :
                           observations'[f][i] = observations[f][i]
                      /\ observations'[f][Len(observations'[f])].content = batch[r][f]
                      /\ observations'[f][Len(observations'[f])].print = 0
      BY <1>4, AppendedObservation DEF Last
    <2>3. PrintsInOrder'
      <3> SUFFICES ASSUME NEW f \in Files, NEW i \in 1..Len(observations'[f])
                   PROVE  /\ observations'[f][i].content <= disk[f].content
                          /\ observations'[f][i].print > 0 =>
                               /\ observations'[f][i].content <= observations'[f][i].print
                               /\ observations'[f][i].print <= disk[f].content
        BY <2>1 DEF PrintsInOrder
      <3>1. CASE i \in 1..Len(observations[f])
        <4>1. observations'[f][i] = observations[f][i]
          BY <2>2, <3>1
        <4> QED
          BY <3>1, <4>1 DEF HashInv, PrintsInOrder
      <3>2. CASE i \notin 1..Len(observations[f])
        <4>1. f \in InBatch(r) /\ i = Len(observations'[f])
          BY <1>0, <2>2, <3>2
        <4> QED
          BY <2>2, <4>1 DEF HashInv, BatchIsListed
      <3> QED
        BY <3>1, <3>2
    <2>4. RecordIsLastObservation'
      <3> SUFFICES ASSUME NEW f \in Files, records'[f].presence # "NONE"
                   PROVE  /\ observations'[f] # <<>>
                          /\ observations'[f][Len(observations'[f])].content
                               = records'[f].content
        BY DEF RecordIsLastObservation, Last
      <3>1. CASE f \in InBatch(r)
        <4>1. Len(observations'[f]) # 0
          BY <1>0, <2>2, <3>1
        <4>2. observations'[f] # <<>>
          BY <4>1
        <4> QED
          BY <2>1, <2>2, <3>1, <4>2 DEF Reconciled
      <3>2. CASE f \notin InBatch(r)
        BY <2>1, <2>2, <3>2 DEF HashInv, RecordIsLastObservation, Last
      <3> QED
        BY <3>1, <3>2
    <2>5. BatchIsListed'
      BY <2>1 DEF HashInv, BatchIsListed
    <2>6. UnchangedIsAsBefore'
      <3> SUFFICES ASSUME NEW f \in Files, batch[r][f] > 0,
                          runs'[r].events[f] = "UNCHANGED", Len(observations'[f]) >= 2
                   PROVE  observations'[f][Len(observations'[f]) - 1].content
                            = observations'[f][Len(observations'[f])].content
        BY <2>1 DEF UnchangedIsAsBefore, Last
      <3>1. f \in InBatch(r)
        BY DEF InBatch
      <3>2. ChangeState(records[f], batch[r][f]) = "UNCHANGED"
        BY <2>1, <3>1 DEF Typing, Run
      <3>3. records[f].presence \in Presences
        BY DEF Typing, Record
      <3>4. records[f].presence = "PRESENT" /\ records[f].content = batch[r][f]
        BY <3>2, <3>3 DEF ChangeState, Presences
      <3>5. observations[f] # <<>> /\ Last(f).content = batch[r][f]
        BY <3>4 DEF HashInv, RecordIsLastObservation
      <3> QED
        BY <1>0, <2>2, <3>1, <3>5 DEF Last
    <2>7. HashedIsInOrder'
      BY <2>1 DEF HashedIsInOrder, HashedIsInBatch
    <2> QED
      BY <2>3, <2>4, <2>5, <2>6, <2>7 DEF HashInv
  <1>5. ASSUME NEW r \in Scans, Hash(r)
        PROVE  HashInv'
    <2>1. /\ UNCHANGED <<disk, records, observations, runs, lease, batch>>
          /\ pc[r] = "hash" /\ pc' = [pc EXCEPT ![r] = "save"]
      BY <1>5 DEF Hash, tree, index
    <2>2. /\ \A q \in Scans \ {r} : hashed'[q] = hashed[q]
          /\ \A f \in Files : hashed'[r][f] > 0 =>
               /\ f \in InBatch(r)
               /\ \/ /\ runs[r].events[f] = "UNCHANGED" /\ Reusable(f) > 0
                     /\ hashed'[r][f] = Reusable(f)
                  \/ hashed'[r][f] = disk[f].content
      <3>1. PICK unreadable \in SUBSET InBatch(r), again \in SUBSET InBatch(r) :
              hashed' = [hashed EXCEPT ![r] = [f \in Files |->
                CASE f \notin InBatch(r) -> 0
                  [] f \in InBatch(r) /\ runs[r].events[f] = "UNCHANGED"
                     /\ f \notin again /\ Reusable(f) > 0 -> Reusable(f)
                  [] OTHER -> IF f \in unreadable \/ ~disk[f].here THEN 0
                              ELSE disk[f].content]]
        BY <1>5 DEF Hash
      <3> QED
        BY <3>1 DEF Typing
    <2>3. PrintsInOrder' /\ RecordIsLastObservation' /\ BatchIsListed'
      BY <2>1
         DEF HashInv, PrintsInOrder, RecordIsLastObservation, BatchIsListed,
             Last
    <2>4. UnchangedIsAsBefore'
      BY <2>1 DEF HashInv, UnchangedIsAsBefore, Last, Typing
    <2>5. ASSUME NEW f \in Files, lease.owner = r, hashed'[r][f] > 0
          PROVE  Last(f).content <= hashed'[r][f] /\ hashed'[r][f] <= disk[f].content
      <3>1. f \in InBatch(r) /\ batch[r][f] > 0
        BY <2>2, <2>5 DEF InBatch
      <3>2. observations[f] # <<>> /\ Len(observations[f]) \in 1..Len(observations[f])
        BY <1>0, <2>1, <2>5, <3>1 DEF BatchIsObserved
      <3>3. Last(f).content <= disk[f].content
        BY <3>2 DEF HashInv, PrintsInOrder, Last
      <3>4. CASE hashed'[r][f] = disk[f].content
        BY <1>0, <3>3, <3>4
      <3>5. CASE /\ runs[r].events[f] = "UNCHANGED" /\ Reusable(f) > 0
                 /\ hashed'[r][f] = Reusable(f)
        <4> DEFINE i == Len(observations[f]) - 1
        <4>1. Len(observations[f]) >= 2 /\ Reusable(f) = observations[f][i].print
          BY <1>0, <3>5 DEF Reusable
        <4>2. i \in 1..Len(observations[f])
          BY <1>0, <4>1
        <4>3. observations[f][i].content = Last(f).content
          BY <2>1, <2>5, <3>1, <3>5, <4>1 DEF HashInv, UnchangedIsAsBefore
        <4> QED
          BY <3>5, <4>1, <4>2, <4>3 DEF HashInv, PrintsInOrder
      <3> QED
        BY <2>2, <2>5, <3>4, <3>5
    <2>6. HashedIsInOrder'
      <3> SUFFICES ASSUME NEW q \in Scans, NEW f \in Files, lease.owner = q, hashed'[q][f] > 0
                   PROVE  Last(f).content <= hashed'[q][f] /\ hashed'[q][f] <= disk[f].content
        BY <2>1 DEF HashedIsInOrder, Last
      <3>1. CASE q = r
        BY <2>5, <3>1
      <3>2. CASE q # r
        BY <2>2, <3>2 DEF HashInv, HashedIsInOrder
      <3> QED
        BY <3>1, <3>2
    <2> QED
      BY <2>3, <2>4, <2>6 DEF HashInv
  <1>6. ASSUME NEW r \in Scans, Save(r)
        PROVE  HashInv'
    <2>1. /\ UNCHANGED <<disk, records, runs, lease>>
          /\ pc[r] = "save" /\ pc' = [pc EXCEPT ![r] = "discover"]
          /\ batch' = [batch EXCEPT ![r] = Nothing]
          /\ hashed' = [hashed EXCEPT ![r] = Nothing]
          /\ \A f \in Files : hashed[r][f] > 0 => lease.owner = r
      BY <1>6 DEF Save, Owns, Nothing, tree
    <2>2. ASSUME NEW f \in Files
          PROVE  /\ Len(observations'[f]) = Len(observations[f])
                 /\ hashed[r][f] = 0 => observations'[f] = observations[f]
                 /\ \A i \in 1..Len(observations[f]) :
                      /\ observations'[f][i].content = observations[f][i].content
                      /\ observations'[f][i].print =
                           IF hashed[r][f] > 0 /\ i = Len(observations[f])
                           THEN hashed[r][f] ELSE observations[f][i].print
      BY <1>6, SavedObservation
    <2>3. PrintsInOrder'
      <3> SUFFICES ASSUME NEW f \in Files, NEW i \in 1..Len(observations[f])
                   PROVE  /\ observations'[f][i].content <= disk[f].content
                          /\ observations'[f][i].print > 0 =>
                               /\ observations'[f][i].content <= observations'[f][i].print
                               /\ observations'[f][i].print <= disk[f].content
        BY <2>1, <2>2 DEF PrintsInOrder
      <3>1. CASE hashed[r][f] > 0 /\ i = Len(observations[f])
        <4>1. Last(f).content <= hashed[r][f] /\ hashed[r][f] <= disk[f].content
          BY <2>1, <3>1 DEF HashInv, HashedIsInOrder
        <4>2. observations[f][i].content <= disk[f].content
          BY DEF HashInv, PrintsInOrder
        <4> QED
          BY <2>2, <3>1, <4>1, <4>2 DEF Last
      <3>2. CASE ~(hashed[r][f] > 0 /\ i = Len(observations[f]))
        BY <2>2, <3>2 DEF HashInv, PrintsInOrder
      <3> QED
        BY <3>1, <3>2
    <2>4. \A f \in Files : observations[f] # <<>> =>
            observations'[f] # <<>> /\ Last(f)'.content = Last(f).content
      <3> SUFFICES ASSUME NEW f \in Files, observations[f] # <<>>
                   PROVE  observations'[f] # <<>> /\ Last(f)'.content = Last(f).content
        OBVIOUS
      <3>1. Len(observations'[f]) # 0
        BY <1>0, <2>2
      <3>2. observations'[f] # <<>>
        BY <3>1
      <3> QED
        BY <1>0, <2>2, <3>2 DEF Last
    <2>5. RecordIsLastObservation'
      BY <2>1, <2>4 DEF HashInv, RecordIsLastObservation
    <2>6. BatchIsListed'
      BY <1>0, <2>1 DEF HashInv, BatchIsListed, Nothing, Typing
    <2>7. UnchangedIsAsBefore'
      <3> SUFFICES ASSUME NEW q \in Scans, NEW f \in Files, lease.owner = q,
                          pc'[q] = "hash", batch'[q][f] > 0,
                          runs[q].events[f] = "UNCHANGED", Len(observations'[f]) >= 2
                   PROVE  observations'[f][Len(observations'[f]) - 1].content
                            = observations'[f][Len(observations'[f])].content
        BY <2>1 DEF UnchangedIsAsBefore, Last
      <3>1. q # r /\ pc[q] = "hash" /\ batch[q][f] > 0
        BY <2>1 DEF Typing
      <3>2. hashed[r][f] = 0
        BY <1>0, <2>1, <3>1
      <3> QED
        BY <2>2, <3>1, <3>2 DEF HashInv, UnchangedIsAsBefore, Last
    <2>8. HashedIsInOrder'
      <3> SUFFICES ASSUME NEW q \in Scans, NEW f \in Files, lease.owner = q, hashed'[q][f] > 0
                   PROVE  Last(f)'.content <= hashed'[q][f] /\ hashed'[q][f] <= disk[f].content
        BY <2>1 DEF HashedIsInOrder
      <3>1. q # r /\ hashed'[q][f] = hashed[q][f]
        BY <2>1 DEF Nothing, Typing
      <3>2. hashed[r][f] = 0
        BY <1>0, <2>1, <3>1
      <3> QED
        BY <2>2, <3>1, <3>2 DEF HashInv, HashedIsInOrder, Last
    <2> QED
      BY <2>3, <2>5, <2>6, <2>7, <2>8 DEF HashInv
  <1>7. ASSUME NEW r \in Scans, MarkMissing(r)
        PROVE  HashInv'
    <2>1. /\ UNCHANGED <<disk, observations, lease, batch, hashed>>
          /\ pc[r] = "discover" /\ pc' = [pc EXCEPT ![r] = "finish"]
          /\ \E e : runs' = [runs EXCEPT ![r].events = e]
      BY <1>7 DEF MarkMissing, tree, local
    <2>2. \A f \in Files : /\ records'[f].content = records[f].content
                           /\ records[f].presence = "NONE" => records'[f].presence = "NONE"
      <3>1. \A f \in Files : f \in Unseen(r) => records[f].presence # "NONE"
        BY DEF Unseen
      <3>2. \A f \in Files : records[f] \in Record
        BY DEF Typing
      <3>3. \A d \in Record : \A p, n :
              [d EXCEPT !.presence = p, !.missing = n].content = d.content
        BY DEF Record
      <3>4. PICK old :
              records' = [f \in Files |->
                IF f \in Unseen(r)
                THEN [records[f] EXCEPT
                        !.presence = IF Confirmed(f, old) THEN "DELETED" ELSE "MISSING",
                        !.missing = records[f].missing + 1]
                ELSE records[f]]
        BY <1>7 DEF MarkMissing
      <3>5. ASSUME NEW f \in Files, f \in Unseen(r)
            PROVE  records'[f].content = records[f].content
        <4> DEFINE p == IF Confirmed(f, old) THEN "DELETED" ELSE "MISSING"
        <4>1. records'[f] = [records[f] EXCEPT !.presence = p,
                                               !.missing = records[f].missing + 1]
          BY <3>4, <3>5
        <4> HIDE DEF p
        <4> QED
          BY <3>2, <3>3, <4>1
      <3> QED
        BY <3>1, <3>4, <3>5
    <2>3. RecordIsLastObservation'
      BY <2>1, <2>2 DEF HashInv, RecordIsLastObservation, Last
    <2>4. PrintsInOrder' /\ BatchIsListed' /\ HashedIsInOrder'
      BY <2>1 DEF HashInv, PrintsInOrder, BatchIsListed, HashedIsInOrder, Last
    <2>5. UnchangedIsAsBefore'
      BY <2>1 DEF HashInv, UnchangedIsAsBefore, Last, Typing
    <2> QED
      BY <2>3, <2>4, <2>5 DEF HashInv
  <1>8. ASSUME NEW r \in Scans, NEW st, runs' = [runs EXCEPT ![r].status = st]
        PROVE  \A q \in Scans : runs'[q].events = runs[q].events
    BY <1>8 DEF Typing, Run
  <1>9. ASSUME NEW r \in Scans, End(r)
        PROVE  /\ \A q \in Scans : pc'[q] = "hash" => pc[q] = "hash"
               /\ \A q \in Scans, f \in Files : batch'[q][f] \in {0, batch[q][f]}
               /\ \A q \in Scans, f \in Files : hashed'[q][f] \in {0, hashed[q][f]}
    BY <1>9 DEF End, Nothing, Typing
  <1>10. ASSUME NEW r \in Scans, Finish(r) \/ Abort(r)
         PROVE  HashInv'
    <2>1. /\ End(r) /\ UNCHANGED <<disk, records, observations>> /\ lease' = Free
          /\ \E st : runs' = [runs EXCEPT ![r].status = st]
      BY <1>10 DEF Finish, Abort, Terminate, tree, index
    <2>2. \A q \in Scans : runs'[q].events = runs[q].events
      BY <1>8, <2>1
    <2> QED
      BY <1>9, <2>1, <2>2, RunsAreScans, ForgettingKeepsHashInv DEF Free
  <1>11. ASSUME NEW r \in Scans, FencedOut(r) \/ Crash(r)
         PROVE  HashInv'
    <2>1. End(r) /\ UNCHANGED <<disk, records, observations, runs, lease>>
      BY <1>11 DEF FencedOut, Crash, tree, index
    <2> QED
      BY <1>9, <2>1, ForgettingKeepsHashInv
  <1>12. ASSUME NEW r \in Scans, Expire(r)
         PROVE  HashInv'
    <2>1. /\ UNCHANGED <<disk, records, observations, runs, pc, batch, hashed>>
          /\ lease'.owner = lease.owner
      BY <1>12 DEF Expire, tree, index, local, Typing
    <2> QED
      BY <2>1, ForgettingKeepsHashInv
  <1>13. ASSUME NEW r \in Scans, RecoverStale(r)
         PROVE  HashInv'
    <2>1. /\ UNCHANGED <<disk, records, observations, pc, batch, hashed>> /\ lease' = Free
          /\ \E st : runs' = [runs EXCEPT ![r].status = st]
      BY <1>13 DEF RecoverStale, Terminate, tree, index, local
    <2>2. \A q \in Scans : runs'[q].events = runs[q].events
      BY <1>8, <2>1
    <2> QED
      BY <2>1, <2>2, RunsAreScans, ForgettingKeepsHashInv DEF Free
  <1>14. CASE UNCHANGED vars
    <2>1. UNCHANGED <<disk, records, observations, runs, lease, pc, batch, hashed>>
      BY <1>14 DEF vars, tree, index, local, latest
    <2> QED
      BY <2>1, ForgettingKeepsHashInv
  <1> QED
    BY <1>1, <1>2, <1>3, <1>4, <1>5, <1>6, <1>7, <1>10, <1>11, <1>12, <1>13,
       <1>14
       DEF Next

(* LatestHashIsCurrent (ADR-0015): whatever scans crash between observing   *)
(* and hashing, lose their lease or are resumed, the hash reuse_latest      *)
(* carries forward is never that of an earlier content.                     *)
THEOREM HashesAreCurrent == Spec => []LatestHashIsCurrent
  <1>1. Typing /\ HashInv => LatestHashIsCurrent
    <2> SUFFICES ASSUME Typing, HashInv, NEW f \in Files, observations[f] # <<>>,
                        Last(f).content = disk[f].content
                 PROVE  Last(f).print \in {0, disk[f].content}
      BY DEF LatestHashIsCurrent
    <2>1. observations[f] \in Seq(Observation) /\ Len(observations[f]) \in 1..Len(observations[f])
      BY EmptySeq DEF Typing
    <2>2. Last(f) \in Observation
      BY <2>1, ElementOfSeq DEF Last
    <2>3. Last(f).print \in Nat /\ disk[f].content \in Nat
      BY <2>2, EntryTyping DEF Observation, Typing
    <2>4. Last(f).print > 0 =>
            Last(f).content <= Last(f).print /\ Last(f).print <= disk[f].content
      BY <2>1 DEF HashInv, PrintsInOrder, Last
    <2> QED
      BY <2>3, <2>4
  <1> QED
    BY <1>1, InitHashInv, NextHashInv, TypingInvariant, BatchInvariant, PTL
       DEF Spec

-----------------------------------------------------------------------------
(* The absence series.  Scans start in the order of their numbers and one   *)
(* after the other, so what the owner of the root observes or declares is   *)
(* later than everything on record.                                         *)
IdleIsUpward ==
    \A q, r \in Scans : q < r /\ pc[q] = "idle" => pc[r] = "idle"

OwnerIsNewest ==
    \A q, r \in Scans : lease.owner = r /\ r < q => pc[q] = "idle"

LastIsStarted ==
    \A f \in Files :
        observations[f] # <<>> => Last(f).run \in Scans /\ pc[Last(f).run] # "idle"

OrderInv == IdleIsUpward /\ OwnerIsNewest /\ LastIsStarted

(* Nobody but start_scan makes a scan start or gives it the root.           *)
LEMMA StartsElsewhere ==
    ASSUME Typing, [Next]_vars, \A r \in Scans : ~Start(r)
    PROVE  /\ \A q \in Scans : pc'[q] = "idle" <=> pc[q] = "idle"
           /\ lease'.owner \in {lease.owner, NoScan}
  <1>1. ASSUME NEW r \in Scans,
               \/ \E f \in Files : Discover(r, f)
               \/ Reconcile(r) \/ Hash(r) \/ Save(r) \/ MarkMissing(r)
        PROVE  /\ \A q \in Scans : pc'[q] = "idle" <=> pc[q] = "idle"
               /\ lease'.owner \in {lease.owner, NoScan}
    <2>1. /\ lease' = lease /\ pc[r] # "idle"
          /\ pc' = pc \/ \E step \in {"hash", "save", "discover", "finish"} :
                            pc' = [pc EXCEPT ![r] = step]
      BY <1>1 DEF Discover, Reconcile, Hash, Save, MarkMissing
    <2> QED
      BY <2>1 DEF Typing
  <1>2. ASSUME NEW r \in Scans, Finish(r) \/ Abort(r) \/ FencedOut(r) \/ Crash(r)
        PROVE  /\ \A q \in Scans : pc'[q] = "idle" <=> pc[q] = "idle"
               /\ lease'.owner \in {lease.owner, NoScan}
    <2>1. /\ lease' \in {lease, Free} /\ pc[r] # "idle"
          /\ pc' = [pc EXCEPT ![r] = "ended"]
      BY <1>2 DEF Finish, Abort, FencedOut, Crash, Works, End, Terminate
    <2> QED
      BY <2>1 DEF Typing, Free
  <1>3. ASSUME NEW r \in Scans, Expire(r) \/ RecoverStale(r)
        PROVE  /\ \A q \in Scans : pc'[q] = "idle" <=> pc[q] = "idle"
               /\ lease'.owner \in {lease.owner, NoScan}
    BY <1>3 DEF Expire, RecoverStale, Terminate, Free, Typing
  <1>4. ASSUME NEW f \in Files, WriteFile(f) \/ RemoveFile(f) \/ RestoreFile(f)
        PROVE  UNCHANGED <<pc, lease>>
    BY <1>4 DEF WriteFile, RemoveFile, RestoreFile, Change
  <1>5. CASE UNCHANGED vars
    BY <1>5 DEF vars
  <1> QED
    BY <1>1, <1>2, <1>3, <1>4, <1>5 DEF Next

(* Only a batch adds an observation, and it is one of the owner of the root *)
(* for the paths of the batch.                                              *)
LEMMA LastElsewhere ==
    ASSUME Typing, [Next]_vars, NEW f \in Files,
           \A r \in Scans : ~(Reconcile(r) /\ f \in InBatch(r))
    PROVE  /\ observations'[f] = <<>> <=> observations[f] = <<>>
           /\ observations[f] # <<>> => Last(f)'.run = Last(f).run
  <1>1. ASSUME NEW r \in Scans, Reconcile(r)
        PROVE  observations'[f] = observations[f]
    BY <1>1, AppendedObservation
  <1>2. ASSUME NEW r \in Scans, Save(r)
        PROVE  /\ observations'[f] = <<>> <=> observations[f] = <<>>
               /\ observations[f] # <<>> => Last(f)'.run = Last(f).run
    <2>0. Typing'
      BY NextTyping
    <2>1. /\ Len(observations'[f]) = Len(observations[f])
          /\ \A i \in 1..Len(observations[f]) :
               observations'[f][i].run = observations[f][i].run
      BY <1>2, SavedObservation
    <2>2. observations[f] \in Seq(Observation) /\ observations'[f] \in Seq(Observation)
      BY <2>0 DEF Typing
    <2>3. observations'[f] = <<>> <=> observations[f] = <<>>
      BY <2>1, <2>2, EmptySeq
    <2>4. observations[f] # <<>> => Len(observations[f]) \in 1..Len(observations[f])
      BY <2>2, EmptySeq
    <2> QED
      BY <2>1, <2>3, <2>4 DEF Last
  <1>3. CASE \A r \in Scans : ~Reconcile(r) /\ ~Save(r)
    BY <1>3, ObservationsElsewhere DEF Last
  <1> QED
    BY <1>1, <1>2, <1>3 DEF Last

(* The order of scans holds in every state.                                 *)
LEMMA NextOrderInv == Typing /\ OrderInv /\ [Next]_vars => OrderInv'
  <1> SUFFICES ASSUME Typing, OrderInv, [Next]_vars
               PROVE  OrderInv'
    OBVIOUS
  <1>0. Scans \subseteq Nat \ {0}
    BY RunsAreScans
  <1>1. ASSUME NEW r \in Scans, Start(r)
        PROVE  OrderInv'
    <2>1. /\ pc' = [pc EXCEPT ![r] = "discover"] /\ pc[r] = "idle"
          /\ \A q \in 1..(r - 1) : pc[q] # "idle"
          /\ lease'.owner = r
          /\ UNCHANGED observations
      BY <1>1 DEF Start, index
    <2>2. \A q \in Scans : q < r => pc[q] # "idle"
      BY <1>0, <2>1
    <2>3. IdleIsUpward'
      BY <1>0, <2>1, <2>2 DEF OrderInv, IdleIsUpward, Typing
    <2>4. OwnerIsNewest'
      BY <1>0, <2>1 DEF OrderInv, IdleIsUpward, OwnerIsNewest, Typing
    <2>5. LastIsStarted'
      BY <2>1 DEF OrderInv, LastIsStarted, Last, Typing
    <2> QED
      BY <2>3, <2>4, <2>5 DEF OrderInv
  <1>2. CASE \A r \in Scans : ~Start(r)
    <2>1. /\ \A q \in Scans : pc'[q] = "idle" <=> pc[q] = "idle"
          /\ lease'.owner \in {lease.owner, NoScan}
      BY <1>2, StartsElsewhere
    <2>2. IdleIsUpward' /\ OwnerIsNewest'
      BY <1>0, <2>1, RunsAreScans DEF OrderInv, IdleIsUpward, OwnerIsNewest
    <2>3. ASSUME NEW f \in Files, observations'[f] # <<>>
          PROVE  Last(f)'.run \in Scans /\ pc'[Last(f)'.run] # "idle"
      <3>1. ASSUME NEW r \in Scans, Reconcile(r), f \in InBatch(r)
            PROVE  Last(f)'.run \in Scans /\ pc'[Last(f)'.run] # "idle"
        <4>1. Last(f)'.run = r /\ pc[r] # "idle"
          BY <3>1, AppendedObservation DEF Reconcile
        <4> QED
          BY <2>1, <4>1
      <3>2. CASE \A r \in Scans : ~(Reconcile(r) /\ f \in InBatch(r))
        BY <2>1, <2>3, <3>2, LastElsewhere DEF OrderInv, LastIsStarted
      <3> QED
        BY <3>1, <3>2
    <2> QED
      BY <2>2, <2>3 DEF OrderInv, LastIsStarted
  <1> QED
    BY <1>1, <1>2

(* Nobody has started, and nothing is observed.                             *)
LEMMA OrderInvariant == Spec => []OrderInv
  <1>1. Init => OrderInv
    BY RunsAreScans
       DEF Init, OrderInv, IdleIsUpward, OwnerIsNewest, LastIsStarted, Free
  <1> QED
    BY <1>1, NextOrderInv, TypingInvariant, PTL DEF Spec

(* What mark_missing writes for a path that its scan has not seen, and that *)
(* it writes nothing for any other.                                         *)
LEMMA MarkedMissing ==
    ASSUME Typing, NotYetDeclared, NEW r \in Scans, MarkMissing(r), NEW f \in Files
    PROVE  /\ f \notin Unseen(r) => /\ records'[f] = records[f]
                                    /\ DeclaredAbsent(f)' = DeclaredAbsent(f)
           /\ f \in Unseen(r) =>
                /\ records'[f].missing = records[f].missing + 1
                /\ records'[f].content = records[f].content
                /\ records'[f].presence \in {"MISSING", "DELETED"}
                /\ DeclaredAbsent(f)' = DeclaredAbsent(f) \cup {r}
                /\ r \notin DeclaredAbsent(f)
           /\ UNCHANGED <<observations, disk, changes, faults, batch, hashed, lease>>
  <1>1. PICK old \in SUBSET Unseen(r) :
          /\ records' = [g \in Files |->
               IF g \in Unseen(r)
               THEN [records[g] EXCEPT
                       !.presence = IF Confirmed(g, old) THEN "DELETED" ELSE "MISSING",
                       !.missing = @ + 1]
               ELSE records[g]]
          /\ runs' = [runs EXCEPT ![r].events = [g \in Files |->
               IF g \in Unseen(r)
               THEN IF Confirmed(g, old) THEN "DELETED" ELSE "MISSING"
               ELSE @[g]]]
    BY DEF MarkMissing
  <1> DEFINE p(g) == IF Confirmed(g, old) THEN "DELETED" ELSE "MISSING"
             e == [g \in Files |-> IF g \in Unseen(r) THEN p(g) ELSE runs[r].events[g]]
  <1>2. /\ f \in Unseen(r) =>
             records'[f] = [records[f] EXCEPT !.presence = p(f),
                                              !.missing = records[f].missing + 1]
        /\ f \notin Unseen(r) => records'[f] = records[f]
        /\ runs' = [runs EXCEPT ![r] = [runs[r] EXCEPT !.events = e]]
    BY <1>1
  <1>3. p(f) \in {"MISSING", "DELETED"}
    OBVIOUS
  <1>4. e[f] = IF f \in Unseen(r) THEN p(f) ELSE runs[r].events[f]
    OBVIOUS
  <1> HIDE DEF p, e
  <1>5. records[f] \in Record /\ runs \in [Scans -> Run]
    BY DEF Typing
  <1>6. f \in Unseen(r) =>
          /\ records'[f].missing = records[f].missing + 1
          /\ records'[f].content = records[f].content
          /\ records'[f].presence = p(f)
    BY <1>2, <1>5 DEF Record
  <1>7. /\ \A q \in Scans \ {r} : runs'[q] = runs[q]
        /\ runs'[r].events = e
    BY <1>2, <1>5 DEF Run
  <1>8. runs[r].events[f] \notin {"MISSING", "DELETED"}
    BY DEF NotYetDeclared, MarkMissing
  <1>9. r \notin DeclaredAbsent(f)
    BY <1>8 DEF DeclaredAbsent
  <1>10. f \in Unseen(r) => DeclaredAbsent(f)' = DeclaredAbsent(f) \cup {r}
    BY <1>3, <1>4, <1>7 DEF DeclaredAbsent
  <1>11. f \notin Unseen(r) => DeclaredAbsent(f)' = DeclaredAbsent(f)
    BY <1>4, <1>7 DEF DeclaredAbsent
  <1>12. UNCHANGED <<observations, disk, changes, faults, batch, hashed, lease>>
    BY DEF MarkMissing, tree, local
  <1> QED
    BY <1>2, <1>3, <1>6, <1>9, <1>10, <1>11, <1>12

(* What process_batch writes: a seen path is PRESENT and its series ended.  *)
LEMMA ReconciledRecord ==
    ASSUME Typing, NotYetDeclared, NEW r \in Scans, Reconcile(r), NEW f \in Files
    PROVE  /\ DeclaredAbsent(f)' = DeclaredAbsent(f)
           /\ f \notin InBatch(r) => records'[f] = records[f]
           /\ f \in InBatch(r) => /\ records'[f].missing = 0
                                  /\ records'[f].content = batch[r][f]
                                  /\ records'[f].presence = "PRESENT"
           /\ UNCHANGED <<disk, changes, faults, batch, hashed, lease>>
  <1> DEFINE e == [g \in Files |->
                     IF g \in InBatch(r) THEN ChangeState(records[g], batch[r][g])
                     ELSE runs[r].events[g]]
  <1>1. runs' = [runs EXCEPT ![r] = [runs[r] EXCEPT !.events = e]]
    BY DEF Reconcile
  <1>2. e[f] \in {ChangeState(records[f], batch[r][f]), runs[r].events[f]}
    OBVIOUS
  <1> HIDE DEF e
  <1>3. /\ \A q \in Scans \ {r} : runs'[q] = runs[q]
        /\ runs'[r].events = e
    BY <1>1 DEF Typing, Run
  <1>4. ChangeState(records[f], batch[r][f]) \notin {"MISSING", "DELETED"}
    BY DEF ChangeState
  <1>5. runs[r].events[f] \notin {"MISSING", "DELETED"}
    BY DEF NotYetDeclared, Reconcile
  <1>6. DeclaredAbsent(f)' = DeclaredAbsent(f)
    BY <1>2, <1>3, <1>4, <1>5 DEF DeclaredAbsent
  <1>7. /\ f \notin InBatch(r) => records'[f] = records[f]
        /\ f \in InBatch(r) => records'[f] = Reconciled(records[f], batch[r][f])
        /\ UNCHANGED <<disk, changes, faults, batch, hashed, lease>>
    BY DEF Reconcile, tree, local
  <1> QED
    BY <1>6, <1>7 DEF Reconciled

(* Records and declarations change in these two transactions only.          *)
LEMMA RecordsElsewhere ==
    ASSUME Typing, [Next]_vars, NEW f \in Files,
           \A r \in Scans : ~Reconcile(r) /\ ~MarkMissing(r)
    PROVE  records' = records /\ DeclaredAbsent(f)' = DeclaredAbsent(f)
  <1>1. ASSUME NEW r \in Scans, Start(r) \/ Finish(r) \/ Abort(r) \/ RecoverStale(r)
        PROVE  records' = records /\ DeclaredAbsent(f)' = DeclaredAbsent(f)
    <2>1. /\ \E st : runs' = [runs EXCEPT ![r].status = st]
          /\ records' = records
      BY <1>1 DEF Start, Finish, Abort, RecoverStale, Terminate, index
    <2>2. \A q \in Scans : runs'[q].events = runs[q].events
      BY <2>1 DEF Typing, Run
    <2> QED
      BY <2>1, <2>2 DEF DeclaredAbsent
  <1>2. ASSUME NEW r \in Scans,
               \/ \E g \in Files : Discover(r, g)
               \/ Hash(r) \/ Save(r) \/ FencedOut(r) \/ Crash(r) \/ Expire(r)
        PROVE  UNCHANGED <<records, runs>>
    BY <1>2 DEF Discover, Hash, Save, FencedOut, Crash, Expire, index
  <1>3. ASSUME NEW g \in Files, WriteFile(g) \/ RemoveFile(g) \/ RestoreFile(g)
        PROVE  UNCHANGED <<records, runs>>
    BY <1>3 DEF WriteFile, RemoveFile, RestoreFile, Change, index
  <1>4. CASE UNCHANGED vars
    BY <1>4 DEF vars, index, DeclaredAbsent
  <1> QED
    BY <1>1, <1>2, <1>3, <1>4 DEF Next, DeclaredAbsent

(* The scans that have declared a path absent are finitely many.            *)
LEMMA DeclaredIsFinite ==
    ASSUME NEW D \in SUBSET Scans
    PROVE  /\ IsFiniteSet(D) /\ Cardinality(D) \in Nat
           /\ Cardinality(D) <= MaxScans
           /\ \A r \in Scans \ D : Cardinality(D \cup {r}) = Cardinality(D) + 1
  <1>1. IsFiniteSet(Scans) /\ Cardinality(Scans) = MaxScans
    BY FS_Interval, ScanAssumption DEF Scans
  <1>2. IsFiniteSet(D) /\ Cardinality(D) <= MaxScans
    BY <1>1, FS_Subset
  <1> QED
    BY <1>2, FS_CardinalityType, FS_AddElement

(* One step keeps the series of one path: seeing it starts the series anew, *)
(* mark_missing adds the newest scan to it, and nothing else touches it.    *)
LEMMA SeriesOfOnePath ==
    ASSUME Typing, OrderInv, AbsenceInv, AbsenceInv', OrderInv',
           SeriesSinceLastSeen, [Next]_vars,
           NEW f \in Files, observations'[f] # <<>>
    PROVE  records'[f].missing =
                          Cardinality({r \in DeclaredAbsent(f)' : r > Last(f)'.run})
  <1> DEFINE Since == {q \in DeclaredAbsent(f) : q > Last(f).run}
             Since2 == {q \in DeclaredAbsent(f)' : q > Last(f)'.run}
  <1>0. NotYetDeclared /\ NotYetDeclared'
    BY DEF AbsenceInv
  <1>1. ASSUME observations[f] # <<>>
        PROVE  records[f].missing = Cardinality(Since)
    BY <1>1 DEF SeriesSinceLastSeen
  <1>2. ASSUME NEW r \in Scans, Reconcile(r), f \in InBatch(r)
        PROVE  records'[f].missing = Cardinality(Since2)
    <2>1. records'[f].missing = 0 /\ Last(f)'.run = r /\ lease'.owner = r
      BY <1>0, <1>2, ReconciledRecord, AppendedObservation DEF Reconcile, Owns
    <2>2. \A q \in Scans : r < q => q \notin DeclaredAbsent(f)'
      BY <1>0, <2>1 DEF OrderInv, OwnerIsNewest, NotYetDeclared, DeclaredAbsent
    <2>3. Since2 = {}
      BY <2>1, <2>2, RunsAreScans DEF DeclaredAbsent
    <2> QED
      BY <2>1, <2>3, FS_EmptySet
  <1>3. ASSUME NEW r \in Scans, MarkMissing(r), f \in Unseen(r)
        PROVE  records'[f].missing = Cardinality(Since2)
    <2>1. /\ records'[f].missing = records[f].missing + 1
          /\ DeclaredAbsent(f)' = DeclaredAbsent(f) \cup {r}
          /\ r \notin DeclaredAbsent(f)
          /\ UNCHANGED observations
      BY <1>0, <1>3, MarkedMissing
    <2>2. Last(f)' = Last(f)
      BY <2>1 DEF Last
    <2>3. Last(f).run \in Scans /\ pc[Last(f).run] # "idle"
      BY <2>1 DEF OrderInv, LastIsStarted
    <2>4. Last(f).run # r
      <3>1. observations[f] \in Seq(Observation) /\ observations[f] # <<>>
        BY <2>1 DEF Typing
      <3>2. Len(observations[f]) \in 1..Len(observations[f])
        BY <3>1, EmptySeq
      <3> QED
        BY <1>3, <3>2 DEF Unseen, ObservedIn, Last
    <2>5. Last(f).run < r
      <3>1. lease.owner = r /\ ~(r < Last(f).run)
        BY <1>3, <2>3 DEF OrderInv, OwnerIsNewest, MarkMissing, Owns
      <3> QED
        BY <1>3, <2>3, <2>4, <3>1, RunsAreScans
    <2>6. Since2 = Since \cup {r} /\ r \notin Since /\ Since \subseteq Scans
      BY <2>1, <2>2, <2>5 DEF DeclaredAbsent
    <2> HIDE DEF Since, Since2
    <2>7. Cardinality(Since2) = Cardinality(Since) + 1
      BY <2>6, DeclaredIsFinite
    <2> QED
      BY <1>1, <2>1, <2>7
  <1>4. CASE /\ \A r \in Scans : ~(Reconcile(r) /\ f \in InBatch(r))
             /\ \A r \in Scans : ~(MarkMissing(r) /\ f \in Unseen(r))
    <2>1. records'[f] = records[f] /\ DeclaredAbsent(f)' = DeclaredAbsent(f)
      BY <1>0, <1>4, ReconciledRecord, MarkedMissing, RecordsElsewhere
    <2>2. observations[f] # <<>> /\ Last(f)'.run = Last(f).run
      BY <1>4, LastElsewhere
    <2> QED
      BY <1>1, <2>1, <2>2
  <1> QED
    BY <1>2, <1>3, <1>4

(* SeriesSinceLastSeen: for any number of scans, stopped, killed or fenced  *)
(* out anywhere, a record counts exactly the scans that declared its file   *)
(* absent (mark_missing) since it was last seen, those among them included  *)
(* that failed afterwards.                                                  *)
THEOREM SeriesIsTrue == Spec => []SeriesSinceLastSeen
  <1>1. Init => SeriesSinceLastSeen
    BY DEF Init, SeriesSinceLastSeen
  <1>2. Typing /\ OrderInv /\ AbsenceInv /\ AbsenceInv' /\ OrderInv'
          /\ SeriesSinceLastSeen /\ [Next]_vars => SeriesSinceLastSeen'
    <2> SUFFICES ASSUME Typing, OrderInv, AbsenceInv, AbsenceInv', OrderInv',
                        SeriesSinceLastSeen, [Next]_vars,
                        NEW f \in Files, observations'[f] # <<>>
                 PROVE  records'[f].missing =
                          Cardinality({r \in DeclaredAbsent(f)' : r > Last(f)'.run})
      BY DEF SeriesSinceLastSeen
    <2> QED
      BY SeriesOfOnePath
  <1> QED
    BY <1>1, <1>2, TypingInvariant, OrderInvariant, AbsenceInvariant, PTL
       DEF Spec

-----------------------------------------------------------------------------
(* TypeOK.  Its bounds follow from the guards of the tree and of the faults,*)
(* from the order of contents, and from the length of the absence series.   *)
Counters ==
    /\ changes \in Nat /\ changes <= MaxChanges
    /\ faults \in Nat /\ faults <= MaxFaults
    /\ \A f \in Files : disk[f].content <= 1 + changes

HashedIsOnDisk == \A r \in Scans, f \in Files : hashed[r][f] <= disk[f].content

SeriesMarksAbsence ==
    \A f \in Files :
        /\ records[f].content <= disk[f].content
        /\ records[f].missing = 0 <=> records[f].presence \in {"NONE", "PRESENT"}

(* A change of the tree writes one path once; nobody else writes there.     *)
LEMMA TreeStep ==
    ASSUME Typing, Counters, [Next]_vars
    PROVE  /\ changes' \in Nat /\ changes' <= MaxChanges
           /\ \A f \in Files : /\ disk'[f].content <= 1 + changes'
                               /\ disk[f].content <= disk'[f].content
  <1>0. \A f \in Files : disk[f] \in Entry /\ disk[f].content \in Nat \ {0}
    BY EntryTyping DEF Typing
  <1>1. ASSUME NEW g \in Files, NEW entry \in Entry, Change(g, entry),
               entry.content \in {disk[g].content, disk[g].content + 1}
        PROVE  /\ changes' \in Nat /\ changes' <= MaxChanges
               /\ \A f \in Files : /\ disk'[f].content <= 1 + changes'
                                   /\ disk[f].content <= disk'[f].content
    <2>1. /\ changes < MaxChanges /\ changes' = changes + 1
          /\ disk' = [disk EXCEPT ![g] = entry]
      BY <1>1 DEF Change
    <2>2. changes' \in Nat /\ changes' <= MaxChanges
      BY <2>1, ScanAssumption DEF Counters
    <2>3. \A f \in Files : disk'[f] = IF f = g THEN entry ELSE disk[f]
      BY <2>1 DEF Typing
    <2>4. changes' = changes + 1 /\ changes \in Nat
      BY <2>1 DEF Counters
    <2> QED
      BY <1>0, <1>1, <2>2, <2>3, <2>4 DEF Counters
  <1>2. ASSUME NEW g \in Files, WriteFile(g)
        PROVE  \E entry \in Entry : /\ Change(g, entry)
                                    /\ entry.content = disk[g].content + 1
    BY <1>0, <1>2, EntryTyping DEF WriteFile
  <1>3. ASSUME NEW g \in Files, RemoveFile(g) \/ RestoreFile(g)
        PROVE  \E entry \in Entry : Change(g, entry) /\ entry.content = disk[g].content
    <2>1. PICK b \in BOOLEAN : Change(g, [disk[g] EXCEPT !.here = b])
      BY <1>3 DEF RemoveFile, RestoreFile
    <2>2. /\ [disk[g] EXCEPT !.here = b] \in Entry
          /\ [disk[g] EXCEPT !.here = b].content = disk[g].content
      BY <1>0, EntryTyping DEF Entry
    <2> QED
      BY <2>1, <2>2
  <1>4. CASE \A g \in Files : ~WriteFile(g) /\ ~RemoveFile(g) /\ ~RestoreFile(g)
    <2>1. UNCHANGED tree
      BY <1>4
         DEF Next, vars, Start, Discover, Reconcile, Hash, Save, MarkMissing,
         Finish, Abort, FencedOut, Crash, Expire, RecoverStale
    <2> QED
      BY <1>0, <2>1 DEF tree, Counters
  <1> QED
    BY <1>1, <1>2, <1>3, <1>4

(* Faults are counted and bounded.                                          *)
LEMMA FaultStep ==
    ASSUME Counters, [Next]_vars
    PROVE  faults' \in Nat /\ faults' <= MaxFaults
  <1>1. faults' = faults \/ (faults < MaxFaults /\ faults' = faults + 1)
    BY DEF Next, vars, WriteFile, RemoveFile, RestoreFile, Change, Start,
           Discover,
       Reconcile, Hash, Save, MarkMissing, Finish, Abort, FencedOut, Crash, Expire,
       RecoverStale, Fault
  <1> QED
    BY <1>1, ScanAssumption DEF Counters

(* What a scan is about to save was on disk, now or when it was read.       *)
LEMMA NextHashedIsOnDisk ==
    ASSUME Typing, Counters, HashInv, HashedIsOnDisk, [Next]_vars
    PROVE  HashedIsOnDisk'
  <1>0. \A f \in Files : /\ disk[f].content \in Nat \ {0}
                         /\ disk'[f].content \in Nat \ {0}
                         /\ disk[f].content <= disk'[f].content
    BY NextTyping, TreeStep, EntryTyping DEF Typing
  <1>1. ASSUME NEW r \in Scans, Hash(r)
        PROVE  HashedIsOnDisk'
    <2>1. PICK unreadable \in SUBSET InBatch(r), again \in SUBSET InBatch(r) :
            hashed' = [hashed EXCEPT ![r] = [f \in Files |->
              CASE f \notin InBatch(r) -> 0
                [] f \in InBatch(r) /\ runs[r].events[f] = "UNCHANGED"
                   /\ f \notin again /\ Reusable(f) > 0 -> Reusable(f)
                [] OTHER -> IF f \in unreadable \/ ~disk[f].here THEN 0
                            ELSE disk[f].content]]
      BY <1>1 DEF Hash
    <2>2. disk' = disk
      BY <1>1 DEF Hash, tree
    <2>3. ASSUME NEW f \in Files
          PROVE  Reusable(f) \in Nat /\ Reusable(f) <= disk[f].content
      <3> DEFINE n == Len(observations[f])
      <3>1. /\ n \in Nat
            /\ \A i \in 1..n : observations[f][i] \in Observation
        BY LenProperties, ElementOfSeq DEF Typing
      <3>2. CASE n < 2
        BY <1>0, <3>2 DEF Reusable
      <3>3. CASE n >= 2
        <4>1. n - 1 \in 1..n /\ Reusable(f) = observations[f][n - 1].print
          BY <3>1, <3>3 DEF Reusable
        <4>2. observations[f][n - 1].print \in Nat
          BY <3>1, <4>1 DEF Observation
        <4> QED
          BY <1>0, <4>1, <4>2 DEF HashInv, PrintsInOrder
      <3> QED
        BY <3>1, <3>2, <3>3
    <2>4. \A f \in Files : hashed'[r][f] \in {0, Reusable(f), disk[f].content}
      BY <2>1 DEF Typing
    <2>5. \A q \in Scans \ {r} : hashed'[q] = hashed[q]
      BY <2>1 DEF Typing
    <2> QED
      BY <1>0, <2>2, <2>3, <2>4, <2>5 DEF HashedIsOnDisk
  <1>2. CASE \A r \in Scans : ~Hash(r)
    <2>1. hashed' = hashed \/ \E r \in Scans : hashed' = [hashed EXCEPT ![r] = Nothing]
      BY <1>2
         DEF Next, vars, local, WriteFile, RemoveFile, RestoreFile, Change,
             Start,
         Discover, Reconcile, Save, MarkMissing, Finish, Abort, FencedOut, Crash, End,
         Expire, RecoverStale
    <2>2. \A q \in Scans, f \in Files : hashed'[q][f] \in {0, hashed[q][f]}
      <3>1. CASE hashed' = hashed
        BY <3>1
      <3>2. ASSUME NEW r \in Scans, hashed' = [hashed EXCEPT ![r] = Nothing]
            PROVE  \A q \in Scans, f \in Files : hashed'[q][f] \in {0, hashed[q][f]}
        <4>1. \A q \in Scans : hashed'[q] = IF q = r THEN Nothing ELSE hashed[q]
          BY <3>2 DEF Typing
        <4>2. \A f \in Files : Nothing[f] = 0
          BY DEF Nothing
        <4> QED
          BY <4>1, <4>2
      <3> QED
        BY <2>1, <3>1, <3>2
    <2>3. \A q \in Scans, f \in Files : hashed[q][f] \in Nat
      BY DEF Typing
    <2> QED
      BY <1>0, <2>2, <2>3 DEF HashedIsOnDisk
  <1> QED
    BY <1>1, <1>2

(* A record starts a series when its file is declared absent and ends it    *)
(* when the file is seen.                                                   *)
LEMMA NextSeriesMarksAbsence ==
    ASSUME Typing, NotYetDeclared, Counters, HashInv, SeriesMarksAbsence, [Next]_vars
    PROVE  SeriesMarksAbsence'
  <1> SUFFICES ASSUME NEW f \in Files
               PROVE  /\ records'[f].content <= disk'[f].content
                      /\ records'[f].missing = 0
                           <=> records'[f].presence \in {"NONE", "PRESENT"}
    BY DEF SeriesMarksAbsence
  <1>0. /\ disk[f].content \in Nat /\ disk'[f].content \in Nat
        /\ disk[f].content <= disk'[f].content
        /\ records[f].content \in Nat /\ records[f].missing \in Nat
    BY NextTyping, TreeStep, EntryTyping DEF Typing, Record
  <1>1. ASSUME records'[f] = records[f]
        PROVE  /\ records'[f].content <= disk'[f].content
               /\ records'[f].missing = 0
                    <=> records'[f].presence \in {"NONE", "PRESENT"}
    BY <1>0, <1>1 DEF SeriesMarksAbsence
  <1>2. ASSUME NEW r \in Scans, Reconcile(r), f \in InBatch(r)
        PROVE  /\ records'[f].content <= disk'[f].content
               /\ records'[f].missing = 0
                    <=> records'[f].presence \in {"NONE", "PRESENT"}
    <2>1. /\ records'[f].missing = 0 /\ records'[f].content = batch[r][f]
          /\ records'[f].presence = "PRESENT"
      BY <1>2, ReconciledRecord
    <2>2. batch[r][f] \in Nat /\ batch[r][f] <= disk[f].content
      BY DEF Typing, HashInv, BatchIsListed
    <2> QED
      BY <1>0, <2>1, <2>2
  <1>3. ASSUME NEW r \in Scans, MarkMissing(r), f \in Unseen(r)
        PROVE  /\ records'[f].content <= disk'[f].content
               /\ records'[f].missing = 0
                    <=> records'[f].presence \in {"NONE", "PRESENT"}
    <2>1. /\ records'[f].missing = records[f].missing + 1
          /\ records'[f].content = records[f].content
          /\ records'[f].presence \in {"MISSING", "DELETED"}
      BY <1>3, MarkedMissing
    <2> QED
      BY <1>0, <2>1 DEF SeriesMarksAbsence
  <1>4. \/ records'[f] = records[f]
        \/ \E r \in Scans : Reconcile(r) /\ f \in InBatch(r)
        \/ \E r \in Scans : MarkMissing(r) /\ f \in Unseen(r)
    BY ReconciledRecord, MarkedMissing, RecordsElsewhere
  <1> QED
    BY <1>1, <1>2, <1>3, <1>4

(* The typed state within its bounds is TypeOK.                             *)
LEMMA WithinBounds ==
    ASSUME Typing, Counters, HashInv, HashedIsOnDisk, SeriesMarksAbsence,
           SeriesSinceLastSeen
    PROVE  TypeOK
  <1>0. ASSUME NEW n \in Nat, NEW f \in Files, n <= disk[f].content
        PROVE  n \in Contents
    <2>1. disk[f].content \in Nat /\ disk[f].content <= 1 + changes
      BY EntryTyping DEF Counters, Typing
    <2>2. changes \in Nat /\ changes <= MaxChanges /\ MaxChanges \in Nat
      BY ScanAssumption DEF Counters
    <2> QED
      BY <1>0, <2>1, <2>2 DEF Contents
  <1>1. disk \in [Files -> [content : Contents, here : BOOLEAN]]
    <2>1. ASSUME NEW f \in Files
          PROVE  disk[f] \in Entry /\ disk[f].content \in Contents
      <3>1. disk[f] \in Entry /\ disk[f].content \in Nat
        BY EntryTyping DEF Typing
      <3> QED
        BY <1>0, <3>1
    <2>2. \A f \in Files : disk[f] \in [content : Contents, here : BOOLEAN]
      BY <2>1 DEF Entry
    <2> QED
      BY <2>2 DEF Typing
  <1>2. changes \in 0..MaxChanges /\ faults \in 0..MaxFaults
    BY ScanAssumption DEF Counters
  <1>3. \A f \in Files : records[f].missing \in 0..MaxScans
    <2> SUFFICES ASSUME NEW f \in Files PROVE records[f].missing \in 0..MaxScans
      OBVIOUS
    <2>0. records[f].missing \in Nat
      BY DEF Typing, Record
    <2>1. CASE observations[f] = <<>>
      <3>1. records[f].missing = 0
        BY <2>1 DEF HashInv, RecordIsLastObservation, SeriesMarksAbsence
      <3> QED
        BY <3>1, ScanAssumption
    <2>2. CASE observations[f] # <<>>
      <3> DEFINE D == {r \in DeclaredAbsent(f) : r > Last(f).run}
      <3>1. records[f].missing = Cardinality(D)
        BY <2>2 DEF SeriesSinceLastSeen
      <3>2. D \in SUBSET Scans
        BY DEF DeclaredAbsent
      <3> HIDE DEF D
      <3>3. Cardinality(D) <= MaxScans
        BY <3>2, DeclaredIsFinite
      <3> QED
        BY <2>0, <3>1, <3>3, ScanAssumption
    <2> QED
      BY <2>1, <2>2
  <1>4. records \in [Files -> [presence : Presences, content : Contents,
                               missing : 0..MaxScans]]
    <2>1. \A f \in Files : records[f] \in Record /\ records[f].content \in Contents
      BY <1>0 DEF Typing, Record, SeriesMarksAbsence
    <2>2. \A f \in Files : records[f] \in [presence : Presences, content : Contents,
                                           missing : 0..MaxScans]
      BY <1>3, <2>1 DEF Record
    <2> QED
      BY <2>2 DEF Typing
  <1>5. \A f \in Files : observations[f] \in
          Seq([run : Scans, content : Contents \ {0}, print : Contents])
    <2> SUFFICES ASSUME NEW f \in Files
                 PROVE  observations[f] \in
                          Seq([run : Scans, content : Contents \ {0}, print : Contents])
      OBVIOUS
    <2> DEFINE s == observations[f]
               Observed == [run : Scans, content : Contents \ {0}, print : Contents]
    <2>1. /\ s \in Seq(Observation) /\ Len(s) \in Nat
          /\ \A i \in 1..Len(s) : s[i] \in Observation
      BY LenProperties, ElementOfSeq DEF Typing
    <2>2. ASSUME NEW i \in 1..Len(s)
          PROVE  s[i] \in Observed
      <3>1. s[i].content \in Nat \ {0} /\ s[i].print \in Nat
        BY <2>1 DEF Observation
      <3>2. /\ s[i].content <= disk[f].content
            /\ s[i].print > 0 => s[i].print <= disk[f].content
        BY DEF HashInv, PrintsInOrder
      <3>3. disk[f].content \in Nat
        BY EntryTyping DEF Typing
      <3>4. s[i].content \in Contents \ {0} /\ s[i].print \in Contents
        BY <1>0, <3>1, <3>2, <3>3
      <3>5. s[i] \in Observation
        BY <2>1
      <3> HIDE DEF s
      <3> QED
        BY <3>4, <3>5 DEF Observation
    <2>3. s = [i \in 1..Len(s) |-> s[i]]
      BY <2>1
    <2> HIDE DEF s, Observed
    <2>4. s \in Seq(Observed)
      BY <2>1, <2>2, <2>3, IsASeq
    <2> QED
      BY <2>4 DEF s, Observed
  <1>6. batch \in [Scans -> [Files -> Contents]] /\ hashed \in [Scans -> [Files -> Contents]]
    <2>1. ASSUME NEW r \in Scans, NEW f \in Files
          PROVE  batch[r][f] \in Contents /\ hashed[r][f] \in Contents
      <3>1. batch[r][f] \in Nat /\ hashed[r][f] \in Nat
        BY DEF Typing
      <3>2. batch[r][f] <= disk[f].content /\ hashed[r][f] <= disk[f].content
        BY DEF HashInv, BatchIsListed, HashedIsOnDisk
      <3> QED
        BY <1>0, <3>1, <3>2
    <2>2. \A r \in Scans : batch[r] \in [Files -> Contents] /\ hashed[r] \in [Files -> Contents]
      BY <2>1 DEF Typing
    <2> QED
      BY <2>2 DEF Typing
  <1>7. lease \in [owner : 0..MaxScans, expired : BOOLEAN]
    <2>1. Scans \cup {NoScan} = 0..MaxScans
      BY ScanAssumption DEF Scans, NoScan
    <2> QED
      BY <2>1 DEF Typing
  <1>8. \A f \in Files :
          records[f].missing = 0 <=> records[f].presence \in {"NONE", "PRESENT"}
    BY DEF SeriesMarksAbsence
  <1> QED
    BY <1>1, <1>2, <1>4, <1>5, <1>6, <1>7, <1>8
       DEF TypeOK, Typing, Run, Events, Presences

(* TypeOK, with the bounds: in particular a record has an absence series    *)
(* exactly when its file is MISSING or DELETED.                             *)
THEOREM TypeCorrect == Spec => []TypeOK
  <1>1. Init => Counters /\ HashedIsOnDisk /\ SeriesMarksAbsence
    BY ScanAssumption
       DEF Init, Counters, HashedIsOnDisk, SeriesMarksAbsence, Nothing, NoRecord
  <1>2. ASSUME Typing, Counters, [Next]_vars
        PROVE  Counters'
    BY <1>2, TreeStep, FaultStep DEF Counters
  <1>3. ASSUME Typing, AbsenceInv, Counters, HashInv, HashedIsOnDisk,
               SeriesMarksAbsence, [Next]_vars
        PROVE  HashedIsOnDisk' /\ SeriesMarksAbsence'
    BY <1>3, NextHashedIsOnDisk, NextSeriesMarksAbsence DEF AbsenceInv
  <1>4. Typing /\ Counters /\ HashInv /\ HashedIsOnDisk /\ SeriesMarksAbsence
          /\ SeriesSinceLastSeen => TypeOK
    BY WithinBounds
  <1> QED
    BY <1>1, <1>2, <1>3, <1>4, InitHashInv, NextHashInv, TypingInvariant,
       BatchInvariant,
       AbsenceInvariant, SeriesIsTrue, PTL DEF Spec
=============================================================================
