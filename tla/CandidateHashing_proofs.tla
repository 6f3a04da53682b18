----------------------- MODULE CandidateHashing_proofs -----------------------
(***************************************************************************)
(* For any number of files, calls, scans, changes and faults: a full hash  *)
(* that enrich() stored is that of the listing it hangs on, one that a     *)
(* scan stored is so as long as the file is as listed, no listing gets a   *)
(* second one, a run that has the lease works on the latest scan, and its  *)
(* counters agree with the evidence.                                       *)
(*                                                                         *)
(* A hash is right because the number of a change is used once: equal      *)
(* numbers mean equal bytes, on disk and in every listing, so what was     *)
(* read is what was listed if the number is the same before and after.     *)
(* It is the only one because the files a call still has before it are     *)
(* without a hash as long as it has the lease, which it took before it     *)
(* chose them.                                                             *)
(***************************************************************************)
EXTENDS CandidateHashing, FiniteSetTheorems, TLAPS

Statuses == {"NOT_STARTED", "RUNNING", "COMPLETED", "FAILED"}
Steps == {"none", "due", "open", "read", "ok", "failed"}

Row == [rows : Nat, value : Bytes \cup {None}, by : {"nobody", "scan", "enrich"}]

(* The types the argument needs; the counters have theirs further down.    *)
Shape ==
    /\ disk \in [Files -> [bytes : Bytes, change : Nat]]
    /\ changes \in Nat /\ scans \in 0..MaxScans
    /\ scan \in [Scans -> Statuses]
    /\ obs \in [Scans -> [Files -> [bytes : Bytes \cup {None}, change : Nat]]]
    /\ full \in [Scans -> [Files -> Row]]
    /\ lease \in [owner : Call \cup {Scanner, None}, expired : BOOLEAN]
CallShape ==
    /\ source \in [Call -> 0..MaxScans] /\ latest \in [Call -> 0..MaxScans]
    /\ pc \in [Call -> {"idle", "acquire", "snapshot", "select", "next", "hash",
                        "finish", "failed", "interrupted"}]
    /\ left \in [Call -> SUBSET Files]
    /\ work \in [Call -> [Files -> [step : Steps, value : Bytes \cup {None}]]]

(* Scans follow each other, and the scanner has the lease while one runs.  *)
ScansAreOrdered ==
    /\ \A s \in Scans : s > scans => scan[s] = "NOT_STARTED"
    /\ lease.owner = Scanner => scans \in Scans /\ scan[scans] = "RUNNING"

(* The number of a change stands for the bytes it wrote.                   *)
ChangesNameBytes ==
    /\ \A f \in Files : disk[f].change <= changes
    /\ \A s \in Scans, f \in Files : obs[s][f].change <= changes
    /\ \A s \in Scans, f \in Files :
          obs[s][f].change = disk[f].change => obs[s][f].bytes = disk[f].bytes
    /\ \A s, t \in Scans, f \in Files :
          obs[s][f].change = obs[t][f].change => obs[s][f].bytes = obs[t][f].bytes

(* A call works on a completed scan, and has nothing in hand before it has *)
(* chosen its files.                                                       *)
CallsHaveAScan ==
    \A h \in Call :
        /\ source[h] # 0 => scan[source[h]] = "COMPLETED"
        /\ pc[h] \notin {"idle", "acquire"} => source[h] # 0
        /\ pc[h] \in {"idle", "acquire", "snapshot"} =>
              left[h] = {} /\ \A f \in Files : work[h][f].step = "none"
        /\ \A f \in left[h] : work[h][f].step = "none"

(* What a call has read is what was listed, if it is still unchanged.      *)
WorkIsOfTheListing ==
    \A h \in Call, f \in Files :
        /\ work[h][f].step = "ok" => work[h][f].value = obs[source[h]][f].bytes
        /\ work[h][f].step = "read" /\ AsObserved(h, f)
              => work[h][f].value = obs[source[h]][f].bytes

OnlyCompletedScansAreHashed ==
    \A s \in Scans, f \in Files : full[s][f].rows > 0 => scan[s] = "COMPLETED"

(* What the owner of the lease still has before it is without a hash.      *)
DueFilesHaveNoHash ==
    \A h \in Call, f \in Files :
        lease.owner = h /\ (f \in left[h] \/ work[h][f].step # "none")
            => full[source[h]][f].rows = 0

ListInv ==
    /\ Shape /\ ScansAreOrdered /\ ChangesNameBytes
    /\ OnlyCompletedScansAreHashed

CallInv ==
    /\ CallShape /\ CallsHaveAScan /\ SourceStaysLatest /\ WorkIsOfTheListing

HashInv ==
    /\ FullHashIsOfTheListing /\ OneFullHashPerObservation /\ DueFilesHaveNoHash

(* The scans before a scan are scans.                                      *)
LEMMA EarlierScans ==
    ASSUME NEW s \in Scans
    PROVE  1..(s - 1) \subseteq Scans
  BY HashingAssumption DEF Scans

(* The effect of Acquire without its counters and status.                  *)
AcquireEffect(c) ==
    /\ UNCHANGED <<disk, changes, scans, scan, obs, full>>
    /\ pc[c] = "acquire"
    /\ \/ /\ lease.owner # Scanner /\ LatestCompleted(latest[c])
          /\ source' = [source EXCEPT ![c] = latest[c]]
          /\ lease' = [owner |-> c, expired |-> FALSE]
          /\ pc' = [pc EXCEPT ![c] = "snapshot"]
          /\ UNCHANGED <<latest, left, work>>
       \/ /\ UNCHANGED <<lease, source>>
          /\ pc' = [pc EXCEPT ![c] = "idle"]
          /\ latest' = [latest EXCEPT ![c] = 0]
          /\ left' = [left EXCEPT ![c] = {}]
          /\ work' = [work EXCEPT ![c] = NoWork]

(* The effect of NextCandidates without its counters and status.           *)
NextCandidatesEffect(c) ==
    /\ UNCHANGED <<disk, changes, scans, scan, obs, full, lease, source, latest>>
    /\ pc[c] = "next"
    /\ \/ /\ pc' = [pc EXCEPT ![c] = "failed"]
          /\ UNCHANGED <<left, work>>
       \/ \E batch \in SUBSET left[c], p \in {"finish", "hash"} :
             /\ pc' = [pc EXCEPT ![c] = p]
             /\ left' = [left EXCEPT ![c] = left[c] \ batch]
             /\ work' = [work EXCEPT ![c] = [f \in Files |->
                   [step |-> IF f \in batch THEN "due" ELSE "none", value |-> None]]]

(* The effect of OpenFile without its counters and status.                 *)
OpenFileEffect(c, g) ==
    /\ UNCHANGED <<disk, changes, scans, scan, obs, full, lease, source, latest, pc, left>>
    /\ pc[c] = "hash" /\ work[c][g].step = "due"
    /\ \E step \in {"open", "failed"} :
          work' = [work EXCEPT ![c][g] = [step |-> step, value |-> None]]

(* The effect of CloseFile without its counters and status.                *)
CloseFileEffect(c, g) ==
    /\ UNCHANGED <<disk, changes, scans, scan, obs, full, lease, source, latest, pc, left>>
    /\ pc[c] = "hash" /\ work[c][g].step = "read"
    /\ \/ /\ AsObserved(c, g)
          /\ work' = [work EXCEPT ![c][g] = [step |-> "ok", value |-> work[c][g].value]]
       \/ work' = [work EXCEPT ![c][g] = [step |-> "failed", value |-> None]]

(* The effect of CommitBatch without its counters and status.              *)
CommitBatchEffect(c) ==
    /\ UNCHANGED <<disk, changes, scans, scan, obs, lease, source, latest, left>>
    /\ pc[c] = "hash"
    /\ work' = [work EXCEPT ![c] = NoWork]
    /\ \/ /\ lease.owner = c
          /\ pc' = [pc EXCEPT ![c] = "next"]
          /\ full' = [full EXCEPT ![source[c]] = [f \in Files |->
                IF f \in InBatch(c, "ok")
                THEN [rows |-> full[source[c]][f].rows + 1, value |-> work[c][f].value, by |-> "enrich"]
                ELSE full[source[c]][f]]]
       \/ /\ pc' = [pc EXCEPT ![c] = "failed"]
          /\ UNCHANGED full

(* The effect of Finish without its counters and status.                   *)
FinishEffect(c) ==
    /\ UNCHANGED <<disk, changes, scans, scan, obs, full, source>>
    /\ pc[c] = "finish"
    /\ \/ /\ lease.owner = c
          /\ lease' = Free
          /\ pc' = [pc EXCEPT ![c] = "idle"]
          /\ latest' = [latest EXCEPT ![c] = 0]
          /\ left' = [left EXCEPT ![c] = {}]
          /\ work' = [work EXCEPT ![c] = NoWork]
       \/ /\ pc' = [pc EXCEPT ![c] = "failed"]
          /\ UNCHANGED <<lease, latest, left, work>>

(* The effect of AbandonOwned without its counters and status.             *)
AbandonOwnedEffect(c) ==
    /\ UNCHANGED <<disk, changes, scans, scan, obs, full, source>>
    /\ lease' = lease \/ (lease.owner = c /\ lease' = Free)
    /\ pc' = [pc EXCEPT ![c] = "idle"]
    /\ latest' = [latest EXCEPT ![c] = 0]
    /\ left' = [left EXCEPT ![c] = {}]
    /\ work' = [work EXCEPT ![c] = NoWork]

(* A completing scan gives every file no full hash, that of what is on disk *)
(* now, or that of an earlier listing of the same change.                  *)
HashAndFinishEffect ==
    /\ scans \in Scans /\ UNCHANGED <<disk, obs>>
    /\ \E row \in [Files -> Row] :
         /\ full' = [full EXCEPT ![scans] = row]
         /\ \A f \in Files :
              /\ row[f].rows <= 1
              /\ row[f].rows > 0 =>
                   \/ row[f].by = "scan" /\ row[f].value = disk[f].bytes
                   \/ \E t \in Scans :
                        /\ obs[t][f].change = obs[scans][f].change
                        /\ full[t][f].rows > 0
                        /\ row[f].value = full[t][f].value
                        /\ row[f].by = full[t][f].by

(* Whatever the mode of its hashing and whichever files it cannot read.    *)
LEMMA HashAndFinishDoes ==
    ASSUME Shape, ScansAreOrdered, HashAndFinish
    PROVE  HashAndFinishEffect
  <1>1. scans \in Scans /\ UNCHANGED <<disk, obs>>
    BY DEF HashAndFinish, ScansAreOrdered, tree
  <1>2. PICK mode \in HashModes, unreadable \in SUBSET Files :
          full' = [full EXCEPT ![scans] = [f \in Files |->
             IF Reusable(scans, f, mode) # {}
             THEN [full[CHOOSE t \in Reusable(scans, f, mode) : TRUE][f]
                     EXCEPT !.rows = Smaller(@, 1)]
             ELSE IF f \in unreadable THEN NoHash ELSE FullHash(f, mode)]]
    BY DEF HashAndFinish
  <1> DEFINE from(f) == CHOOSE t \in Reusable(scans, f, mode) : TRUE
             row == [f \in Files |->
                       IF Reusable(scans, f, mode) # {}
                       THEN [full[from(f)][f] EXCEPT !.rows = Smaller(full[from(f)][f].rows, 1)]
                       ELSE IF f \in unreadable THEN NoHash ELSE FullHash(f, mode)]
  <1>3. full' = [full EXCEPT ![scans] = row]
    BY <1>2
  <1>4. ASSUME NEW f \in Files
        PROVE  /\ row[f] \in Row /\ row[f].rows <= 1
               /\ row[f].rows > 0 =>
                    \/ row[f].by = "scan" /\ row[f].value = disk[f].bytes
                    \/ \E t \in Scans :
                         /\ obs[t][f].change = obs[scans][f].change
                         /\ full[t][f].rows > 0
                         /\ row[f].value = full[t][f].value
                         /\ row[f].by = full[t][f].by
    <2>1. CASE Reusable(scans, f, mode) # {}
      <3>1. from(f) \in Reusable(scans, f, mode)
        BY <2>1
      <3>2. row[f] = [full[from(f)][f] EXCEPT !.rows = Smaller(full[from(f)][f].rows, 1)]
        BY <2>1
      <3> HIDE DEF from, row
      <3>3. from(f) \in Scans /\ obs[from(f)][f].change = obs[scans][f].change
        BY <1>1, <3>1, EarlierScans DEF Reusable
      <3>4. full[from(f)][f] \in Row
        BY <3>3 DEF Shape
      <3>5. /\ row[f].rows = Smaller(full[from(f)][f].rows, 1)
            /\ row[f].value = full[from(f)][f].value
            /\ row[f].by = full[from(f)][f].by
            /\ row[f] \in Row
        BY <3>2, <3>4 DEF Row, Smaller
      <3>6. row[f].rows <= 1 /\ (row[f].rows > 0 => full[from(f)][f].rows > 0)
        BY <3>4, <3>5 DEF Row, Smaller
      <3> QED
        BY <3>3, <3>5, <3>6
    <2>2. CASE Reusable(scans, f, mode) = {}
      <3>1. row[f] \in {NoHash, [rows |-> 1, value |-> disk[f].bytes, by |-> "scan"]}
        BY <2>2 DEF FullHash
      <3>2. disk[f].bytes \in Bytes
        BY DEF Shape
      <3> HIDE DEF row
      <3> QED
        BY <3>1, <3>2 DEF NoHash, Row
    <2> QED
      BY <2>1, <2>2
  <1> HIDE DEF row
  <1>5. row \in [Files -> Row]
    <2>1. row = [f \in Files |-> row[f]]
      BY DEF row
    <2> QED
      BY <1>4, <2>1
  <1> QED
    BY <1>1, <1>3, <1>4, <1>5 DEF HashAndFinishEffect

(* The effect of Acquire is what its branches have in common.              *)
LEMMA AcquireDoes ==
    ASSUME NEW c \in Call, Acquire(c)
    PROVE  AcquireEffect(c)
  BY HashingAssumption DEF Acquire, Acquirable, Recoverable, Free, Leave, Goto,
                            tree, scanning, rows, AcquireEffect

(* The effect of NextCandidates is what its branches have in common.       *)
LEMMA NextCandidatesDoes ==
    ASSUME NEW c \in Call, NextCandidates(c)
    PROVE  NextCandidatesEffect(c)
  <1> USE DEF NextCandidatesEffect
  <1> DEFINE batch == First(source[c], left[c], BatchLimit(c))
  <1>1. batch \in SUBSET left[c]
    BY DEF First
  <1>2. /\ UNCHANGED <<disk, changes, scans, scan, obs, full, lease, source, latest>>
        /\ pc[c] = "next"
    BY DEF NextCandidates, tree, scanning, rows
  <1>3. \/ /\ pc' = [pc EXCEPT ![c] = "failed"]
           /\ UNCHANGED <<left, work>>
        \/ /\ pc' = [pc EXCEPT ![c] = IF batch = {} THEN "finish" ELSE "hash"]
           /\ left' = [left EXCEPT ![c] = left[c] \ batch]
           /\ work' = [work EXCEPT ![c] = [f \in Files |->
                 [step |-> IF f \in batch THEN "due" ELSE "none", value |-> None]]]
    BY Zenon DEF NextCandidates, Goto
  <1> DEFINE p == IF batch = {} THEN "finish" ELSE "hash"
  <1>4. p \in {"finish", "hash"}
    OBVIOUS
  <1> HIDE DEF batch, p
  <1> QED
    BY <1>1, <1>2, <1>3, <1>4 DEF p

(* The effect of OpenFile is what its branches have in common.             *)
LEMMA OpenFileDoes ==
    ASSUME NEW c \in Call, NEW g \in Files, OpenFile(c, g)
    PROVE  OpenFileEffect(c, g)
  BY DEF OpenFile, Hashes, Advance, tree, scanning, rows, OpenFileEffect

(* The effect of CloseFile is what its branches have in common.            *)
LEMMA CloseFileDoes ==
    ASSUME NEW c \in Call, NEW g \in Files, CloseFile(c, g)
    PROVE  CloseFileEffect(c, g)
  <1> USE DEF CloseFileEffect
  <1>1. CASE AsObserved(c, g)
    BY <1>1 DEF CloseFile, Hashes, Advance, tree, scanning, rows
  <1>2. CASE ~AsObserved(c, g)
    BY <1>2 DEF CloseFile, Hashes, Advance, tree, scanning, rows
  <1> QED
    BY <1>1, <1>2

(* The effect of CommitBatch is what its branches have in common.          *)
LEMMA CommitBatchDoes ==
    ASSUME NEW c \in Call, CommitBatch(c)
    PROVE  CommitBatchEffect(c)
  <1> USE DEF CommitBatchEffect
  <1>1. CASE MayWrite(c)
    <2>1. lease.owner = c
      BY <1>1 DEF MayWrite, Owned
    <2>2. Goto(c, "next") /\ Insert(c)
      BY <1>1 DEF CommitBatch
    <2>3. /\ UNCHANGED <<disk, changes, scans, scan, obs, lease, source, latest, left>>
          /\ pc[c] = "hash" /\ work' = [work EXCEPT ![c] = NoWork]
      BY DEF CommitBatch, tree, scanning
    <2> QED
      BY <2>1, <2>2, <2>3 DEF Goto, Insert
  <1>2. CASE ~MayWrite(c)
    BY <1>2 DEF CommitBatch, Goto, tree, scanning
  <1> QED
    BY <1>1, <1>2

(* The effect of Finish is what its branches have in common.               *)
LEMMA FinishDoes ==
    ASSUME NEW c \in Call, Finish(c)
    PROVE  FinishEffect(c)
  <1> USE DEF FinishEffect
  <1>1. CASE MayWrite(c)
    <2>1. lease.owner = c
      BY <1>1 DEF MayWrite, Owned
    <2>2. lease' = Free /\ Leave(c)
      BY <1>1 DEF Finish, End
    <2> QED
      BY <2>1, <2>2 DEF Finish, Leave, Goto, tree, scanning
  <1>2. CASE ~MayWrite(c)
    BY <1>2 DEF Finish, Goto, tree, scanning, process
  <1> QED
    BY <1>1, <1>2

(* The effect of AbandonOwned is what its branches have in common.         *)
LEMMA AbandonOwnedDoes ==
    ASSUME NEW c \in Call, AbandonOwned(c)
    PROVE  AbandonOwnedEffect(c)
  <1> USE DEF AbandonOwnedEffect
  <1>1. CASE Owned(c)
    <2>1. lease.owner = c
      BY <1>1 DEF Owned
    <2>2. lease' = Free
      BY <1>1 DEF AbandonOwned, End
    <2> QED
      BY <2>1, <2>2 DEF AbandonOwned, Leave, Goto, tree, scanning
  <1>2. CASE ~Owned(c)
    BY <1>2 DEF AbandonOwned, Leave, Goto, tree, scanning
  <1> QED
    BY <1>1, <1>2

(* The rows of the full hashes, one by one.                                *)
LEMMA FullRow ==
  ASSUME full \in [Scans -> [Files -> Row]], NEW s \in Scans, NEW f \in Files
  PROVE  /\ full[s][f] \in Row
         /\ full[s][f].rows \in Nat
  <1>1. full[s] \in [Files -> Row]
    OBVIOUS
  <1>2. full[s][f] \in Row
    BY <1>1
  <1> QED
    BY <1>2 DEF Row

(* A step keeps the types of the tree, the scans and the lease.            *)
LEMMA ShapeStays ==
    ASSUME Shape, CallShape, ScansAreOrdered, Next
    PROVE  Shape'
  <1> USE HashingAssumption DEF Shape, Scans, Statuses, Unlisted, NoHash
  <1>1. ASSUME NEW g \in Files, NEW b \in Bytes, WriteFile(g, b)
        PROVE  Shape'
    <2>1. disk' \in [Files -> [bytes : Bytes, change : Nat]]
      <3>1. [bytes |-> b, change |-> changes + 1] \in [bytes : Bytes, change : Nat]
        OBVIOUS
      <3> QED
        BY <3>1, <1>1 DEF WriteFile
    <2>2. changes' \in Nat /\ scans' \in 0..MaxScans
      BY <1>1 DEF WriteFile, tree, scanning, rows, process
    <2>3. scan' \in [Scans -> Statuses]
      BY <1>1 DEF WriteFile, tree, scanning, rows, process
    <2>4. obs' \in [Scans -> [Files -> [bytes : Bytes \cup {None}, change : Nat]]]
      BY <1>1 DEF WriteFile, tree, scanning, rows, process
    <2>5. full' \in [Scans -> [Files -> Row]]
      BY <1>1 DEF WriteFile, tree, scanning, rows, process
    <2>6. lease' \in [owner : Call \cup {Scanner, None}, expired : BOOLEAN]
      BY <1>1 DEF WriteFile, tree, scanning, rows, process
    <2> QED
      BY <2>1, <2>2, <2>3, <2>4, <2>5, <2>6 DEF Shape
  <1>2. CASE StartScan
    <2>1. disk' \in [Files -> [bytes : Bytes, change : Nat]]
      BY <1>2 DEF StartScan, Free, tree, scanning, rows, process
    <2>2. changes' \in Nat /\ scans' \in 0..MaxScans
      BY <1>2 DEF StartScan, Free, tree, scanning, rows, process
    <2>3. scan' \in [Scans -> Statuses]
      BY <1>2 DEF StartScan, Free, tree, scanning, rows, process
    <2>4. obs' \in [Scans -> [Files -> [bytes : Bytes \cup {None}, change : Nat]]]
      BY <1>2 DEF StartScan, Free, tree, scanning, rows, process
    <2>5. full' \in [Scans -> [Files -> Row]]
      BY <1>2 DEF StartScan, Free, tree, scanning, rows, process
    <2>6. lease' \in [owner : Call \cup {Scanner, None}, expired : BOOLEAN]
      BY <1>2 DEF StartScan, Free, tree, scanning, rows, process
    <2> QED
      BY <2>1, <2>2, <2>3, <2>4, <2>5, <2>6 DEF Shape
  <1>3. CASE ListFiles
    BY <1>3 DEF ListFiles, tree, scanning, rows, process, ScansAreOrdered
  <1>4. CASE HashAndFinish
    <2>1. disk' \in [Files -> [bytes : Bytes, change : Nat]]
      BY <1>4 DEF HashAndFinish, Free, tree, scanning, rows, process
    <2>2. changes' \in Nat /\ scans' \in 0..MaxScans
      BY <1>4 DEF HashAndFinish, Free, tree, scanning, rows, process
    <2>3. scan' \in [Scans -> Statuses]
      BY <1>4 DEF HashAndFinish, Free, tree, scanning, rows, process
    <2>4. obs' \in [Scans -> [Files -> [bytes : Bytes \cup {None}, change : Nat]]]
      BY <1>4 DEF HashAndFinish, Free, tree, scanning, rows, process
    <2>5. full' \in [Scans -> [Files -> Row]]
      <3>1. PICK row \in [Files -> Row] : full' = [full EXCEPT ![scans] = row]
        BY <1>4, HashAndFinishDoes DEF HashAndFinishEffect
      <3> QED
        BY <3>1
    <2>6. lease' \in [owner : Call \cup {Scanner, None}, expired : BOOLEAN]
      BY <1>4 DEF HashAndFinish, Free, tree, scanning, rows, process
    <2> QED
      BY <2>1, <2>2, <2>3, <2>4, <2>5, <2>6 DEF Shape
  <1>5. CASE FailScan
    BY <1>5 DEF FailScan, Free, tree, scanning, rows, process
  <1>6. ASSUME NEW c \in Call, NEW n \in Limit, Enrich(c, n)
        PROVE  Shape'
    BY <1>6 DEF Enrich, Goto, LatestCompleted, tree, scanning, rows, process
  <1>7. ASSUME NEW c \in Call, Acquire(c)
        PROVE  Shape'
    <2>0. AcquireEffect(c)
      BY <1>7, AcquireDoes
    <2>1. disk' \in [Files -> [bytes : Bytes, change : Nat]]
      BY <2>0 DEF AcquireEffect
    <2>2. changes' \in Nat /\ scans' \in 0..MaxScans
      BY <2>0 DEF AcquireEffect
    <2>3. scan' \in [Scans -> Statuses]
      BY <2>0 DEF AcquireEffect
    <2>4. obs' \in [Scans -> [Files -> [bytes : Bytes \cup {None}, change : Nat]]]
      BY <2>0 DEF AcquireEffect
    <2>5. full' \in [Scans -> [Files -> Row]]
      <3>1. full' = full
        BY <2>0 DEF AcquireEffect
      <3> QED
        BY <3>1
    <2>6. lease' \in [owner : Call \cup {Scanner, None}, expired : BOOLEAN]
      <3>1. \A o \in Call \cup {None} :
               [owner |-> o, expired |-> FALSE]
                   \in [owner : Call \cup {Scanner, None}, expired : BOOLEAN]
        OBVIOUS
      <3>2. lease' = lease \/ \E o \in Call \cup {None} : lease' = [owner |-> o, expired |-> FALSE]
        BY <2>0 DEF AcquireEffect, Free
      <3> QED
        BY <3>1, <3>2
    <2> QED
      BY <2>1, <2>2, <2>3, <2>4, <2>5, <2>6 DEF Shape
  <1>8. ASSUME NEW c \in Call, PrepareSnapshot(c)
        PROVE  Shape'
    BY <1>8 DEF PrepareSnapshot, Goto, tree, scanning, rows, process
  <1>9. ASSUME NEW c \in Call, RecordSelection(c)
        PROVE  Shape'
    BY <1>9 DEF RecordSelection, Goto, tree, scanning, rows, process
  <1>10. ASSUME NEW c \in Call, NextCandidates(c)
        PROVE  Shape'
    <2>1. NextCandidatesEffect(c)
      BY <1>10, NextCandidatesDoes
    <2> QED
      BY <2>1 DEF NextCandidatesEffect
  <1>11. ASSUME NEW c \in Call, NEW g \in Files, OpenFile(c, g)
        PROVE  Shape'
    <2>1. OpenFileEffect(c, g)
      BY <1>11, OpenFileDoes
    <2> QED
      BY <2>1 DEF OpenFileEffect
  <1>12. ASSUME NEW c \in Call, NEW g \in Files, ReadFile(c, g)
        PROVE  Shape'
    BY <1>12 DEF ReadFile, Hashes, Advance, tree, scanning, rows, process
  <1>13. ASSUME NEW c \in Call, NEW g \in Files, CloseFile(c, g)
        PROVE  Shape'
    <2>1. CloseFileEffect(c, g)
      BY <1>13, CloseFileDoes
    <2> QED
      BY <2>1 DEF CloseFileEffect
  <1>14. ASSUME NEW c \in Call, NEW g \in Files, FileFails(c, g)
        PROVE  Shape'
    BY <1>14 DEF FileFails, Hashes, tree, scanning, rows, process
  <1>15. ASSUME NEW c \in Call, CommitBatch(c)
        PROVE  Shape'
    <2>0. CommitBatchEffect(c)
      BY <1>15, CommitBatchDoes
    <2>1. disk' \in [Files -> [bytes : Bytes, change : Nat]]
      BY <2>0 DEF CommitBatchEffect
    <2>2. changes' \in Nat /\ scans' \in 0..MaxScans
      BY <2>0 DEF CommitBatchEffect
    <2>3. scan' \in [Scans -> Statuses]
      BY <2>0 DEF CommitBatchEffect
    <2>4. obs' \in [Scans -> [Files -> [bytes : Bytes \cup {None}, change : Nat]]]
      BY <2>0 DEF CommitBatchEffect
    <2>5. full' \in [Scans -> [Files -> Row]]
      <3>1. CASE source[c] \in Scans
        <4>1. ASSUME NEW f \in Files
              PROVE  [rows |-> full[source[c]][f].rows + 1, value |-> work[c][f].value, by |-> "enrich"]
                        \in Row
          <5>0. full \in [Scans -> [Files -> Row]]
            BY DEF Shape
          <5>1. full[source[c]][f].rows \in Nat
            BY <3>1, <5>0, FullRow
          <5>2. work[c][f].value \in Bytes \cup {None}
            BY DEF CallShape
          <5> QED
            BY <5>1, <5>2 DEF Row
        <4> QED
          <5> DEFINE hashed == [f \in Files |->
                         IF f \in InBatch(c, "ok")
                         THEN [rows |-> full[source[c]][f].rows + 1, value |-> work[c][f].value, by |-> "enrich"]
                         ELSE full[source[c]][f]]
          <5>1. hashed \in [Files -> Row]
            BY <3>1, <4>1
          <5>2. full' = full \/ full' = [full EXCEPT ![source[c]] = hashed]
            BY <2>0 DEF CommitBatchEffect
          <5> HIDE DEF hashed
          <5> QED
            BY <5>1, <5>2
      <3>2. CASE source[c] \notin Scans
        BY <2>0, <3>2 DEF CommitBatchEffect
      <3> QED
        BY <3>1, <3>2
    <2>6. lease' \in [owner : Call \cup {Scanner, None}, expired : BOOLEAN]
      BY <2>0 DEF CommitBatchEffect
    <2> QED
      BY <2>1, <2>2, <2>3, <2>4, <2>5, <2>6 DEF Shape
  <1>16. ASSUME NEW c \in Call, Finish(c)
        PROVE  Shape'
    <2>0. FinishEffect(c)
      BY <1>16, FinishDoes
    <2>1. disk' \in [Files -> [bytes : Bytes, change : Nat]]
      BY <2>0 DEF FinishEffect, Free
    <2>2. changes' \in Nat /\ scans' \in 0..MaxScans
      BY <2>0 DEF FinishEffect, Free
    <2>3. scan' \in [Scans -> Statuses]
      BY <2>0 DEF FinishEffect, Free
    <2>4. obs' \in [Scans -> [Files -> [bytes : Bytes \cup {None}, change : Nat]]]
      BY <2>0 DEF FinishEffect, Free
    <2>5. full' \in [Scans -> [Files -> Row]]
      <3>1. full' = full
        BY <2>0 DEF FinishEffect
      <3> QED
        BY <3>1
    <2>6. lease' \in [owner : Call \cup {Scanner, None}, expired : BOOLEAN]
      <3>1. \A o \in Call \cup {None} :
               [owner |-> o, expired |-> FALSE]
                   \in [owner : Call \cup {Scanner, None}, expired : BOOLEAN]
        OBVIOUS
      <3>2. lease' = lease \/ \E o \in Call \cup {None} : lease' = [owner |-> o, expired |-> FALSE]
        BY <2>0 DEF FinishEffect, Free
      <3> QED
        BY <3>1, <3>2
    <2> QED
      BY <2>1, <2>2, <2>3, <2>4, <2>5, <2>6 DEF Shape
  <1>17. ASSUME NEW c \in Call, AbandonOwned(c)
        PROVE  Shape'
    <2>0. AbandonOwnedEffect(c)
      BY <1>17, AbandonOwnedDoes
    <2>1. disk' \in [Files -> [bytes : Bytes, change : Nat]]
      BY <2>0 DEF AbandonOwnedEffect, Free
    <2>2. changes' \in Nat /\ scans' \in 0..MaxScans
      BY <2>0 DEF AbandonOwnedEffect, Free
    <2>3. scan' \in [Scans -> Statuses]
      BY <2>0 DEF AbandonOwnedEffect, Free
    <2>4. obs' \in [Scans -> [Files -> [bytes : Bytes \cup {None}, change : Nat]]]
      BY <2>0 DEF AbandonOwnedEffect, Free
    <2>5. full' \in [Scans -> [Files -> Row]]
      <3>1. full' = full
        BY <2>0 DEF AbandonOwnedEffect
      <3> QED
        BY <3>1
    <2>6. lease' \in [owner : Call \cup {Scanner, None}, expired : BOOLEAN]
      <3>1. \A o \in Call \cup {None} :
               [owner |-> o, expired |-> FALSE]
                   \in [owner : Call \cup {Scanner, None}, expired : BOOLEAN]
        OBVIOUS
      <3>2. lease' = lease \/ \E o \in Call \cup {None} : lease' = [owner |-> o, expired |-> FALSE]
        BY <2>0 DEF AbandonOwnedEffect, Free
      <3> QED
        BY <3>1, <3>2
    <2> QED
      BY <2>1, <2>2, <2>3, <2>4, <2>5, <2>6 DEF Shape
  <1>18. ASSUME NEW c \in Call, Interrupt(c)
        PROVE  Shape'
    BY <1>18 DEF Interrupt, Works, Goto, tree, scanning, rows, process
  <1>19. ASSUME NEW c \in Call, Crash(c)
        PROVE  Shape'
    BY <1>19 DEF Crash, Leave, Goto, tree, scanning, rows, process
  <1>20. ASSUME NEW c \in Call, HeartbeatFails(c)
        PROVE  Shape'
    BY <1>20 DEF HeartbeatFails, tree, scanning, rows, process
  <1>21. CASE LeaseExpires
    BY <1>21 DEF LeaseExpires, tree, scanning, rows, process
  <1> QED
    BY <1>1, <1>2, <1>3, <1>4, <1>5, <1>6, <1>7, <1>8, <1>9, <1>10, <1>11,
       <1>12, <1>13, <1>14, <1>15, <1>16, <1>17, <1>18, <1>19, <1>20, <1>21 DEF Next, Step, Hash

(* A step keeps the types of the calls.                                    *)
LEMMA CallShapeStays ==
    ASSUME Shape, CallShape, Next
    PROVE  CallShape'
  <1> USE HashingAssumption DEF CallShape, Steps, NoWork
  <1>1. ASSUME NEW g \in Files, NEW b \in Bytes, WriteFile(g, b)
        PROVE  CallShape'
    BY <1>1 DEF WriteFile, tree, scanning, rows, process
  <1>2. CASE StartScan
    BY <1>2 DEF StartScan, Free, tree, scanning, rows, process
  <1>3. CASE ListFiles
    BY <1>3 DEF ListFiles, tree, scanning, rows, process
  <1>4. CASE HashAndFinish
    BY <1>4 DEF HashAndFinish, Free, tree, scanning, rows, process
  <1>5. CASE FailScan
    BY <1>5 DEF FailScan, Free, tree, scanning, rows, process
  <1>6. ASSUME NEW c \in Call, NEW n \in Limit, Enrich(c, n)
        PROVE  CallShape'
    BY <1>6
       DEF Enrich, Goto, LatestCompleted, tree, scanning, rows, process, Shape
  <1>7. ASSUME NEW c \in Call, Acquire(c)
        PROVE  CallShape'
    <2>0. AcquireEffect(c)
      BY <1>7, AcquireDoes
    <2>1. source' \in [Call -> 0..MaxScans]
      BY <2>0 DEF AcquireEffect
    <2>2. latest' \in [Call -> 0..MaxScans]
      BY <2>0 DEF AcquireEffect
    <2>3. pc' \in [Call -> {"idle", "acquire", "snapshot", "select", "next", "hash",
                         "finish", "failed", "interrupted"}]
      BY <2>0 DEF AcquireEffect
    <2>4. left' \in [Call -> SUBSET Files]
      BY <2>0 DEF AcquireEffect
    <2>5. work' \in [Call -> [Files -> [step : Steps, value : Bytes \cup {None}]]]
      BY <2>0 DEF AcquireEffect
    <2> QED
      BY <2>1, <2>2, <2>3, <2>4, <2>5 DEF CallShape
  <1>8. ASSUME NEW c \in Call, PrepareSnapshot(c)
        PROVE  CallShape'
    <2>1. source' \in [Call -> 0..MaxScans]
      BY <1>8 DEF PrepareSnapshot, Goto, tree, scanning, rows, process
    <2>2. latest' \in [Call -> 0..MaxScans]
      BY <1>8 DEF PrepareSnapshot, Goto, tree, scanning, rows, process
    <2>3. pc' \in [Call -> {"idle", "acquire", "snapshot", "select", "next", "hash",
                         "finish", "failed", "interrupted"}]
      BY <1>8 DEF PrepareSnapshot, Goto, tree, scanning, rows, process
    <2>4. left' \in [Call -> SUBSET Files]
      BY <1>8
         DEF PrepareSnapshot, Candidates, Current, tree, scanning, rows,
             process
    <2>5. work' \in [Call -> [Files -> [step : Steps, value : Bytes \cup {None}]]]
      BY <1>8 DEF PrepareSnapshot, Goto, tree, scanning, rows, process
    <2> QED
      BY <2>1, <2>2, <2>3, <2>4, <2>5 DEF CallShape
  <1>9. ASSUME NEW c \in Call, RecordSelection(c)
        PROVE  CallShape'
    BY <1>9 DEF RecordSelection, Goto, tree, scanning, rows, process
  <1>10. ASSUME NEW c \in Call, NextCandidates(c)
        PROVE  CallShape'
    <2>0. NextCandidatesEffect(c)
      BY <1>10, NextCandidatesDoes
    <2>1. source' \in [Call -> 0..MaxScans]
      BY <2>0 DEF NextCandidatesEffect
    <2>2. latest' \in [Call -> 0..MaxScans]
      BY <2>0 DEF NextCandidatesEffect
    <2>3. pc' \in [Call -> {"idle", "acquire", "snapshot", "select", "next", "hash",
                         "finish", "failed", "interrupted"}]
      BY <2>0 DEF NextCandidatesEffect
    <2>4. left' \in [Call -> SUBSET Files]
      BY <2>0 DEF NextCandidatesEffect
    <2>5. work' \in [Call -> [Files -> [step : Steps, value : Bytes \cup {None}]]]
      BY <2>0 DEF NextCandidatesEffect
    <2> QED
      BY <2>1, <2>2, <2>3, <2>4, <2>5 DEF CallShape
  <1>11. ASSUME NEW c \in Call, NEW g \in Files, OpenFile(c, g)
        PROVE  CallShape'
    <2>1. OpenFileEffect(c, g)
      BY <1>11, OpenFileDoes
    <2> QED
      BY <2>1 DEF OpenFileEffect
  <1>12. ASSUME NEW c \in Call, NEW g \in Files, ReadFile(c, g)
        PROVE  CallShape'
    BY <1>12 DEF ReadFile, Hashes, Advance, tree, scanning, rows, process, Shape
  <1>13. ASSUME NEW c \in Call, NEW g \in Files, CloseFile(c, g)
        PROVE  CallShape'
    <2>0. CloseFileEffect(c, g)
      BY <1>13, CloseFileDoes
    <2>1. source' \in [Call -> 0..MaxScans]
      BY <2>0 DEF CloseFileEffect
    <2>2. latest' \in [Call -> 0..MaxScans]
      BY <2>0 DEF CloseFileEffect
    <2>3. pc' \in [Call -> {"idle", "acquire", "snapshot", "select", "next", "hash",
                         "finish", "failed", "interrupted"}]
      BY <2>0 DEF CloseFileEffect
    <2>4. left' \in [Call -> SUBSET Files]
      BY <2>0 DEF CloseFileEffect
    <2>5. work' \in [Call -> [Files -> [step : Steps, value : Bytes \cup {None}]]]
      <3>1. PICK step \in Steps, value \in Bytes \cup {None} :
              work' = [work EXCEPT ![c][g] = [step |-> step, value |-> value]]
        BY <2>0 DEF CloseFileEffect
      <3> QED
        BY <3>1
    <2> QED
      BY <2>1, <2>2, <2>3, <2>4, <2>5 DEF CallShape
  <1>14. ASSUME NEW c \in Call, NEW g \in Files, FileFails(c, g)
        PROVE  CallShape'
    BY <1>14 DEF FileFails, Hashes, tree, scanning, rows, process
  <1>15. ASSUME NEW c \in Call, CommitBatch(c)
        PROVE  CallShape'
    <2>1. CommitBatchEffect(c)
      BY <1>15, CommitBatchDoes
    <2> QED
      BY <2>1 DEF CommitBatchEffect
  <1>16. ASSUME NEW c \in Call, Finish(c)
        PROVE  CallShape'
    <2>0. FinishEffect(c)
      BY <1>16, FinishDoes
    <2>1. source' \in [Call -> 0..MaxScans]
      BY <2>0 DEF FinishEffect
    <2>2. latest' \in [Call -> 0..MaxScans]
      BY <2>0 DEF FinishEffect
    <2>3. pc' \in [Call -> {"idle", "acquire", "snapshot", "select", "next", "hash",
                         "finish", "failed", "interrupted"}]
      BY <2>0 DEF FinishEffect
    <2>4. left' \in [Call -> SUBSET Files]
      BY <2>0 DEF FinishEffect
    <2>5. work' \in [Call -> [Files -> [step : Steps, value : Bytes \cup {None}]]]
      BY <2>0 DEF FinishEffect
    <2> QED
      BY <2>1, <2>2, <2>3, <2>4, <2>5 DEF CallShape
  <1>17. ASSUME NEW c \in Call, AbandonOwned(c)
        PROVE  CallShape'
    <2>1. AbandonOwnedEffect(c)
      BY <1>17, AbandonOwnedDoes
    <2> QED
      BY <2>1 DEF AbandonOwnedEffect, Free
  <1>18. ASSUME NEW c \in Call, Interrupt(c)
        PROVE  CallShape'
    BY <1>18 DEF Interrupt, Works, Goto, tree, scanning, rows, process
  <1>19. ASSUME NEW c \in Call, Crash(c)
        PROVE  CallShape'
    BY <1>19 DEF Crash, Leave, Goto, tree, scanning, rows, process
  <1>20. ASSUME NEW c \in Call, HeartbeatFails(c)
        PROVE  CallShape'
    BY <1>20 DEF HeartbeatFails, tree, scanning, rows, process
  <1>21. CASE LeaseExpires
    BY <1>21 DEF LeaseExpires, tree, scanning, rows, process
  <1> QED
    BY <1>1, <1>2, <1>3, <1>4, <1>5, <1>6, <1>7, <1>8, <1>9, <1>10, <1>11,
       <1>12, <1>13, <1>14, <1>15, <1>16, <1>17, <1>18, <1>19, <1>20, <1>21 DEF Next, Step, Hash

(* Scans stay ordered.                                                     *)
LEMMA ScansStayOrdered ==
    ASSUME Shape, ScansAreOrdered, Shape', Next
    PROVE  ScansAreOrdered'
  <1> USE HashingAssumption DEF Shape, Scans, Statuses, ScansAreOrdered
  <1>1. ASSUME NEW g \in Files, NEW b \in Bytes, WriteFile(g, b)
        PROVE  ScansAreOrdered'
    BY <1>1 DEF WriteFile, tree, scanning, rows, process
  <1>2. CASE StartScan
    BY <1>2 DEF StartScan, Free, tree, scanning, rows, process
  <1>3. CASE ListFiles
    BY <1>3 DEF ListFiles, tree, scanning, rows, process
  <1>4. CASE HashAndFinish
    BY <1>4 DEF HashAndFinish, Free, tree, scanning, rows, process
  <1>5. CASE FailScan
    BY <1>5 DEF FailScan, Free, tree, scanning, rows, process
  <1>6. ASSUME NEW c \in Call, NEW n \in Limit, Enrich(c, n)
        PROVE  ScansAreOrdered'
    BY <1>6 DEF Enrich, Goto, LatestCompleted, tree, scanning, rows, process
  <1>7. ASSUME NEW c \in Call, Acquire(c)
        PROVE  ScansAreOrdered'
    <2>1. AcquireEffect(c)
      BY <1>7, AcquireDoes
    <2> QED
      BY <2>1 DEF AcquireEffect
  <1>8. ASSUME NEW c \in Call, PrepareSnapshot(c)
        PROVE  ScansAreOrdered'
    BY <1>8 DEF PrepareSnapshot, Goto, tree, scanning, rows, process
  <1>9. ASSUME NEW c \in Call, RecordSelection(c)
        PROVE  ScansAreOrdered'
    BY <1>9 DEF RecordSelection, Goto, tree, scanning, rows, process
  <1>10. ASSUME NEW c \in Call, NextCandidates(c)
        PROVE  ScansAreOrdered'
    <2>1. NextCandidatesEffect(c)
      BY <1>10, NextCandidatesDoes
    <2> QED
      BY <2>1 DEF NextCandidatesEffect
  <1>11. ASSUME NEW c \in Call, NEW g \in Files, OpenFile(c, g)
        PROVE  ScansAreOrdered'
    <2>1. OpenFileEffect(c, g)
      BY <1>11, OpenFileDoes
    <2> QED
      BY <2>1 DEF OpenFileEffect
  <1>12. ASSUME NEW c \in Call, NEW g \in Files, ReadFile(c, g)
        PROVE  ScansAreOrdered'
    BY <1>12 DEF ReadFile, Hashes, Advance, tree, scanning, rows, process
  <1>13. ASSUME NEW c \in Call, NEW g \in Files, CloseFile(c, g)
        PROVE  ScansAreOrdered'
    <2>1. CloseFileEffect(c, g)
      BY <1>13, CloseFileDoes
    <2> QED
      BY <2>1 DEF CloseFileEffect
  <1>14. ASSUME NEW c \in Call, NEW g \in Files, FileFails(c, g)
        PROVE  ScansAreOrdered'
    BY <1>14 DEF FileFails, Hashes, tree, scanning, rows, process
  <1>15. ASSUME NEW c \in Call, CommitBatch(c)
        PROVE  ScansAreOrdered'
    <2>1. CommitBatchEffect(c)
      BY <1>15, CommitBatchDoes
    <2> QED
      BY <2>1 DEF CommitBatchEffect
  <1>16. ASSUME NEW c \in Call, Finish(c)
        PROVE  ScansAreOrdered'
    <2>1. FinishEffect(c)
      BY <1>16, FinishDoes
    <2> QED
      BY <2>1 DEF FinishEffect, Free
  <1>17. ASSUME NEW c \in Call, AbandonOwned(c)
        PROVE  ScansAreOrdered'
    <2>1. AbandonOwnedEffect(c)
      BY <1>17, AbandonOwnedDoes
    <2> QED
      BY <2>1 DEF AbandonOwnedEffect, Free
  <1>18. ASSUME NEW c \in Call, Interrupt(c)
        PROVE  ScansAreOrdered'
    BY <1>18 DEF Interrupt, Works, Goto, tree, scanning, rows, process
  <1>19. ASSUME NEW c \in Call, Crash(c)
        PROVE  ScansAreOrdered'
    BY <1>19 DEF Crash, Leave, Goto, tree, scanning, rows, process
  <1>20. ASSUME NEW c \in Call, HeartbeatFails(c)
        PROVE  ScansAreOrdered'
    BY <1>20 DEF HeartbeatFails, tree, scanning, rows, process
  <1>21. CASE LeaseExpires
    BY <1>21 DEF LeaseExpires, tree, scanning, rows, process
  <1> QED
    BY <1>1, <1>2, <1>3, <1>4, <1>5, <1>6, <1>7, <1>8, <1>9, <1>10, <1>11,
       <1>12, <1>13, <1>14, <1>15, <1>16, <1>17, <1>18, <1>19, <1>20, <1>21 DEF Next, Step, Hash

(* No change gets other bytes.                                             *)
LEMMA ChangesKeepTheirBytes ==
    ASSUME Shape, ScansAreOrdered, ChangesNameBytes, Shape', Next
    PROVE  ChangesNameBytes'
  <1> USE HashingAssumption DEF Shape, Scans, ChangesNameBytes, Unlisted
  <1>1. ASSUME NEW g \in Files, NEW b \in Bytes, WriteFile(g, b)
        PROVE  ChangesNameBytes'
    <2>1. /\ changes' = changes + 1 /\ obs' = obs
          /\ \A f \in Files : disk'[f] = disk[f]
                 \/ disk'[f].change = changes + 1
      BY <1>1 DEF WriteFile, scanning
    <2>2. /\ \A f \in Files : disk[f].change \in Nat
          /\ \A s \in Scans, f \in Files : obs[s][f].change \in Nat
      OBVIOUS
    <2>3. \A s \in Scans, f \in Files :
             /\ obs[s][f].change <= changes
             /\ obs[s][f].change = disk[f].change => obs[s][f].bytes = disk[f].bytes
      OBVIOUS
    <2>4. \A f \in Files : disk[f].change <= changes
      OBVIOUS
    <2>5. changes \in Nat
      OBVIOUS
    <2> HIDE DEF Shape, ChangesNameBytes
    <2>6. \A s \in Scans, f \in Files : obs[s][f].change # changes + 1
      BY <2>2, <2>3, <2>5
    <2>7. \A f \in Files : disk'[f].change <= changes'
      BY <2>1, <2>2, <2>4, <2>5
    <2>8. \A s \in Scans, f \in Files : obs'[s][f].change <= changes'
      BY <2>1, <2>2, <2>3, <2>5
    <2>9. \A s \in Scans, f \in Files :
             obs'[s][f].change = disk'[f].change => obs'[s][f].bytes = disk'[f].bytes
      BY <2>1, <2>6, <2>3
    <2>10. \A s, t \in Scans, f \in Files :
             obs'[s][f].change = obs'[t][f].change => obs'[s][f].bytes = obs'[t][f].bytes
      BY <2>1 DEF ChangesNameBytes
    <2> QED
      BY <2>1, <2>7, <2>8, <2>9, <2>10 DEF ChangesNameBytes
  <1>2. CASE StartScan
    BY <1>2 DEF StartScan, Free, tree, scanning, rows, process
  <1>3. CASE ListFiles
    BY <1>3 DEF ListFiles, tree, scanning, rows, process, ScansAreOrdered
  <1>4. CASE HashAndFinish
    BY <1>4 DEF HashAndFinish, Free, tree, scanning, rows, process
  <1>5. CASE FailScan
    BY <1>5 DEF FailScan, Free, tree, scanning, rows, process
  <1>6. ASSUME NEW c \in Call, NEW n \in Limit, Enrich(c, n)
        PROVE  ChangesNameBytes'
    BY <1>6 DEF Enrich, Goto, LatestCompleted, tree, scanning, rows, process
  <1>7. ASSUME NEW c \in Call, Acquire(c)
        PROVE  ChangesNameBytes'
    <2>1. AcquireEffect(c)
      BY <1>7, AcquireDoes
    <2> QED
      BY <2>1 DEF AcquireEffect
  <1>8. ASSUME NEW c \in Call, PrepareSnapshot(c)
        PROVE  ChangesNameBytes'
    BY <1>8 DEF PrepareSnapshot, Goto, tree, scanning, rows, process
  <1>9. ASSUME NEW c \in Call, RecordSelection(c)
        PROVE  ChangesNameBytes'
    BY <1>9 DEF RecordSelection, Goto, tree, scanning, rows, process
  <1>10. ASSUME NEW c \in Call, NextCandidates(c)
        PROVE  ChangesNameBytes'
    <2>1. NextCandidatesEffect(c)
      BY <1>10, NextCandidatesDoes
    <2> QED
      BY <2>1 DEF NextCandidatesEffect
  <1>11. ASSUME NEW c \in Call, NEW g \in Files, OpenFile(c, g)
        PROVE  ChangesNameBytes'
    <2>1. OpenFileEffect(c, g)
      BY <1>11, OpenFileDoes
    <2> QED
      BY <2>1 DEF OpenFileEffect
  <1>12. ASSUME NEW c \in Call, NEW g \in Files, ReadFile(c, g)
        PROVE  ChangesNameBytes'
    BY <1>12 DEF ReadFile, Hashes, Advance, tree, scanning, rows, process
  <1>13. ASSUME NEW c \in Call, NEW g \in Files, CloseFile(c, g)
        PROVE  ChangesNameBytes'
    <2>1. CloseFileEffect(c, g)
      BY <1>13, CloseFileDoes
    <2> QED
      BY <2>1 DEF CloseFileEffect
  <1>14. ASSUME NEW c \in Call, NEW g \in Files, FileFails(c, g)
        PROVE  ChangesNameBytes'
    BY <1>14 DEF FileFails, Hashes, tree, scanning, rows, process
  <1>15. ASSUME NEW c \in Call, CommitBatch(c)
        PROVE  ChangesNameBytes'
    <2>1. UNCHANGED <<disk, changes, obs>>
      BY <1>15, CommitBatchDoes DEF CommitBatchEffect
    <2> QED
      BY <2>1
  <1>16. ASSUME NEW c \in Call, Finish(c)
        PROVE  ChangesNameBytes'
    <2>1. UNCHANGED <<disk, changes, obs>>
      BY <1>16, FinishDoes DEF FinishEffect
    <2> QED
      BY <2>1
  <1>17. ASSUME NEW c \in Call, AbandonOwned(c)
        PROVE  ChangesNameBytes'
    <2>1. AbandonOwnedEffect(c)
      BY <1>17, AbandonOwnedDoes
    <2> QED
      BY <2>1 DEF AbandonOwnedEffect, Free
  <1>18. ASSUME NEW c \in Call, Interrupt(c)
        PROVE  ChangesNameBytes'
    BY <1>18 DEF Interrupt, Works, Goto, tree, scanning, rows, process
  <1>19. ASSUME NEW c \in Call, Crash(c)
        PROVE  ChangesNameBytes'
    BY <1>19 DEF Crash, Leave, Goto, tree, scanning, rows, process
  <1>20. ASSUME NEW c \in Call, HeartbeatFails(c)
        PROVE  ChangesNameBytes'
    BY <1>20 DEF HeartbeatFails, tree, scanning, rows, process
  <1>21. CASE LeaseExpires
    BY <1>21 DEF LeaseExpires, tree, scanning, rows, process
  <1> QED
    BY <1>1, <1>2, <1>3, <1>4, <1>5, <1>6, <1>7, <1>8, <1>9, <1>10, <1>11,
       <1>12, <1>13, <1>14, <1>15, <1>16, <1>17, <1>18, <1>19, <1>20, <1>21 DEF Next, Step, Hash

(* Only completed scans have full hashes.                                  *)
LEMMA HashedScansStay ==
    ASSUME Shape, CallShape, ScansAreOrdered, CallsHaveAScan,
           OnlyCompletedScansAreHashed, Shape', Next
    PROVE  OnlyCompletedScansAreHashed'
  <1> USE HashingAssumption
          DEF Shape, CallShape, CallsHaveAScan, Scans, ScansAreOrdered,
               OnlyCompletedScansAreHashed
  <1>1. ASSUME NEW g \in Files, NEW b \in Bytes, WriteFile(g, b)
        PROVE  OnlyCompletedScansAreHashed'
    BY <1>1 DEF WriteFile, tree, scanning, rows, process
  <1>2. CASE StartScan
    <2>1. full' = full /\ scans \in Nat
      BY <1>2 DEF StartScan
    <2>2. scan' = [scan EXCEPT ![scans + 1] = "RUNNING"] /\ scans < MaxScans
      BY <1>2 DEF StartScan
    <2>3. scan[scans + 1] = "NOT_STARTED"
      BY <2>1, <2>2
    <2>4. \A s \in Scans : scan[s] = "COMPLETED" => scan'[s] = "COMPLETED"
      BY <2>2, <2>3
    <2> QED
      BY <2>1, <2>4
  <1>3. CASE ListFiles
    BY <1>3 DEF ListFiles, tree, scanning, rows, process
  <1>4. CASE HashAndFinish
    BY <1>4 DEF HashAndFinish, Free, tree, scanning, rows, process
  <1>5. CASE FailScan
    BY <1>5 DEF FailScan, Free, tree, scanning, rows, process
  <1>6. ASSUME NEW c \in Call, NEW n \in Limit, Enrich(c, n)
        PROVE  OnlyCompletedScansAreHashed'
    BY <1>6 DEF Enrich, Goto, LatestCompleted, tree, scanning, rows, process
  <1>7. ASSUME NEW c \in Call, Acquire(c)
        PROVE  OnlyCompletedScansAreHashed'
    <2>1. AcquireEffect(c)
      BY <1>7, AcquireDoes
    <2> QED
      BY <2>1 DEF AcquireEffect
  <1>8. ASSUME NEW c \in Call, PrepareSnapshot(c)
        PROVE  OnlyCompletedScansAreHashed'
    BY <1>8 DEF PrepareSnapshot, Goto, tree, scanning, rows, process
  <1>9. ASSUME NEW c \in Call, RecordSelection(c)
        PROVE  OnlyCompletedScansAreHashed'
    BY <1>9 DEF RecordSelection, Goto, tree, scanning, rows, process
  <1>10. ASSUME NEW c \in Call, NextCandidates(c)
        PROVE  OnlyCompletedScansAreHashed'
    <2>1. NextCandidatesEffect(c)
      BY <1>10, NextCandidatesDoes
    <2> QED
      BY <2>1 DEF NextCandidatesEffect
  <1>11. ASSUME NEW c \in Call, NEW g \in Files, OpenFile(c, g)
        PROVE  OnlyCompletedScansAreHashed'
    <2>1. OpenFileEffect(c, g)
      BY <1>11, OpenFileDoes
    <2> QED
      BY <2>1 DEF OpenFileEffect
  <1>12. ASSUME NEW c \in Call, NEW g \in Files, ReadFile(c, g)
        PROVE  OnlyCompletedScansAreHashed'
    BY <1>12 DEF ReadFile, Hashes, Advance, tree, scanning, rows, process
  <1>13. ASSUME NEW c \in Call, NEW g \in Files, CloseFile(c, g)
        PROVE  OnlyCompletedScansAreHashed'
    <2>1. CloseFileEffect(c, g)
      BY <1>13, CloseFileDoes
    <2> QED
      BY <2>1 DEF CloseFileEffect
  <1>14. ASSUME NEW c \in Call, NEW g \in Files, FileFails(c, g)
        PROVE  OnlyCompletedScansAreHashed'
    BY <1>14 DEF FileFails, Hashes, tree, scanning, rows, process
  <1>15. ASSUME NEW c \in Call, CommitBatch(c)
        PROVE  OnlyCompletedScansAreHashed'
    <2>1. CommitBatchEffect(c)
      BY <1>15, CommitBatchDoes
    <2>2. scan' = scan /\ source[c] \in Scans /\ scan[source[c]] = "COMPLETED"
      BY <2>1 DEF CommitBatchEffect
    <2>3. \A s \in Scans \ {source[c]} : full'[s] = full[s]
      BY <2>1, <2>2 DEF CommitBatchEffect
    <2> QED
      BY <2>2, <2>3
  <1>16. ASSUME NEW c \in Call, Finish(c)
        PROVE  OnlyCompletedScansAreHashed'
    <2>1. FinishEffect(c)
      BY <1>16, FinishDoes
    <2> QED
      BY <2>1 DEF FinishEffect, Free
  <1>17. ASSUME NEW c \in Call, AbandonOwned(c)
        PROVE  OnlyCompletedScansAreHashed'
    <2>1. AbandonOwnedEffect(c)
      BY <1>17, AbandonOwnedDoes
    <2> QED
      BY <2>1 DEF AbandonOwnedEffect, Free
  <1>18. ASSUME NEW c \in Call, Interrupt(c)
        PROVE  OnlyCompletedScansAreHashed'
    BY <1>18 DEF Interrupt, Works, Goto, tree, scanning, rows, process
  <1>19. ASSUME NEW c \in Call, Crash(c)
        PROVE  OnlyCompletedScansAreHashed'
    BY <1>19 DEF Crash, Leave, Goto, tree, scanning, rows, process
  <1>20. ASSUME NEW c \in Call, HeartbeatFails(c)
        PROVE  OnlyCompletedScansAreHashed'
    BY <1>20 DEF HeartbeatFails, tree, scanning, rows, process
  <1>21. CASE LeaseExpires
    BY <1>21 DEF LeaseExpires, tree, scanning, rows, process
  <1> QED
    BY <1>1, <1>2, <1>3, <1>4, <1>5, <1>6, <1>7, <1>8, <1>9, <1>10, <1>11,
       <1>12, <1>13, <1>14, <1>15, <1>16, <1>17, <1>18, <1>19, <1>20, <1>21 DEF Next, Step, Hash

(* The owner of the lease stays on the latest scan.                        *)
LEMMA OwnersStayOnTheLatest ==
    ASSUME Shape, CallShape, ScansAreOrdered, SourceStaysLatest, Next
    PROVE  SourceStaysLatest'
  <1> USE HashingAssumption DEF SourceStaysLatest, LatestCompleted
  <1>1. ASSUME NEW g \in Files, NEW b \in Bytes, WriteFile(g, b)
        PROVE  SourceStaysLatest'
    BY <1>1 DEF WriteFile, tree, scanning, rows, process
  <1>2. CASE StartScan
    BY <1>2 DEF StartScan, Free, tree, scanning, rows, process
  <1>3. CASE ListFiles
    BY <1>3 DEF ListFiles, tree, scanning, rows, process
  <1>4. CASE HashAndFinish
    BY <1>4 DEF HashAndFinish, Free, tree, scanning, rows, process
  <1>5. CASE FailScan
    BY <1>5 DEF FailScan, Free, tree, scanning, rows, process
  <1>6. ASSUME NEW c \in Call, NEW n \in Limit, Enrich(c, n)
        PROVE  SourceStaysLatest'
    BY <1>6 DEF Enrich, Goto, LatestCompleted, tree, scanning, rows, process
  <1>7. ASSUME NEW c \in Call, Acquire(c)
        PROVE  SourceStaysLatest'
    <2>1. AcquireEffect(c)
      BY <1>7, AcquireDoes
    <2> QED
      BY <2>1 DEF AcquireEffect, Shape, CallShape
  <1>8. ASSUME NEW c \in Call, PrepareSnapshot(c)
        PROVE  SourceStaysLatest'
    BY <1>8 DEF PrepareSnapshot, Goto, tree, scanning, rows, process
  <1>9. ASSUME NEW c \in Call, RecordSelection(c)
        PROVE  SourceStaysLatest'
    BY <1>9 DEF RecordSelection, Goto, tree, scanning, rows, process
  <1>10. ASSUME NEW c \in Call, NextCandidates(c)
        PROVE  SourceStaysLatest'
    <2>1. NextCandidatesEffect(c)
      BY <1>10, NextCandidatesDoes
    <2> QED
      BY <2>1 DEF NextCandidatesEffect
  <1>11. ASSUME NEW c \in Call, NEW g \in Files, OpenFile(c, g)
        PROVE  SourceStaysLatest'
    <2>1. OpenFileEffect(c, g)
      BY <1>11, OpenFileDoes
    <2> QED
      BY <2>1 DEF OpenFileEffect
  <1>12. ASSUME NEW c \in Call, NEW g \in Files, ReadFile(c, g)
        PROVE  SourceStaysLatest'
    BY <1>12 DEF ReadFile, Hashes, Advance, tree, scanning, rows, process
  <1>13. ASSUME NEW c \in Call, NEW g \in Files, CloseFile(c, g)
        PROVE  SourceStaysLatest'
    <2>1. CloseFileEffect(c, g)
      BY <1>13, CloseFileDoes
    <2> QED
      BY <2>1 DEF CloseFileEffect
  <1>14. ASSUME NEW c \in Call, NEW g \in Files, FileFails(c, g)
        PROVE  SourceStaysLatest'
    BY <1>14 DEF FileFails, Hashes, tree, scanning, rows, process
  <1>15. ASSUME NEW c \in Call, CommitBatch(c)
        PROVE  SourceStaysLatest'
    <2>1. CommitBatchEffect(c)
      BY <1>15, CommitBatchDoes
    <2> QED
      BY <2>1 DEF CommitBatchEffect
  <1>16. ASSUME NEW c \in Call, Finish(c)
        PROVE  SourceStaysLatest'
    <2>1. FinishEffect(c)
      BY <1>16, FinishDoes
    <2> QED
      BY <2>1 DEF FinishEffect, Shape, CallShape, Free
  <1>17. ASSUME NEW c \in Call, AbandonOwned(c)
        PROVE  SourceStaysLatest'
    <2>1. AbandonOwnedEffect(c)
      BY <1>17, AbandonOwnedDoes
    <2> QED
      BY <2>1 DEF AbandonOwnedEffect, Shape, CallShape, Free
  <1>18. ASSUME NEW c \in Call, Interrupt(c)
        PROVE  SourceStaysLatest'
    BY <1>18 DEF Interrupt, Works, Goto, tree, scanning, rows, process
  <1>19. ASSUME NEW c \in Call, Crash(c)
        PROVE  SourceStaysLatest'
    BY <1>19 DEF Crash, Leave, Goto, tree, scanning, rows, process
  <1>20. ASSUME NEW c \in Call, HeartbeatFails(c)
        PROVE  SourceStaysLatest'
    BY <1>20 DEF HeartbeatFails, tree, scanning, rows, process
  <1>21. CASE LeaseExpires
    BY <1>21 DEF LeaseExpires, tree, scanning, rows, process, Shape, CallShape
  <1> QED
    BY <1>1, <1>2, <1>3, <1>4, <1>5, <1>6, <1>7, <1>8, <1>9, <1>10, <1>11,
       <1>12, <1>13, <1>14, <1>15, <1>16, <1>17, <1>18, <1>19, <1>20, <1>21 DEF Next, Step, Hash

(* A call that works at a file has a completed scan, and has taken it.     *)
LEMMA BusyCallsHaveAScan ==
    ASSUME CallShape, CallsHaveAScan,
           NEW h \in Call, NEW f \in Files, work[h][f].step # "none"
    PROVE  /\ pc[h] \notin {"idle", "acquire", "snapshot"} /\ f \notin left[h]
           /\ source[h] \in Scans /\ scan[source[h]] = "COMPLETED"
  <1>1. pc[h] \notin {"idle", "acquire", "snapshot"} /\ f \notin left[h]
    BY DEF CallsHaveAScan
  <1>2. source[h] # 0
    BY <1>1 DEF CallsHaveAScan
  <1>3. source[h] \in Scans
    BY <1>2, HashingAssumption DEF CallShape, Scans
  <1>4. scan[source[h]] = "COMPLETED"
    BY <1>2 DEF CallsHaveAScan
  <1> QED
    BY <1>1, <1>3, <1>4

(* A call keeps its completed scan, and chooses before it works.           *)
LEMMA CallsKeepTheirScan ==
    ASSUME Shape, CallShape, ScansAreOrdered, CallsHaveAScan, CallShape', Next
    PROVE  CallsHaveAScan'
  <1> USE HashingAssumption DEF CallShape, CallsHaveAScan, Scans, NoWork
  <1>1. ASSUME NEW g \in Files, NEW b \in Bytes, WriteFile(g, b)
        PROVE  CallsHaveAScan'
    BY <1>1 DEF WriteFile, tree, scanning, rows, process
  <1>2. CASE StartScan
    <2>1. /\ scans \in Nat /\ scans < MaxScans
          /\ scan' = [scan EXCEPT ![scans + 1] = "RUNNING"]
          /\ UNCHANGED <<source, pc, left, work>>
      BY <1>2 DEF StartScan, rows, process, Shape
    <2>2. scan[scans + 1] = "NOT_STARTED"
      BY <2>1 DEF ScansAreOrdered
    <2>3. \A s \in Scans : scan[s] = "COMPLETED" => scan'[s] = "COMPLETED"
      BY <2>1, <2>2 DEF Shape
    <2> QED
      BY <2>1, <2>3
  <1>3. CASE ListFiles
    BY <1>3 DEF ListFiles, tree, scanning, rows, process
  <1>4. CASE HashAndFinish
    <2>1. /\ scan' = [scan EXCEPT ![scans] = "COMPLETED"]
          /\ UNCHANGED <<source, pc, left, work>>
      BY <1>4 DEF HashAndFinish, rows, process
    <2>2. \A s \in Scans : scan[s] = "COMPLETED" => scan'[s] = "COMPLETED"
      BY <2>1 DEF Shape
    <2> QED
      BY <2>1, <2>2
  <1>5. CASE FailScan
    BY <1>5
       DEF FailScan, Free, tree, scanning, rows, process, Shape,
           ScansAreOrdered
  <1>6. ASSUME NEW c \in Call, NEW n \in Limit, Enrich(c, n)
        PROVE  CallsHaveAScan'
    <2>1. /\ pc[c] = "idle" /\ pc' = [pc EXCEPT ![c] = "acquire"]
          /\ UNCHANGED <<source, scan, left, work>>
      BY <1>6 DEF Enrich, Goto, scanning, rows
    <2> QED
      BY <2>1
  <1>7. ASSUME NEW c \in Call, Acquire(c)
        PROVE  CallsHaveAScan'
    <2>1. AcquireEffect(c)
      BY <1>7, AcquireDoes
    <2> QED
      BY <2>1 DEF AcquireEffect, LatestCompleted
  <1>8. ASSUME NEW c \in Call, PrepareSnapshot(c)
        PROVE  CallsHaveAScan'
    BY <1>8 DEF PrepareSnapshot, Goto, tree, scanning, rows, process
  <1>9. ASSUME NEW c \in Call, RecordSelection(c)
        PROVE  CallsHaveAScan'
    BY <1>9 DEF RecordSelection, Goto, tree, scanning, rows, process
  <1>10. ASSUME NEW c \in Call, NextCandidates(c)
        PROVE  CallsHaveAScan'
    <2>1. NextCandidatesEffect(c)
      BY <1>10, NextCandidatesDoes
    <2> QED
      BY <2>1 DEF NextCandidatesEffect
  <1>11. ASSUME NEW c \in Call, NEW g \in Files, OpenFile(c, g)
        PROVE  CallsHaveAScan'
    <2>1. OpenFileEffect(c, g)
      BY <1>11, OpenFileDoes
    <2> QED
      BY <2>1 DEF OpenFileEffect
  <1>12. ASSUME NEW c \in Call, NEW g \in Files, ReadFile(c, g)
        PROVE  CallsHaveAScan'
    BY <1>12 DEF ReadFile, Hashes, Advance, tree, scanning, rows, process
  <1>13. ASSUME NEW c \in Call, NEW g \in Files, CloseFile(c, g)
        PROVE  CallsHaveAScan'
    <2>1. /\ UNCHANGED <<disk, obs, full, lease, source, scan, pc, left>> /\ pc[c] = "hash"
          /\ work[c][g].step = "read"
          /\ \/ work'[c][g].step = "ok" /\ work'[c][g].value = work[c][g].value /\ AsObserved(c, g)
             \/ work'[c][g].step = "failed"
          /\ \A h \in Call, f \in Files : h # c \/ f # g => work'[h][f] = work[h][f]
      BY <1>13, CloseFileDoes DEF CloseFileEffect, CallShape
    <2> QED
      BY <2>1
  <1>14. ASSUME NEW c \in Call, NEW g \in Files, FileFails(c, g)
        PROVE  CallsHaveAScan'
    BY <1>14 DEF FileFails, Hashes, tree, scanning, rows, process
  <1>15. ASSUME NEW c \in Call, CommitBatch(c)
        PROVE  CallsHaveAScan'
    <2>1. CommitBatchEffect(c)
      BY <1>15, CommitBatchDoes
    <2> QED
      BY <2>1 DEF CommitBatchEffect
  <1>16. ASSUME NEW c \in Call, Finish(c)
        PROVE  CallsHaveAScan'
    <2>1. FinishEffect(c)
      BY <1>16, FinishDoes
    <2> QED
      BY <2>1 DEF FinishEffect, Free
  <1>17. ASSUME NEW c \in Call, AbandonOwned(c)
        PROVE  CallsHaveAScan'
    <2>1. AbandonOwnedEffect(c)
      BY <1>17, AbandonOwnedDoes
    <2> QED
      BY <2>1 DEF AbandonOwnedEffect, Free
  <1>18. ASSUME NEW c \in Call, Interrupt(c)
        PROVE  CallsHaveAScan'
    BY <1>18 DEF Interrupt, Works, Goto, tree, scanning, rows, process
  <1>19. ASSUME NEW c \in Call, Crash(c)
        PROVE  CallsHaveAScan'
    BY <1>19 DEF Crash, Leave, Goto, tree, scanning, rows, process
  <1>20. ASSUME NEW c \in Call, HeartbeatFails(c)
        PROVE  CallsHaveAScan'
    BY <1>20 DEF HeartbeatFails, tree, scanning, rows, process
  <1>21. CASE LeaseExpires
    BY <1>21 DEF LeaseExpires, tree, scanning, rows, process
  <1> QED
    BY <1>1, <1>2, <1>3, <1>4, <1>5, <1>6, <1>7, <1>8, <1>9, <1>10, <1>11,
       <1>12, <1>13, <1>14, <1>15, <1>16, <1>17, <1>18, <1>19, <1>20, <1>21 DEF Next, Step, Hash

(* What is read of an unchanged file stays what was listed.                *)
LEMMA WorkStaysOfTheListing ==
    ASSUME Shape, CallShape, ScansAreOrdered, ChangesNameBytes, CallsHaveAScan,
           WorkIsOfTheListing, Next
    PROVE  WorkIsOfTheListing'
  <1> USE DEF WorkIsOfTheListing, AsObserved
  <1>1. ASSUME NEW g \in Files, NEW b \in Bytes, WriteFile(g, b)
        PROVE  WorkIsOfTheListing'
    <2>1. /\ UNCHANGED <<obs, source, work>>
          /\ \A f \in Files : disk'[f] = disk[f] \/ disk'[f].change = changes + 1
      BY <1>1 DEF WriteFile, scanning, rows, process, Shape
    <2>2. \A h \in Call, f \in Files : work[h][f].step # "none" =>
             source[h] \in Scans /\ scan[source[h]] = "COMPLETED"
      BY BusyCallsHaveAScan
    <2>3. \A s \in Scans, f \in Files : obs[s][f].change # changes + 1
      BY DEF Shape, ChangesNameBytes
    <2>4. \A h \in Call, f \in Files :
             source[h] \in Scans /\ AsObserved(h, f)' => AsObserved(h, f)
      BY <2>1, <2>3
    <2> QED
      BY <2>1, <2>2, <2>4
  <1>2. CASE StartScan
    BY <1>2 DEF StartScan, Free, tree, scanning, rows, process
  <1>3. CASE ListFiles
    <2>1. /\ UNCHANGED <<disk, source, work>>
          /\ obs' = [obs EXCEPT ![scans] = disk]
      BY <1>3 DEF ListFiles, tree, rows, process
    <2>2. \A h \in Call, f \in Files : work[h][f].step # "none" =>
             source[h] \in Scans /\ scan[source[h]] = "COMPLETED"
      BY BusyCallsHaveAScan
    <2>3. scan[scans] = "RUNNING"
      BY <1>3 DEF ListFiles, ScansAreOrdered
    <2>4. \A h \in Call, f \in Files :
             work[h][f].step # "none" => obs'[source[h]] = obs[source[h]]
      BY <2>1, <2>2, <2>3 DEF Shape
    <2> QED
      BY <2>1, <2>4
  <1>4. CASE HashAndFinish
    BY <1>4 DEF HashAndFinish, Free, tree, scanning, rows, process
  <1>5. CASE FailScan
    BY <1>5 DEF FailScan, Free, tree, scanning, rows, process
  <1>6. ASSUME NEW c \in Call, NEW n \in Limit, Enrich(c, n)
        PROVE  WorkIsOfTheListing'
    BY <1>6 DEF Enrich, Goto, LatestCompleted, tree, scanning, rows, process
  <1>7. ASSUME NEW c \in Call, Acquire(c)
        PROVE  WorkIsOfTheListing'
    <2>1. AcquireEffect(c)
      BY <1>7, AcquireDoes
    <2>2. /\ UNCHANGED <<disk, obs>>
          /\ \A h \in Call \ {c} : source'[h] = source[h] /\ work'[h] = work[h]
          /\ \A f \in Files : work'[c][f].step = "none"
      BY <2>1 DEF AcquireEffect, CallShape, CallsHaveAScan, NoWork
    <2> QED
      BY <2>2
  <1>8. ASSUME NEW c \in Call, PrepareSnapshot(c)
        PROVE  WorkIsOfTheListing'
    BY <1>8 DEF PrepareSnapshot, Goto, tree, scanning, rows, process
  <1>9. ASSUME NEW c \in Call, RecordSelection(c)
        PROVE  WorkIsOfTheListing'
    BY <1>9 DEF RecordSelection, Goto, tree, scanning, rows, process
  <1>10. ASSUME NEW c \in Call, NextCandidates(c)
        PROVE  WorkIsOfTheListing'
    <2>1. NextCandidatesEffect(c)
      BY <1>10, NextCandidatesDoes
    <2>2. UNCHANGED <<disk, obs, source>>
      BY <2>1 DEF NextCandidatesEffect
    <2>3. \A h \in Call, f \in Files :
             work'[h][f] = work[h][f] \/ work'[h][f].step \in {"none", "due"}
      <3>1. CASE UNCHANGED <<left, work>>
        BY <3>1
      <3>2. ASSUME NEW batch \in SUBSET left[c],
                   /\ left' = [left EXCEPT ![c] = left[c] \ batch]
                   /\ work' = [work EXCEPT ![c] = [f \in Files |->
                         [step |-> IF f \in batch THEN "due" ELSE "none", value |-> None]]],
                   NEW h \in Call, NEW f \in Files
            PROVE  work'[h][f].step \in {"none", "due"} \/ work'[h][f] = work[h][f]
        <4>1. CASE h = c
          BY <3>2, <4>1 DEF CallShape
        <4>2. CASE h # c
          BY <3>2, <4>2 DEF CallShape
        <4> QED
          BY <4>1, <4>2
      <3> QED
        BY <2>1, <3>1, <3>2 DEF NextCandidatesEffect
    <2> QED
      BY <2>2, <2>3
  <1>11. ASSUME NEW c \in Call, NEW g \in Files, OpenFile(c, g)
        PROVE  WorkIsOfTheListing'
    <2>1. /\ UNCHANGED <<disk, obs, full, lease, source, scan, pc, left>> /\ pc[c] = "hash"
          /\ work[c][g].step = "due" /\ work'[c][g].step \in {"open", "failed"}
          /\ \A h \in Call, f \in Files : h # c \/ f # g => work'[h][f] = work[h][f]
      BY <1>11, OpenFileDoes DEF OpenFileEffect, CallShape
    <2> QED
      BY <2>1
  <1>12. ASSUME NEW c \in Call, NEW g \in Files, ReadFile(c, g)
        PROVE  WorkIsOfTheListing'
    <2>1. /\ UNCHANGED <<disk, obs, full, lease, source, scan, pc, left>> /\ pc[c] = "hash"
          /\ work[c][g].step = "open"
          /\ work'[c][g].step = "read" /\ work'[c][g].value = disk[g].bytes
          /\ \A h \in Call, f \in Files : h # c \/ f # g => work'[h][f] = work[h][f]
      BY <1>12
         DEF ReadFile, Hashes, Advance, tree, scanning, rows, process,
             CallShape
    <2>2. source[c] \in Scans
      BY <2>1, BusyCallsHaveAScan
    <2>3. AsObserved(c, g) => work'[c][g].value = obs[source[c]][g].bytes
      BY <2>1, <2>2 DEF ChangesNameBytes
    <2>4. ASSUME NEW h \in Call, NEW f \in Files
          PROVE  /\ work'[h][f].step = "ok" => work'[h][f].value = obs'[source'[h]][f].bytes
                 /\ work'[h][f].step = "read" /\ AsObserved(h, f)'
                       => work'[h][f].value = obs'[source'[h]][f].bytes
      <3>1. CASE h = c /\ f = g
        BY <2>1, <2>3, <3>1
      <3>2. CASE h # c \/ f # g
        BY <2>1, <3>2
      <3> QED
        BY <3>1, <3>2
    <2> QED
      BY <2>4
  <1>13. ASSUME NEW c \in Call, NEW g \in Files, CloseFile(c, g)
        PROVE  WorkIsOfTheListing'
    <2>1. /\ UNCHANGED <<disk, obs, full, lease, source, scan, pc, left>> /\ pc[c] = "hash"
          /\ work[c][g].step = "read"
          /\ \/ work'[c][g].step = "ok" /\ work'[c][g].value = work[c][g].value /\ AsObserved(c, g)
             \/ work'[c][g].step = "failed"
          /\ \A h \in Call, f \in Files : h # c \/ f # g => work'[h][f] = work[h][f]
      BY <1>13, CloseFileDoes DEF CloseFileEffect, CallShape
    <2> QED
      BY <2>1
  <1>14. ASSUME NEW c \in Call, NEW g \in Files, FileFails(c, g)
        PROVE  WorkIsOfTheListing'
    BY <1>14 DEF FileFails, Hashes, tree, scanning, rows, process, CallShape
  <1>15. ASSUME NEW c \in Call, CommitBatch(c)
        PROVE  WorkIsOfTheListing'
    <2>1. CommitBatchEffect(c)
      BY <1>15, CommitBatchDoes
    <2> QED
      BY <2>1 DEF CommitBatchEffect, CallShape, NoWork
  <1>16. ASSUME NEW c \in Call, Finish(c)
        PROVE  WorkIsOfTheListing'
    <2>1. FinishEffect(c)
      BY <1>16, FinishDoes
    <2>2. UNCHANGED <<disk, obs, source>>
      BY <2>1 DEF FinishEffect
    <2>3. work' = work \/ work' = [work EXCEPT ![c] = NoWork]
      BY <2>1 DEF FinishEffect
    <2>4. \A h \in Call, f \in Files :
             work'[h][f] = work[h][f] \/ work'[h][f].step = "none"
      <3>1. CASE work' = work
        BY <3>1
      <3>2. CASE work' = [work EXCEPT ![c] = NoWork]
        <4>1. \A h \in Call : work'[h] = IF h = c THEN NoWork ELSE work[h]
          BY <3>2 DEF CallShape
        <4> QED
          BY <4>1 DEF NoWork
      <3> QED
        BY <2>3, <3>1, <3>2
    <2> QED
      BY <2>2, <2>4
  <1>17. ASSUME NEW c \in Call, AbandonOwned(c)
        PROVE  WorkIsOfTheListing'
    <2>1. AbandonOwnedEffect(c)
      BY <1>17, AbandonOwnedDoes
    <2> QED
      BY <2>1 DEF AbandonOwnedEffect, CallShape, NoWork, Free
  <1>18. ASSUME NEW c \in Call, Interrupt(c)
        PROVE  WorkIsOfTheListing'
    BY <1>18 DEF Interrupt, Works, Goto, tree, scanning, rows, process
  <1>19. ASSUME NEW c \in Call, Crash(c)
        PROVE  WorkIsOfTheListing'
    BY <1>19
       DEF Crash, Leave, Goto, tree, scanning, rows, process, CallShape, NoWork
  <1>20. ASSUME NEW c \in Call, HeartbeatFails(c)
        PROVE  WorkIsOfTheListing'
    BY <1>20 DEF HeartbeatFails, tree, scanning, rows, process
  <1>21. CASE LeaseExpires
    BY <1>21 DEF LeaseExpires, tree, scanning, rows, process
  <1> QED
    BY <1>1, <1>2, <1>3, <1>4, <1>5, <1>6, <1>7, <1>8, <1>9, <1>10, <1>11,
       <1>12, <1>13, <1>14, <1>15, <1>16, <1>17, <1>18, <1>19, <1>20, <1>21 DEF Next, Step, Hash

(* Full hashes stay those of the listing.                                  *)
LEMMA HashesStayOfTheListing ==
    ASSUME Shape, CallShape, ScansAreOrdered, ChangesNameBytes, CallsHaveAScan,
           WorkIsOfTheListing,
           OnlyCompletedScansAreHashed, FullHashIsOfTheListing, Next
    PROVE  FullHashIsOfTheListing'
  <1> USE HashingAssumption DEF FullHashIsOfTheListing
  <1>0. /\ \A f \in Files : disk[f].change \in Nat
        /\ \A s \in Scans, f \in Files :
             obs[s][f].change \in Nat /\ obs[s][f].change <= changes
        /\ changes \in Nat
    BY DEF Shape, ChangesNameBytes
  <1>1. ASSUME NEW g \in Files, NEW b \in Bytes, WriteFile(g, b)
        PROVE  FullHashIsOfTheListing'
    <2>1. /\ UNCHANGED <<obs, full>>
          /\ \A f \in Files : disk'[f] = disk[f] \/ disk'[f].change = changes + 1
      BY <1>1 DEF WriteFile, scanning, Shape
    <2>2. \A s \in Scans, f \in Files :
            disk[f].change # obs[s][f].change => disk'[f].change # obs[s][f].change
      BY <1>0, <2>1
    <2> QED
      BY <2>1, <2>2
  <1>2. CASE StartScan
    BY <1>2 DEF StartScan, Free, tree, scanning, rows, process
  <1>3. CASE ListFiles
    BY <1>3
       DEF ListFiles, tree, scanning, rows, process, Shape, ScansAreOrdered,
       OnlyCompletedScansAreHashed, Scans
  <1>4. CASE HashAndFinish
    <2>1. HashAndFinishEffect
      BY <1>4, HashAndFinishDoes
    <2>2. scans \in Scans /\ UNCHANGED <<disk, obs>>
      BY <2>1 DEF HashAndFinishEffect
    <2>3. PICK row \in [Files -> Row] :
            /\ full' = [full EXCEPT ![scans] = row]
            /\ \A f \in Files : row[f].rows > 0 =>
                 \/ row[f].by = "scan" /\ row[f].value = disk[f].bytes
                 \/ \E t \in Scans :
                      /\ obs[t][f].change = obs[scans][f].change
                      /\ full[t][f].rows > 0
                      /\ row[f].value = full[t][f].value
                      /\ row[f].by = full[t][f].by
      BY <2>1 DEF HashAndFinishEffect
    <2>4. ASSUME NEW f \in Files, row[f].rows > 0
          PROVE  \/ row[f].value = obs[scans][f].bytes
                 \/ row[f].by = "scan" /\ disk[f].change # obs[scans][f].change
      <3>1. CASE row[f].by = "scan" /\ row[f].value = disk[f].bytes
        BY <2>2, <3>1 DEF ChangesNameBytes
      <3>2. CASE \E t \in Scans :
                   /\ obs[t][f].change = obs[scans][f].change
                   /\ full[t][f].rows > 0
                   /\ row[f].value = full[t][f].value
                   /\ row[f].by = full[t][f].by
        <4>1. PICK t \in Scans :
                /\ obs[t][f].change = obs[scans][f].change
                /\ full[t][f].rows > 0
                /\ row[f].value = full[t][f].value
                /\ row[f].by = full[t][f].by
          BY <3>2
        <4>2. obs[t][f].bytes = obs[scans][f].bytes
          BY <2>2, <4>1 DEF ChangesNameBytes
        <4> QED
          BY <4>1, <4>2
      <3> QED
        BY <2>3, <2>4, <3>1, <3>2
    <2>5. \A s \in Scans, f \in Files :
            full'[s][f] = IF s = scans THEN row[f] ELSE full[s][f]
      BY <2>2, <2>3 DEF Shape
    <2> QED
      BY <2>2, <2>4, <2>5
  <1>5. CASE FailScan
    BY <1>5 DEF FailScan, Free, tree, scanning, rows, process
  <1>6. ASSUME NEW c \in Call, NEW n \in Limit, Enrich(c, n)
        PROVE  FullHashIsOfTheListing'
    BY <1>6 DEF Enrich, Goto, LatestCompleted, tree, scanning, rows, process
  <1>7. ASSUME NEW c \in Call, Acquire(c)
        PROVE  FullHashIsOfTheListing'
    <2>1. AcquireEffect(c)
      BY <1>7, AcquireDoes
    <2> QED
      BY <2>1 DEF AcquireEffect
  <1>8. ASSUME NEW c \in Call, PrepareSnapshot(c)
        PROVE  FullHashIsOfTheListing'
    BY <1>8 DEF PrepareSnapshot, Goto, tree, scanning, rows, process
  <1>9. ASSUME NEW c \in Call, RecordSelection(c)
        PROVE  FullHashIsOfTheListing'
    BY <1>9 DEF RecordSelection, Goto, tree, scanning, rows, process
  <1>10. ASSUME NEW c \in Call, NextCandidates(c)
        PROVE  FullHashIsOfTheListing'
    <2>1. NextCandidatesEffect(c)
      BY <1>10, NextCandidatesDoes
    <2> QED
      BY <2>1 DEF NextCandidatesEffect
  <1>11. ASSUME NEW c \in Call, NEW g \in Files, OpenFile(c, g)
        PROVE  FullHashIsOfTheListing'
    <2>1. OpenFileEffect(c, g)
      BY <1>11, OpenFileDoes
    <2> QED
      BY <2>1 DEF OpenFileEffect
  <1>12. ASSUME NEW c \in Call, NEW g \in Files, ReadFile(c, g)
        PROVE  FullHashIsOfTheListing'
    BY <1>12 DEF ReadFile, Hashes, Advance, tree, scanning, rows, process
  <1>13. ASSUME NEW c \in Call, NEW g \in Files, CloseFile(c, g)
        PROVE  FullHashIsOfTheListing'
    <2>1. CloseFileEffect(c, g)
      BY <1>13, CloseFileDoes
    <2> QED
      BY <2>1 DEF CloseFileEffect
  <1>14. ASSUME NEW c \in Call, NEW g \in Files, FileFails(c, g)
        PROVE  FullHashIsOfTheListing'
    BY <1>14 DEF FileFails, Hashes, tree, scanning, rows, process
  <1>15. ASSUME NEW c \in Call, CommitBatch(c)
        PROVE  FullHashIsOfTheListing'
    <2>1. CommitBatchEffect(c)
      BY <1>15, CommitBatchDoes
    <2>2. source[c] \in Scans /\ obs' = obs /\ disk' = disk
      BY <2>1 DEF CommitBatchEffect, CallsHaveAScan, CallShape, Scans
    <2>3. ASSUME NEW s \in Scans, NEW f \in Files
          PROVE  \/ full'[s][f] = full[s][f]
                 \/ /\ s = source[c] /\ work[c][f].step = "ok" /\ lease.owner = c
                    /\ full'[s][f] = [rows |-> full[s][f].rows + 1, value |-> work[c][f].value, by |-> "enrich"]
      <3>1. CASE full' = full
        BY <3>1
      <3> DEFINE hashed == [e \in Files |->
                   IF e \in InBatch(c, "ok")
                   THEN [rows |-> full[source[c]][e].rows + 1, value |-> work[c][e].value, by |-> "enrich"]
                   ELSE full[source[c]][e]]
      <3>2. CASE lease.owner = c /\ full' = [full EXCEPT ![source[c]] = hashed]
        <4>1. CASE s = source[c]
          <5>1. full'[s][f] = hashed[f]
            BY <2>2, <3>2, <4>1 DEF Shape
          <5> QED
            BY <3>2, <4>1, <5>1 DEF InBatch
        <4>2. CASE s # source[c]
          <5> HIDE DEF hashed
          <5> QED
            BY <2>2, <3>2, <4>2 DEF Shape
        <4> QED
          BY <4>1, <4>2
      <3> QED
        BY <2>1, <3>1, <3>2 DEF CommitBatchEffect
    <2>4. \A f \in Files :
             work[c][f].step = "ok" => work[c][f].value = obs[source[c]][f].bytes
      BY DEF WorkIsOfTheListing
    <2>5. ASSUME NEW s \in Scans, NEW f \in Files, full'[s][f].rows > 0
          PROVE  \/ full'[s][f].value = obs'[s][f].bytes
                 \/ full'[s][f].by = "scan" /\ disk'[f].change # obs'[s][f].change
      <3>1. CASE full'[s][f] = full[s][f]
        BY <2>2, <2>5, <3>1
      <3>2. CASE /\ s = source[c] /\ work[c][f].step = "ok"
                 /\ full'[s][f] = [rows |-> full[s][f].rows + 1, value |-> work[c][f].value, by |-> "enrich"]
        <4>1. full'[s][f].value = work[c][f].value
          BY <3>2
        <4> QED
          BY <2>2, <2>4, <3>2, <4>1
      <3> QED
        BY <2>3, <3>1, <3>2
    <2> QED
      BY <2>5
  <1>16. ASSUME NEW c \in Call, Finish(c)
        PROVE  FullHashIsOfTheListing'
    <2>1. FinishEffect(c)
      BY <1>16, FinishDoes
    <2> QED
      BY <2>1 DEF FinishEffect, Free
  <1>17. ASSUME NEW c \in Call, AbandonOwned(c)
        PROVE  FullHashIsOfTheListing'
    <2>1. AbandonOwnedEffect(c)
      BY <1>17, AbandonOwnedDoes
    <2> QED
      BY <2>1 DEF AbandonOwnedEffect, Free
  <1>18. ASSUME NEW c \in Call, Interrupt(c)
        PROVE  FullHashIsOfTheListing'
    BY <1>18 DEF Interrupt, Works, Goto, tree, scanning, rows, process
  <1>19. ASSUME NEW c \in Call, Crash(c)
        PROVE  FullHashIsOfTheListing'
    BY <1>19 DEF Crash, Leave, Goto, tree, scanning, rows, process
  <1>20. ASSUME NEW c \in Call, HeartbeatFails(c)
        PROVE  FullHashIsOfTheListing'
    BY <1>20 DEF HeartbeatFails, tree, scanning, rows, process
  <1>21. CASE LeaseExpires
    BY <1>21 DEF LeaseExpires, tree, scanning, rows, process
  <1> QED
    BY <1>1, <1>2, <1>3, <1>4, <1>5, <1>6, <1>7, <1>8, <1>9, <1>10, <1>11,
       <1>12, <1>13, <1>14, <1>15, <1>16, <1>17, <1>18, <1>19, <1>20, <1>21 DEF Next, Step, Hash

(* No observation gets a second full hash.                                 *)
LEMMA HashesStayTheOnlyOnes ==
    ASSUME Shape, CallShape, ScansAreOrdered, CallsHaveAScan,
           DueFilesHaveNoHash, OneFullHashPerObservation, Next
    PROVE  OneFullHashPerObservation'
  <1> USE HashingAssumption DEF OneFullHashPerObservation
  <1>1. ASSUME NEW g \in Files, NEW b \in Bytes, WriteFile(g, b)
        PROVE  OneFullHashPerObservation'
    BY <1>1 DEF WriteFile, tree, scanning, rows, process
  <1>2. CASE StartScan
    BY <1>2 DEF StartScan, Free, tree, scanning, rows, process
  <1>3. CASE ListFiles
    BY <1>3 DEF ListFiles, tree, scanning, rows, process
  <1>4. CASE HashAndFinish
    <2>1. HashAndFinishEffect
      BY <1>4, HashAndFinishDoes
    <2>2. PICK row \in [Files -> Row] :
            /\ full' = [full EXCEPT ![scans] = row]
            /\ \A f \in Files : row[f].rows <= 1
      BY <2>1 DEF HashAndFinishEffect
    <2> QED
      BY <2>1, <2>2 DEF HashAndFinishEffect, Shape
  <1>5. CASE FailScan
    BY <1>5 DEF FailScan, Free, tree, scanning, rows, process
  <1>6. ASSUME NEW c \in Call, NEW n \in Limit, Enrich(c, n)
        PROVE  OneFullHashPerObservation'
    BY <1>6 DEF Enrich, Goto, LatestCompleted, tree, scanning, rows, process
  <1>7. ASSUME NEW c \in Call, Acquire(c)
        PROVE  OneFullHashPerObservation'
    <2>1. AcquireEffect(c)
      BY <1>7, AcquireDoes
    <2> QED
      BY <2>1 DEF AcquireEffect
  <1>8. ASSUME NEW c \in Call, PrepareSnapshot(c)
        PROVE  OneFullHashPerObservation'
    BY <1>8 DEF PrepareSnapshot, Goto, tree, scanning, rows, process
  <1>9. ASSUME NEW c \in Call, RecordSelection(c)
        PROVE  OneFullHashPerObservation'
    BY <1>9 DEF RecordSelection, Goto, tree, scanning, rows, process
  <1>10. ASSUME NEW c \in Call, NextCandidates(c)
        PROVE  OneFullHashPerObservation'
    <2>1. NextCandidatesEffect(c)
      BY <1>10, NextCandidatesDoes
    <2> QED
      BY <2>1 DEF NextCandidatesEffect
  <1>11. ASSUME NEW c \in Call, NEW g \in Files, OpenFile(c, g)
        PROVE  OneFullHashPerObservation'
    <2>1. OpenFileEffect(c, g)
      BY <1>11, OpenFileDoes
    <2> QED
      BY <2>1 DEF OpenFileEffect
  <1>12. ASSUME NEW c \in Call, NEW g \in Files, ReadFile(c, g)
        PROVE  OneFullHashPerObservation'
    BY <1>12 DEF ReadFile, Hashes, Advance, tree, scanning, rows, process
  <1>13. ASSUME NEW c \in Call, NEW g \in Files, CloseFile(c, g)
        PROVE  OneFullHashPerObservation'
    <2>1. CloseFileEffect(c, g)
      BY <1>13, CloseFileDoes
    <2> QED
      BY <2>1 DEF CloseFileEffect
  <1>14. ASSUME NEW c \in Call, NEW g \in Files, FileFails(c, g)
        PROVE  OneFullHashPerObservation'
    BY <1>14 DEF FileFails, Hashes, tree, scanning, rows, process
  <1>15. ASSUME NEW c \in Call, CommitBatch(c)
        PROVE  OneFullHashPerObservation'
    <2>1. CommitBatchEffect(c)
      BY <1>15, CommitBatchDoes
    <2>2. source[c] \in Scans /\ obs' = obs
      BY <2>1 DEF CommitBatchEffect, CallsHaveAScan, CallShape, Scans
    <2>3. ASSUME NEW s \in Scans, NEW f \in Files
          PROVE  \/ full'[s][f] = full[s][f]
                 \/ /\ s = source[c] /\ work[c][f].step = "ok" /\ lease.owner = c
                    /\ full'[s][f] = [rows |-> full[s][f].rows + 1, value |-> work[c][f].value, by |-> "enrich"]
      <3>1. CASE full' = full
        BY <3>1
      <3> DEFINE hashed == [e \in Files |->
                   IF e \in InBatch(c, "ok")
                   THEN [rows |-> full[source[c]][e].rows + 1, value |-> work[c][e].value, by |-> "enrich"]
                   ELSE full[source[c]][e]]
      <3>2. CASE lease.owner = c /\ full' = [full EXCEPT ![source[c]] = hashed]
        <4>1. CASE s = source[c]
          <5>1. full'[s][f] = hashed[f]
            BY <2>2, <3>2, <4>1 DEF Shape
          <5> QED
            BY <3>2, <4>1, <5>1 DEF InBatch
        <4>2. CASE s # source[c]
          <5> HIDE DEF hashed
          <5> QED
            BY <2>2, <3>2, <4>2 DEF Shape
        <4> QED
          BY <4>1, <4>2
      <3> QED
        BY <2>1, <3>1, <3>2 DEF CommitBatchEffect
    <2>4. \A f \in Files : work[c][f].step = "ok" /\ lease.owner = c
             => full[source[c]][f].rows = 0
      BY DEF DueFilesHaveNoHash
    <2>5. ASSUME NEW s \in Scans, NEW f \in Files
          PROVE  full'[s][f].rows <= 1
      <3>1. CASE full'[s][f] = full[s][f]
        BY <3>1
      <3>2. CASE /\ s = source[c] /\ work[c][f].step = "ok" /\ lease.owner = c
                 /\ full'[s][f] = [rows |-> full[s][f].rows + 1, value |-> work[c][f].value, by |-> "enrich"]
        BY <2>4, <3>2
      <3> QED
        BY <2>3, <3>1, <3>2
    <2> QED
      BY <2>5
  <1>16. ASSUME NEW c \in Call, Finish(c)
        PROVE  OneFullHashPerObservation'
    <2>1. FinishEffect(c)
      BY <1>16, FinishDoes
    <2> QED
      BY <2>1 DEF FinishEffect, Free
  <1>17. ASSUME NEW c \in Call, AbandonOwned(c)
        PROVE  OneFullHashPerObservation'
    <2>1. AbandonOwnedEffect(c)
      BY <1>17, AbandonOwnedDoes
    <2> QED
      BY <2>1 DEF AbandonOwnedEffect, Free
  <1>18. ASSUME NEW c \in Call, Interrupt(c)
        PROVE  OneFullHashPerObservation'
    BY <1>18 DEF Interrupt, Works, Goto, tree, scanning, rows, process
  <1>19. ASSUME NEW c \in Call, Crash(c)
        PROVE  OneFullHashPerObservation'
    BY <1>19 DEF Crash, Leave, Goto, tree, scanning, rows, process
  <1>20. ASSUME NEW c \in Call, HeartbeatFails(c)
        PROVE  OneFullHashPerObservation'
    BY <1>20 DEF HeartbeatFails, tree, scanning, rows, process
  <1>21. CASE LeaseExpires
    BY <1>21 DEF LeaseExpires, tree, scanning, rows, process
  <1> QED
    BY <1>1, <1>2, <1>3, <1>4, <1>5, <1>6, <1>7, <1>8, <1>9, <1>10, <1>11,
       <1>12, <1>13, <1>14, <1>15, <1>16, <1>17, <1>18, <1>19, <1>20, <1>21 DEF Next, Step, Hash

(* What is due stays without a hash as long as the lease is kept.          *)
LEMMA DueFilesStayUnhashed ==
    ASSUME Shape, CallShape, CallsHaveAScan, DueFilesHaveNoHash, Next
    PROVE  DueFilesHaveNoHash'
  <1> USE HashingAssumption DEF DueFilesHaveNoHash
  <1>1. ASSUME NEW g \in Files, NEW b \in Bytes, WriteFile(g, b)
        PROVE  DueFilesHaveNoHash'
    BY <1>1 DEF WriteFile, tree, scanning, rows, process
  <1>2. CASE StartScan
    BY <1>2 DEF StartScan, Free, tree, scanning, rows, process
  <1>3. CASE ListFiles
    BY <1>3 DEF ListFiles, tree, scanning, rows, process
  <1>4. CASE HashAndFinish
    BY <1>4 DEF HashAndFinish, Free, tree, scanning, rows, process
  <1>5. CASE FailScan
    BY <1>5 DEF FailScan, Free, tree, scanning, rows, process
  <1>6. ASSUME NEW c \in Call, NEW n \in Limit, Enrich(c, n)
        PROVE  DueFilesHaveNoHash'
    BY <1>6 DEF Enrich, Goto, LatestCompleted, tree, scanning, rows, process
  <1>7. ASSUME NEW c \in Call, Acquire(c)
        PROVE  DueFilesHaveNoHash'
    <2>1. AcquireEffect(c)
      BY <1>7, AcquireDoes
    <2>2. /\ full' = full
          /\ \A h \in Call \ {c} : /\ lease'.owner = h => lease.owner = h
                                   /\ UNCHANGED <<source[h], left[h], work[h]>>
          /\ left'[c] = {} /\ \A f \in Files : work'[c][f].step = "none"
      BY <2>1 DEF AcquireEffect, CallShape, CallsHaveAScan, NoWork
    <2> QED
      BY <2>2
  <1>8. ASSUME NEW c \in Call, PrepareSnapshot(c)
        PROVE  DueFilesHaveNoHash'
    BY <1>8 DEF PrepareSnapshot, Goto, tree, scanning, rows, process, CallShape,
       CallsHaveAScan
  <1>9. ASSUME NEW c \in Call, RecordSelection(c)
        PROVE  DueFilesHaveNoHash'
    BY <1>9 DEF RecordSelection, Goto, tree, scanning, rows, process
  <1>10. ASSUME NEW c \in Call, NextCandidates(c)
        PROVE  DueFilesHaveNoHash'
    <2>1. NextCandidatesEffect(c)
      BY <1>10, NextCandidatesDoes
    <2>2. UNCHANGED <<full, lease, source>>
      BY <2>1 DEF NextCandidatesEffect, CallShape, NoWork
    <2>3. \A h \in Call, f \in Files :
             /\ f \in left'[h] => f \in left[h]
             /\ work'[h][f].step # "none" => work[h][f].step # "none" \/ f \in left[h]
      <3>1. CASE UNCHANGED <<left, work>>
        BY <3>1
      <3>2. ASSUME NEW batch \in SUBSET left[c],
                   /\ left' = [left EXCEPT ![c] = left[c] \ batch]
                   /\ work' = [work EXCEPT ![c] = [f \in Files |->
                         [step |-> IF f \in batch THEN "due" ELSE "none", value |-> None]]],
                   NEW h \in Call, NEW f \in Files
            PROVE  /\ f \in left'[h] => f \in left[h]
                   /\ work'[h][f].step # "none"
                         => work[h][f].step # "none" \/ f \in left[h]
        <4>1. CASE h = c
          BY <3>2, <4>1 DEF CallShape
        <4>2. CASE h # c
          BY <3>2, <4>2 DEF CallShape
        <4> QED
          BY <4>1, <4>2
      <3> QED
        BY <2>1, <3>1, <3>2 DEF NextCandidatesEffect
    <2> QED
      BY <2>2, <2>3
  <1>11. ASSUME NEW c \in Call, NEW g \in Files, OpenFile(c, g)
        PROVE  DueFilesHaveNoHash'
    <2>1. OpenFileEffect(c, g)
      BY <1>11, OpenFileDoes
    <2> QED
      BY <2>1 DEF OpenFileEffect, CallShape
  <1>12. ASSUME NEW c \in Call, NEW g \in Files, ReadFile(c, g)
        PROVE  DueFilesHaveNoHash'
    <2>1. /\ UNCHANGED <<disk, obs, full, lease, source, scan, pc, left>> /\ pc[c] = "hash"
          /\ work[c][g].step = "open"
          /\ work'[c][g].step = "read" /\ work'[c][g].value = disk[g].bytes
          /\ \A h \in Call, f \in Files : h # c \/ f # g => work'[h][f] = work[h][f]
      BY <1>12
         DEF ReadFile, Hashes, Advance, tree, scanning, rows, process,
             CallShape
    <2> QED
      BY <2>1
  <1>13. ASSUME NEW c \in Call, NEW g \in Files, CloseFile(c, g)
        PROVE  DueFilesHaveNoHash'
    <2>1. /\ UNCHANGED <<disk, obs, full, lease, source, scan, pc, left>> /\ pc[c] = "hash"
          /\ work[c][g].step = "read"
          /\ \/ work'[c][g].step = "ok" /\ work'[c][g].value = work[c][g].value /\ AsObserved(c, g)
             \/ work'[c][g].step = "failed"
          /\ \A h \in Call, f \in Files : h # c \/ f # g => work'[h][f] = work[h][f]
      BY <1>13, CloseFileDoes DEF CloseFileEffect, CallShape
    <2> QED
      BY <2>1
  <1>14. ASSUME NEW c \in Call, NEW g \in Files, FileFails(c, g)
        PROVE  DueFilesHaveNoHash'
    BY <1>14 DEF FileFails, Hashes, tree, scanning, rows, process, CallShape
  <1>15. ASSUME NEW c \in Call, CommitBatch(c)
        PROVE  DueFilesHaveNoHash'
    <2>1. CommitBatchEffect(c)
      BY <1>15, CommitBatchDoes
    <2>2. source[c] \in Scans /\ obs' = obs
      BY <2>1 DEF CommitBatchEffect, CallsHaveAScan, CallShape, Scans
    <2>3. ASSUME NEW s \in Scans, NEW f \in Files
          PROVE  \/ full'[s][f] = full[s][f]
                 \/ /\ s = source[c] /\ work[c][f].step = "ok" /\ lease.owner = c
                    /\ full'[s][f] = [rows |-> full[s][f].rows + 1, value |-> work[c][f].value, by |-> "enrich"]
      <3>1. CASE full' = full
        BY <3>1
      <3> DEFINE hashed == [e \in Files |->
                   IF e \in InBatch(c, "ok")
                   THEN [rows |-> full[source[c]][e].rows + 1, value |-> work[c][e].value, by |-> "enrich"]
                   ELSE full[source[c]][e]]
      <3>2. CASE lease.owner = c /\ full' = [full EXCEPT ![source[c]] = hashed]
        <4>1. CASE s = source[c]
          <5>1. full'[s][f] = hashed[f]
            BY <2>2, <3>2, <4>1 DEF Shape
          <5> QED
            BY <3>2, <4>1, <5>1 DEF InBatch
        <4>2. CASE s # source[c]
          <5> HIDE DEF hashed
          <5> QED
            BY <2>2, <3>2, <4>2 DEF Shape
        <4> QED
          BY <4>1, <4>2
      <3> QED
        BY <2>1, <3>1, <3>2 DEF CommitBatchEffect
    <2>4. /\ UNCHANGED <<lease, source, left>>
          /\ \A h \in Call \ {c} : work'[h] = work[h]
          /\ \A f \in Files : work'[c][f].step = "none"
      BY <2>1 DEF CommitBatchEffect, CallShape, NoWork
    <2>5. \A h \in Call, f \in Files :
             f \in left[h] \/ work'[h][f].step # "none" =>
                 /\ f \in left[h] \/ work[h][f].step # "none"
                 /\ h = c => work[h][f].step = "none"
      BY <2>4 DEF CallsHaveAScan
    <2>6. ASSUME NEW h \in Call, NEW f \in Files, lease.owner = h,
                 f \in left[h] \/ work'[h][f].step # "none"
          PROVE  full'[source[h]][f].rows = 0
      <3>1. full[source[h]][f].rows = 0
        BY <2>5, <2>6
      <3>2. source[h] \in Scans
        BY <2>5, <2>6, BusyCallsHaveAScan, HashingAssumption
           DEF CallsHaveAScan, CallShape, Scans
      <3>3. full'[source[h]][f] = full[source[h]][f]
        BY <2>3, <2>5, <2>6, <3>2
      <3> QED
        BY <3>1, <3>3
    <2> QED
      BY <2>4, <2>6
  <1>16. ASSUME NEW c \in Call, Finish(c)
        PROVE  DueFilesHaveNoHash'
    <2>1. FinishEffect(c)
      BY <1>16, FinishDoes
    <2> QED
      BY <2>1 DEF FinishEffect, CallShape, NoWork, Free
  <1>17. ASSUME NEW c \in Call, AbandonOwned(c)
        PROVE  DueFilesHaveNoHash'
    <2>1. AbandonOwnedEffect(c)
      BY <1>17, AbandonOwnedDoes
    <2> QED
      BY <2>1 DEF AbandonOwnedEffect, CallShape, NoWork, Free
  <1>18. ASSUME NEW c \in Call, Interrupt(c)
        PROVE  DueFilesHaveNoHash'
    <2>1. UNCHANGED <<full, lease, source, left, work>>
      BY <1>18 DEF Interrupt, rows, process
    <2> QED
      BY <2>1
  <1>19. ASSUME NEW c \in Call, Crash(c)
        PROVE  DueFilesHaveNoHash'
    BY <1>19
       DEF Crash, Leave, Goto, tree, scanning, rows, process, CallShape, NoWork
  <1>20. ASSUME NEW c \in Call, HeartbeatFails(c)
        PROVE  DueFilesHaveNoHash'
    BY <1>20 DEF HeartbeatFails, tree, scanning, rows, process
  <1>21. CASE LeaseExpires
    BY <1>21 DEF LeaseExpires, tree, scanning, rows, process, Shape
  <1> QED
    BY <1>1, <1>2, <1>3, <1>4, <1>5, <1>6, <1>7, <1>8, <1>9, <1>10, <1>11,
       <1>12, <1>13, <1>14, <1>15, <1>16, <1>17, <1>18, <1>19, <1>20, <1>21 DEF Next, Step, Hash

(* A step that changes nothing keeps the whole.                            *)
LEMMA StutterKeeps ==
    ASSUME ListInv, CallInv, HashInv, UNCHANGED vars
    PROVE  ListInv' /\ CallInv' /\ HashInv'
  <1>1. /\ UNCHANGED <<disk, changes, scans, scan, obs, full, lease>>
        /\ UNCHANGED <<source, latest, pc, left, work>>
    BY DEF vars, tree, scanning, rows, process
  <1>2. ListInv'
    BY <1>1 DEF ListInv, Shape, ScansAreOrdered, ChangesNameBytes,
       OnlyCompletedScansAreHashed
  <1>3. CallInv'
    BY <1>1
       DEF CallInv, CallShape, CallsHaveAScan, SourceStaysLatest,
           LatestCompleted,
                WorkIsOfTheListing, AsObserved
  <1>4. HashInv'
    BY <1>1 DEF HashInv, FullHashIsOfTheListing, OneFullHashPerObservation,
       DueFilesHaveNoHash
  <1> QED
    BY <1>2, <1>3, <1>4

(* Nothing is listed, hashed or owned at first.                            *)
LEMMA InitIsGood ==
    ASSUME Init
    PROVE  ListInv /\ CallInv /\ HashInv
  <1> USE HashingAssumption DEF Init, Scans
  <1>1. Shape /\ ScansAreOrdered
    BY DEF Shape, ScansAreOrdered, Unlisted, NoHash, Row, Free, Statuses
  <1>2. ChangesNameBytes
    BY DEF ChangesNameBytes, Unlisted
  <1>3. OnlyCompletedScansAreHashed
    BY DEF OnlyCompletedScansAreHashed, NoHash
  <1>4. CallShape
    BY DEF CallShape, NoWork, Steps
  <1>5. CallsHaveAScan
    BY DEF CallsHaveAScan, NoWork
  <1>6. SourceStaysLatest
    BY DEF SourceStaysLatest, Free
  <1>7. WorkIsOfTheListing
    BY DEF WorkIsOfTheListing, NoWork
  <1>8. FullHashIsOfTheListing /\ OneFullHashPerObservation
    BY DEF FullHashIsOfTheListing, OneFullHashPerObservation, NoHash
  <1>9. DueFilesHaveNoHash
    BY DEF DueFilesHaveNoHash, NoHash, Free
  <1> QED
    BY <1>1, <1>2, <1>3, <1>4, <1>5, <1>6, <1>7, <1>8, <1>9
       DEF ListInv, CallInv,
       HashInv

(* In every state: the types, the order of the scans, what the listings    *)
(* and the calls know of the files, and that what is due has no hash.      *)
THEOREM Inductive == Spec => [](ListInv /\ CallInv /\ HashInv)
  <1>1. Init => ListInv /\ CallInv /\ HashInv
    BY InitIsGood
  <1>2. ListInv /\ CallInv /\ HashInv /\ [Next]_vars => ListInv' /\ CallInv' /\ HashInv'
    <2> SUFFICES ASSUME ListInv, CallInv, HashInv, [Next]_vars
                 PROVE  ListInv' /\ CallInv' /\ HashInv'
      OBVIOUS
    <2>1. CASE Next
      <3>1. /\ Shape /\ ScansAreOrdered /\ ChangesNameBytes /\ OnlyCompletedScansAreHashed
            /\ CallShape /\ CallsHaveAScan /\ SourceStaysLatest /\ WorkIsOfTheListing
            /\ FullHashIsOfTheListing /\ OneFullHashPerObservation /\ DueFilesHaveNoHash
        BY DEF ListInv, CallInv, HashInv
      <3>2. Shape' /\ CallShape'
        BY <2>1, <3>1, ShapeStays, CallShapeStays
      <3>3. ScansAreOrdered' /\ ChangesNameBytes' /\ OnlyCompletedScansAreHashed'
        BY <2>1, <3>1, <3>2, ScansStayOrdered, ChangesKeepTheirBytes,
           HashedScansStay
      <3>4. CallsHaveAScan' /\ SourceStaysLatest' /\ WorkIsOfTheListing'
        BY <2>1, <3>1, <3>2, CallsKeepTheirScan, OwnersStayOnTheLatest,
           WorkStaysOfTheListing
      <3>5. FullHashIsOfTheListing' /\ OneFullHashPerObservation' /\ DueFilesHaveNoHash'
        BY <2>1, <3>1, HashesStayOfTheListing, HashesStayTheOnlyOnes,
           DueFilesStayUnhashed
      <3> QED
        BY <3>2, <3>3, <3>4, <3>5 DEF ListInv, CallInv, HashInv
    <2>2. CASE UNCHANGED vars
      BY <2>2, StutterKeeps
    <2> QED
      BY <2>1, <2>2
  <1> QED
    BY <1>1, <1>2, PTL DEF Spec

(* A full hash, computed by whatever run or projected from scan to scan,   *)
(* is that of the bytes that were listed, whoever writes files meanwhile   *)
(* (candidate_hashing.py _hash_batch, hashing.py reuse_latest).  A scan    *)
(* with --hash full may store another one, but only for an observation     *)
(* whose file has changed since (hashing.py calculate does not look).      *)
THEOREM HashesAreOfTheListing == Spec => []FullHashIsOfTheListing
  <1>1. ListInv /\ CallInv /\ HashInv => FullHashIsOfTheListing
    BY DEF HashInv
  <1> QED
    BY <1>1, Inductive, PTL

(* No observation gets a second full hash, though no constraint of the     *)
(* table keeps it out: across crashes, lapsed leases and takeovers.        *)
THEOREM HashesAreTheOnlyOnes == Spec => []OneFullHashPerObservation
  <1>1. ListInv /\ CallInv /\ HashInv => OneFullHashPerObservation
    BY DEF HashInv
  <1> QED
    BY <1>1, Inductive, PTL

(* A run that has the lease works on the latest scan, which its call has   *)
(* read before it asked for the lease.                                     *)
THEOREM OwnersWorkOnTheLatest == Spec => []SourceStaysLatest
  <1>1. ListInv /\ CallInv /\ HashInv => SourceStaysLatest
    BY DEF CallInv
  <1> QED
    BY <1>1, Inductive, PTL

-----------------------------------------------------------------------------
(* Progress.  What a call has chosen at first, and not yet committed, is    *)
(* what its run still counts as pending.                                    *)
InHand(h) == {f \in Files : work[h][f].step # "none"}
Due(h) == {f \in snap[h] : full[source[h]][f].rows = 0}

Counters == [selected : BOOLEAN, pending : Nat, processed : Nat, hashed : Nat,
             failed : Nat, remaining : Int]

CountShape ==
    /\ snap \in [Call -> SUBSET Files]
    /\ counts \in [Call -> Counters]

(* EbookCandidateHashRun.__post_init__                                      *)
CountsAgree(h) ==
    /\ counts[h].processed = counts[h].hashed + counts[h].failed
    /\ counts[h].remaining = counts[h].pending - counts[h].hashed
    /\ counts[h].processed <= counts[h].pending

WorkIsPending(h) ==
    /\ pc[h] \in {"next", "hash"} =>
          counts[h].processed + Cardinality(left[h] \cup InHand(h)) = counts[h].pending
    /\ pc[h] \in {"select", "next"} => InHand(h) = {}

WorkIsSelected(h) == left[h] \cup InHand(h) \subseteq snap[h]

(* A run does not say that it has selected before it has; what it is about  *)
(* to say is then still true.                                               *)
SelectionIsDue(h) ==
    /\ pc[h] \in {"snapshot", "select"} => ~counts[h].selected
    /\ lease.owner = h /\ pc[h] = "select" => left[h] = Due(h)

ProgressOf(h) ==
    lease.owner = h /\ counts[h].selected =>
        counts[h].remaining = Cardinality(Due(h))

CountsOf(h) ==
    /\ CountsAgree(h) /\ WorkIsPending(h) /\ WorkIsSelected(h)
    /\ SelectionIsDue(h) /\ ProgressOf(h)

CountInv == CountShape /\ \A h \in Call : CountsOf(h)

(* Sets of files are finite, and their sizes add up.                        *)
LEMMA FileSets ==
    ASSUME NEW S \in SUBSET Files, NEW T \in SUBSET Files
    PROVE  /\ IsFiniteSet(S) /\ Cardinality(S) \in Nat
           /\ S \cap T = {} =>
                 Cardinality(S \cup T) = Cardinality(S) + Cardinality(T)
           /\ T \subseteq S =>
                 /\ Cardinality(S \ T) = Cardinality(S) - Cardinality(T)
                 /\ Cardinality(T) <= Cardinality(S)
  <1>1. /\ IsFiniteSet(S) /\ IsFiniteSet(T)
        /\ Cardinality(S) \in Nat /\ Cardinality(T) \in Nat
    BY HashingAssumption, FS_Subset, FS_CardinalityType
  <1>2. ASSUME S \cap T = {}
        PROVE  Cardinality(S \cup T) = Cardinality(S) + Cardinality(T)
    <2>1. Cardinality(S \cap T) = 0
      BY <1>2, FS_EmptySet
    <2>2. Cardinality(S \cup T)
            = Cardinality(S) + Cardinality(T) - Cardinality(S \cap T)
      BY <1>1, FS_Union
    <2> QED
      BY <1>1, <2>1, <2>2
  <1>3. ASSUME T \subseteq S
        PROVE  /\ Cardinality(S \ T) = Cardinality(S) - Cardinality(T)
               /\ Cardinality(T) <= Cardinality(S)
    <2>1. S \cap T = T
      BY <1>3
    <2> QED
      BY <1>1, <1>3, <2>1, FS_Difference, FS_Subset
  <1> QED
    BY <1>1, <1>2, <1>3

(* A quiet step counts nothing for a call, does not give it the lease, and  *)
(* lets it, if it leaves its work, never come back to it.                   *)
QuietFor(h) ==
    /\ UNCHANGED <<counts[h], snap[h], source[h]>>
    /\ lease'.owner = h => lease.owner = h /\ full' = full
    /\ \/ UNCHANGED <<pc[h], left[h], work[h]>>
       \/ /\ pc'[h] \notin {"snapshot", "select", "next", "hash"}
          /\ \/ UNCHANGED <<left[h], work[h]>>
             \/ left'[h] \subseteq left[h] /\ \A f \in Files : work'[h][f].step = "none"

Quiet == UNCHANGED <<counts, snap>> /\ \A h \in Call : QuietFor(h)

(* No quiet step disturbs the count.                                        *)
LEMMA QuietKeepsTheCount ==
    ASSUME NEW h \in Call, CountsOf(h), QuietFor(h)
    PROVE  CountsOf(h)'
  <1> USE DEF QuietFor, CountsOf
  <1>1. CountsAgree(h)'
    BY DEF CountsAgree
  <1>2. /\ \/ UNCHANGED <<pc[h], left[h]>> /\ InHand(h)' = InHand(h)
           \/ pc'[h] \notin {"snapshot", "select", "next", "hash"}
        /\ left'[h] \cup InHand(h)' \subseteq left[h] \cup InHand(h)
        /\ lease'.owner = h => Due(h)' = Due(h)
    BY DEF InHand, Due
  <1>3. WorkIsPending(h)'
    BY <1>2 DEF WorkIsPending
  <1>4. WorkIsSelected(h)'
    BY <1>2 DEF WorkIsSelected
  <1>5. SelectionIsDue(h)'
    BY <1>2 DEF SelectionIsDue
  <1>6. ProgressOf(h)'
    BY <1>2 DEF ProgressOf
  <1> QED
    BY <1>1, <1>3, <1>4, <1>5, <1>6

(* The memory of a call that leaves.                                        *)
LEMMA LeavingIsQuiet ==
    ASSUME CallShape, NEW c \in Call, Leave(c) \/ (UNCHANGED process /\ Goto(c, "failed"))
           \/ (UNCHANGED process /\ Goto(c, "interrupted"))
    PROVE  \A h \in Call :
              \/ UNCHANGED <<pc[h], left[h], work[h]>>
              \/ /\ pc'[h] \notin {"snapshot", "select", "next", "hash"}
                 /\ \/ UNCHANGED <<left[h], work[h]>>
                    \/ left'[h] = {} /\ \A f \in Files : work'[h][f].step = "none"
  BY DEF CallShape, Leave, Goto, process, NoWork

(* The steps that are quiet: all but those of the owner of the lease that   *)
(* choose, hand out and commit files.                                       *)
LEMMA OthersAreQuiet ==
    ASSUME Shape, CallShape, ScansAreOrdered, Next, ~Quiet
    PROVE  \E c \in Call :
              \/ Acquire(c) /\ Acquirable(c)
              \/ PrepareSnapshot(c)
              \/ RecordSelection(c) /\ MayWrite(c)
              \/ NextCandidates(c) /\ pc' # [pc EXCEPT ![c] = "failed"]
              \/ Hash(c) \/ \E f \in Files : FileFails(c, f)
              \/ CommitBatch(c) /\ MayWrite(c)
  <1> SUFFICES ASSUME ~ \E c \in Call :
                          \/ Acquire(c) /\ Acquirable(c)
                          \/ PrepareSnapshot(c)
                          \/ RecordSelection(c) /\ MayWrite(c)
                          \/ NextCandidates(c) /\ pc' # [pc EXCEPT ![c] = "failed"]
                          \/ Hash(c) \/ \E f \in Files : FileFails(c, f)
                          \/ CommitBatch(c) /\ MayWrite(c)
               PROVE  FALSE
    OBVIOUS
  <1>1. ASSUME NEW g \in Files, NEW b \in Bytes, WriteFile(g, b)
        PROVE  Quiet
    BY <1>1 DEF WriteFile, scanning, rows, process, Quiet, QuietFor
  <1>2. ASSUME StartScan \/ ListFiles \/ HashAndFinish \/ FailScan
        PROVE  Quiet
    <2>1. /\ UNCHANGED <<counts, snap, source, pc, left, work>>
          /\ \/ lease' = lease /\ full' = full
             \/ lease'.owner \in {Scanner, None}
      BY <1>2
         DEF StartScan, ListFiles, HashAndFinish, FailScan, Free, scanning,
             rows, process
    <2>2. Scanner \notin Call /\ None \notin Call
      BY HashingAssumption
    <2> QED
      BY <2>1, <2>2 DEF Quiet, QuietFor
  <1>3. ASSUME NEW c \in Call, NEW n \in Limit, Enrich(c, n)
        PROVE  Quiet
    BY <1>3 DEF Enrich, Goto, scanning, rows, CallShape, Quiet, QuietFor
  <1>4. ASSUME NEW c \in Call, Acquire(c), ~Acquirable(c)
        PROVE  Quiet
    <2>1. Leave(c) /\ UNCHANGED <<lease, rows, full>>
      BY <1>4 DEF Acquire
    <2> QED
      BY <2>1, LeavingIsQuiet DEF rows, Quiet, QuietFor
  <1>5. ASSUME NEW c \in Call, RecordSelection(c), ~MayWrite(c)
        PROVE  Quiet
    <2>1. /\ Goto(c, "failed") /\ UNCHANGED process
          /\ UNCHANGED <<lease, counts, snap, source, full>>
      BY <1>5 DEF RecordSelection
    <2> QED
      BY <2>1, LeavingIsQuiet DEF Quiet, QuietFor
  <1>6. ASSUME NEW c \in Call, NextCandidates(c), pc' = [pc EXCEPT ![c] = "failed"]
        PROVE  Quiet
    <2>1. UNCHANGED <<left, work>>
      <3> DEFINE batch == First(source[c], left[c], BatchLimit(c))
      <3>1. \/ UNCHANGED <<left, work>>
            \/ pc' = [pc EXCEPT ![c] = IF batch = {} THEN "finish" ELSE "hash"]
        BY <1>6, Zenon DEF NextCandidates, Goto
      <3>2. pc'[c] = "failed"
        BY <1>6 DEF CallShape
      <3> HIDE DEF batch
      <3> QED
        BY <3>1, <3>2 DEF CallShape
    <2>2. UNCHANGED <<counts, snap, source, lease, full>>
      BY <1>6 DEF NextCandidates, rows
    <2> QED
      BY <1>6, <2>1, <2>2 DEF Quiet, QuietFor, CallShape
  <1>7. ASSUME NEW c \in Call, CommitBatch(c), ~MayWrite(c)
        PROVE  Quiet
    <2>1. /\ UNCHANGED <<counts, snap, source, lease, full, left>>
          /\ pc' = [pc EXCEPT ![c] = "failed"]
          /\ work' = [work EXCEPT ![c] = NoWork]
      BY <1>7 DEF CommitBatch, Goto
    <2>2. /\ pc'[c] = "failed" /\ left'[c] = left[c]
          /\ \A f \in Files : work'[c][f].step = "none"
          /\ \A h \in Call \ {c} : UNCHANGED <<pc[h], left[h], work[h]>>
      BY <2>1 DEF CallShape, NoWork
    <2> QED
      BY <2>1, <2>2 DEF Quiet, QuietFor
  <1>8. ASSUME NEW c \in Call, Finish(c) \/ AbandonOwned(c)
        PROVE  Quiet
    <2>1. /\ Leave(c) \/ (UNCHANGED process /\ Goto(c, "failed"))
          /\ lease' = lease \/ lease' = Free
          /\ UNCHANGED <<counts, snap, source, full>>
      BY <1>8 DEF Finish, AbandonOwned, End
    <2>2. lease'.owner = lease.owner \/ lease'.owner \notin Call
      BY <2>1, HashingAssumption DEF Free
    <2> QED
      BY <2>1, <2>2, LeavingIsQuiet DEF Quiet, QuietFor
  <1>9. ASSUME NEW c \in Call, Interrupt(c) \/ Crash(c)
        PROVE  Quiet
    <2>1. /\ \/ Leave(c) \/ (UNCHANGED process /\ Goto(c, "failed"))
             \/ (UNCHANGED process /\ Goto(c, "interrupted"))
          /\ UNCHANGED <<lease, rows, full>>
      BY <1>9 DEF Interrupt, Crash
    <2> QED
      BY <2>1, LeavingIsQuiet DEF Quiet, QuietFor, rows
  <1>10. ASSUME NEW c \in Call, HeartbeatFails(c)
         PROVE  Quiet
    BY <1>10 DEF HeartbeatFails, scanning, rows, Quiet, QuietFor
  <1>11. ASSUME LeaseExpires
         PROVE  Quiet
    <2>1. UNCHANGED <<rows, full, pc, process>> /\ lease'.owner = lease.owner
      BY <1>11 DEF LeaseExpires, Shape
    <2> QED
      BY <2>1 DEF rows, process, Quiet, QuietFor
  <1> QED
    BY <1>1, <1>2, <1>3, <1>4, <1>5, <1>6, <1>7, <1>8, <1>9, <1>10, <1>11
       DEF Next, Step

(* What holds of every other call when c takes a step of its own.           *)
LEMMA CountOfTheOthers ==
    ASSUME CountInv, NEW c \in Call, CountShape', CountsOf(c)',
           \A h \in Call \ {c} : QuietFor(h)
    PROVE  CountInv'
  <1>1. \A h \in Call \ {c} : CountsOf(h)'
    BY QuietKeepsTheCount DEF CountInv
  <1> QED
    BY <1>1 DEF CountInv

(* A run that gets the lease starts with nothing selected.                  *)
LEMMA AcquiringStartsTheCount ==
    ASSUME Shape, CallShape, CallsHaveAScan, CountInv,
           NEW c \in Call, Acquire(c), Acquirable(c)
    PROVE  CountInv'
  <1>1. /\ pc[c] = "acquire"
        /\ source' = [source EXCEPT ![c] = latest[c]]
        /\ counts' = [counts EXCEPT ![c] = NoCounts]
        /\ snap' = [snap EXCEPT ![c] = {}]
        /\ lease' = [owner |-> c, expired |-> FALSE]
        /\ pc' = [pc EXCEPT ![c] = "snapshot"]
        /\ UNCHANGED <<full, left, work>>
    BY DEF Acquire, Goto
  <1>2. NoCounts \in Counters
    BY DEF NoCounts, Counters
  <1>3. CountShape'
    BY <1>1, <1>2 DEF CountInv, CountShape
  <1>4. /\ counts'[c] = NoCounts /\ snap'[c] = {} /\ pc'[c] = "snapshot"
        /\ left'[c] = {} /\ InHand(c)' = {}
    BY <1>1 DEF CountInv, CountShape, CallShape, CallsHaveAScan, InHand
  <1>5. CountsOf(c)'
    BY <1>4
       DEF CountsOf, CountsAgree, WorkIsPending, WorkIsSelected,
           SelectionIsDue,
       ProgressOf, NoCounts
  <1>6. \A h \in Call \ {c} : QuietFor(h)
    BY <1>1 DEF QuietFor, CountInv, CountShape, CallShape
  <1> QED
    BY <1>3, <1>5, <1>6, CountOfTheOthers

(* The snapshot holds the candidates; those without a hash are due.         *)
LEMMA SnapshotIsDue ==
    ASSUME Shape, CallShape, CallsHaveAScan, CountInv,
           NEW c \in Call, PrepareSnapshot(c)
    PROVE  CountInv'
  <1> DEFINE S == Candidates(source[c])
  <1>1. /\ pc[c] = "snapshot"
        /\ snap' = [snap EXCEPT ![c] = S]
        /\ left' = [left EXCEPT ![c] = {f \in S : full[source[c]][f].rows = 0}]
        /\ pc' = [pc EXCEPT ![c] = "select"]
        /\ UNCHANGED <<full, lease, source, counts, work>>
    BY DEF PrepareSnapshot, Goto
  <1>2. S \subseteq Files
    BY DEF Candidates, Current
  <1> HIDE DEF S
  <1>3. CountShape'
    BY <1>1, <1>2 DEF CountInv, CountShape
  <1>4. /\ snap'[c] = S /\ pc'[c] = "select"
        /\ left'[c] = {f \in S : full[source[c]][f].rows = 0} /\ InHand(c)' = {}
        /\ UNCHANGED counts[c] /\ ~counts[c].selected /\ CountsAgree(c)
    BY <1>1
       DEF CountInv, CountShape, CallShape, CallsHaveAScan, InHand, CountsOf,
       SelectionIsDue
  <1>5. left'[c] = Due(c)'
    BY <1>1, <1>4 DEF Due
  <1>6. CountsOf(c)'
    BY <1>4, <1>5 DEF CountsOf, CountsAgree, WorkIsPending, WorkIsSelected,
       SelectionIsDue, ProgressOf
  <1>7. \A h \in Call \ {c} : QuietFor(h)
    BY <1>1 DEF QuietFor, CountInv, CountShape, CallShape
  <1> QED
    BY <1>3, <1>6, <1>7, CountOfTheOthers

(* The count starts with what is due.                                       *)
LEMMA SelectingCountsTheDue ==
    ASSUME Shape, CallShape, CallsHaveAScan, CountInv,
           NEW c \in Call, RecordSelection(c), MayWrite(c)
    PROVE  CountInv'
  <1> DEFINE n == Cardinality(left[c])
  <1>1. /\ pc[c] = "select" /\ lease.owner = c
        /\ counts' = [counts EXCEPT ![c] =
              [NoCounts EXCEPT !.selected = TRUE, !.pending = n, !.remaining = n]]
        /\ pc' = [pc EXCEPT ![c] = "next"]
        /\ UNCHANGED <<full, lease, source, snap, left, work>>
    BY DEF RecordSelection, Goto, MayWrite, Owned, process
  <1>2. n \in Nat
    BY FileSets DEF CallShape
  <1> HIDE DEF n
  <1> DEFINE new == [NoCounts EXCEPT !.selected = TRUE, !.pending = n, !.remaining = n]
  <1>3. /\ new \in Counters /\ new.processed = 0 /\ new.hashed = 0 /\ new.failed = 0
        /\ new.pending = n /\ new.remaining = n /\ new.selected
    <2>1. NoCounts \in Counters /\ new = [[[NoCounts EXCEPT !.selected = TRUE]
                                              EXCEPT !.pending = n] EXCEPT !.remaining = n]
      BY DEF NoCounts, Counters
    <2> DEFINE d1 == [NoCounts EXCEPT !.selected = TRUE]
               d2 == [d1 EXCEPT !.pending = n]
    <2>2. d1 \in Counters /\ d1.selected /\ d1.processed = 0 /\ d1.hashed = 0 /\ d1.failed = 0
      BY <2>1 DEF NoCounts, Counters
    <2>3. new = [d2 EXCEPT !.remaining = n]
      BY <2>1
    <2> HIDE DEF d1, new
    <2>4. /\ d2 \in Counters /\ d2.selected /\ d2.processed = 0 /\ d2.hashed = 0
          /\ d2.failed = 0 /\ d2.pending = n
      BY <1>2, <2>2 DEF Counters
    <2> HIDE DEF d2
    <2> QED
      BY <1>2, <2>3, <2>4 DEF Counters
  <1>4. counts' = [counts EXCEPT ![c] = new]
    BY <1>1
  <1> HIDE DEF new
  <1>5. CountShape'
    BY <1>1, <1>3, <1>4 DEF CountInv, CountShape
  <1>6. /\ counts'[c] = new /\ pc'[c] = "next" /\ left'[c] = left[c]
        /\ InHand(c)' = InHand(c) /\ Due(c)' = Due(c) /\ snap'[c] = snap[c]
    BY <1>1, <1>4 DEF CountInv, CountShape, CallShape, InHand, Due
  <1>7. InHand(c) = {} /\ left[c] = Due(c) /\ left[c] \subseteq snap[c]
    BY <1>1
       DEF CountInv, CountsOf, WorkIsPending, SelectionIsDue, WorkIsSelected
  <1>8. left'[c] \cup InHand(c)' = left[c]
    BY <1>6, <1>7
  <1>9. CountsAgree(c)' /\ WorkIsPending(c)'
    BY <1>2, <1>3, <1>6, <1>7, <1>8 DEF CountsAgree, WorkIsPending, n
  <1>10. WorkIsSelected(c)' /\ SelectionIsDue(c)' /\ ProgressOf(c)'
    BY <1>3, <1>6, <1>7, <1>8 DEF WorkIsSelected, SelectionIsDue, ProgressOf, n
  <1>11. CountsOf(c)'
    BY <1>9, <1>10 DEF CountsOf
  <1>12. \A h \in Call \ {c} : QuietFor(h)
    BY <1>1 DEF QuietFor, CountInv, CountShape, CallShape
  <1> QED
    BY <1>5, <1>11, <1>12, CountOfTheOthers

(* Handing out a batch counts nothing.                                      *)
LEMMA HandingOutIsNotCounted ==
    ASSUME Shape, CallShape, CallsHaveAScan, CountInv,
           NEW c \in Call, NextCandidates(c), pc' # [pc EXCEPT ![c] = "failed"]
    PROVE  CountInv'
  <1>1. PICK batch \in SUBSET left[c], p \in {"finish", "hash"} :
          /\ pc' = [pc EXCEPT ![c] = p]
          /\ left' = [left EXCEPT ![c] = left[c] \ batch]
          /\ work' = [work EXCEPT ![c] = [f \in Files |->
                [step |-> IF f \in batch THEN "due" ELSE "none", value |-> None]]]
    BY NextCandidatesDoes DEF NextCandidatesEffect
  <1>2. UNCHANGED <<full, lease, source, counts, snap>> /\ pc[c] = "next"
    BY DEF NextCandidates, rows
  <1>3. batch \subseteq Files
    BY DEF CallShape
  <1>4. InHand(c)' = batch
    BY <1>1, <1>3 DEF CallShape, InHand
  <1>5. InHand(c) = {}
    BY <1>2 DEF CountInv, CountsOf, WorkIsPending
  <1>6. left'[c] \cup InHand(c)' = left[c] \cup InHand(c)
    BY <1>1, <1>4, <1>5 DEF CallShape
  <1>7. pc'[c] = p /\ Due(c)' = Due(c)
    BY <1>1, <1>2 DEF CallShape, Due
  <1>8. CountsOf(c)'
    BY <1>2, <1>6, <1>7 DEF CountInv, CountsOf, CountsAgree, WorkIsPending,
       WorkIsSelected, SelectionIsDue, ProgressOf
  <1>9. CountShape'
    BY <1>2 DEF CountInv, CountShape
  <1>10. \A h \in Call \ {c} : QuietFor(h)
    BY <1>1, <1>2 DEF QuietFor, CallShape
  <1> QED
    BY <1>8, <1>9, <1>10, CountOfTheOthers

(* Hashing a file of the batch, or failing to, counts nothing yet.          *)
LEMMA HashingIsNotCounted ==
    ASSUME Shape, CallShape, CallsHaveAScan, CountInv,
           NEW c \in Call, Hash(c) \/ \E f \in Files : FileFails(c, f)
    PROVE  CountInv'
  <1>1. PICK g \in Files : \/ OpenFile(c, g) \/ ReadFile(c, g) \/ CloseFile(c, g)
                           \/ FileFails(c, g)
    BY DEF Hash
  <1>2. UNCHANGED <<full, lease, source, counts, snap, pc, left>>
    BY <1>1 DEF OpenFile, ReadFile, CloseFile, FileFails, Advance, rows
  <1>3. /\ work'[c][g].step \in {"open", "read", "ok", "failed"}
        /\ \A f \in Files \ {g} : work'[c][f] = work[c][f]
        /\ \A h \in Call \ {c} : work'[h] = work[h]
    <2>1. \E step \in {"open", "read", "ok", "failed"}, v \in Bytes \cup {None} :
            work' = [work EXCEPT ![c][g] = [step |-> step, value |-> v]]
      <3>1. None \in Bytes \cup {None} /\ disk[g].bytes \in Bytes \cup {None}
            /\ work[c][g].value \in Bytes \cup {None}
        BY DEF Shape, CallShape
      <3>2. \/ work' = [work EXCEPT ![c][g] = [step |-> "open", value |-> None]]
            \/ work' = [work EXCEPT ![c][g] = [step |-> "read", value |-> disk[g].bytes]]
            \/ work' = [work EXCEPT ![c][g] = [step |-> "ok", value |-> work[c][g].value]]
            \/ work' = [work EXCEPT ![c][g] = [step |-> "failed", value |-> None]]
        BY <1>1 DEF OpenFile, ReadFile, CloseFile, FileFails, Advance
      <3> QED
        BY <3>1, <3>2
    <2> QED
      BY <2>1 DEF CallShape
  <1>4. work[c][g].step # "none"
    BY <1>1 DEF OpenFile, ReadFile, CloseFile, FileFails, Hashes
  <1>5. InHand(c)' = InHand(c)
    BY <1>3, <1>4 DEF CallShape, InHand
  <1>6. CountsOf(c)'
    BY <1>2, <1>5
       DEF CountInv, CountsOf, CountsAgree, WorkIsPending, WorkIsSelected,
       SelectionIsDue, ProgressOf, Due
  <1>7. CountShape'
    BY <1>2 DEF CountInv, CountShape
  <1>8. \A h \in Call \ {c} : QuietFor(h)
    BY <1>2, <1>3 DEF QuietFor, CallShape
  <1> QED
    BY <1>6, <1>7, <1>8, CountOfTheOthers

(* The counters after a batch, one by one.                                  *)
LEMMA CountedBatch ==
    ASSUME CountShape, NEW c \in Call, Count(c),
           InBatch(c, "ok") \subseteq Files, InBatch(c, "failed") \subseteq Files
    PROVE  LET o == Cardinality(InBatch(c, "ok"))
               b == Cardinality(InBatch(c, "failed"))
           IN  /\ counts' \in [Call -> Counters]
               /\ \A h \in Call \ {c} : counts'[h] = counts[h]
               /\ counts'[c].selected = counts[c].selected
               /\ counts'[c].pending = counts[c].pending
               /\ counts'[c].processed = counts[c].processed + o + b
               /\ counts'[c].hashed = counts[c].hashed + o
               /\ counts'[c].failed = counts[c].failed + b
               /\ counts'[c].remaining = counts[c].remaining - o
  <1> DEFINE o == Cardinality(InBatch(c, "ok"))
             b == Cardinality(InBatch(c, "failed"))
             k == counts[c]
  <1>1. o \in Nat /\ b \in Nat
    BY FileSets
  <1>2. counts' = [counts EXCEPT ![c].processed = @ + o + b, ![c].hashed = @ + o,
                                 ![c].failed = @ + b, ![c].remaining = @ - o]
    BY DEF Count
  <1>3. k \in Counters /\ counts \in [Call -> Counters]
    BY DEF CountShape
  <1> HIDE DEF o, b
  <1> DEFINE d1 == [k EXCEPT !.processed = k.processed + o + b]
             d2 == [d1 EXCEPT !.hashed = d1.hashed + o]
             d3 == [d2 EXCEPT !.failed = d2.failed + b]
             d4 == [d3 EXCEPT !.remaining = d3.remaining - o]
             e1 == [counts EXCEPT ![c] = d1]
             e2 == [e1 EXCEPT ![c] = d2]
             e3 == [e2 EXCEPT ![c] = d3]
             e4 == [e3 EXCEPT ![c] = d4]
  <1>4. /\ e1[c] = d1 /\ e2[c] = d2 /\ e3[c] = d3 /\ e4[c] = d4
        /\ \A h \in Call \ {c} : e4[h] = counts[h]
    <2> HIDE DEF d1, d2, d3, d4
    <2> QED
      BY <1>3
  <1>5. counts' = e4
    <2>1. counts' = [[[[counts EXCEPT ![c].processed = @ + o + b] EXCEPT ![c].hashed = @ + o]
                        EXCEPT ![c].failed = @ + b] EXCEPT ![c].remaining = @ - o]
      BY <1>2
    <2>2. [counts EXCEPT ![c].processed = @ + o + b] = e1
      BY <1>3
    <2>3. [e1 EXCEPT ![c].hashed = @ + o] = e2
      <3> HIDE DEF d1, e1
      <3> QED
        BY <1>4
    <2>4. [e2 EXCEPT ![c].failed = @ + b] = e3
      <3> HIDE DEF d2, e2
      <3> QED
        BY <1>4
    <2>5. [e3 EXCEPT ![c].remaining = @ - o] = e4
      <3> HIDE DEF d3, e3
      <3> QED
        BY <1>4
    <2> HIDE DEF e1, e2, e3, e4
    <2> QED
      BY <2>1, <2>2, <2>3, <2>4, <2>5
  <1>6. d1 \in Counters /\ d1.processed = k.processed + o + b
        /\ d1.selected = k.selected /\ d1.pending = k.pending /\ d1.hashed = k.hashed
        /\ d1.failed = k.failed /\ d1.remaining = k.remaining
    <2>1. k.processed + o + b \in Nat
      BY <1>1, <1>3 DEF Counters
    <2> QED
      BY <1>3, <2>1 DEF Counters
  <1> HIDE DEF d1, k
  <1>7. d2 \in Counters /\ d2.hashed = k.hashed + o
        /\ d2.selected = k.selected /\ d2.pending = k.pending
        /\ d2.processed = k.processed + o + b
        /\ d2.failed = k.failed /\ d2.remaining = k.remaining
    <2>1. d1.hashed + o \in Nat
      BY <1>1, <1>6 DEF Counters
    <2> QED
      BY <1>6, <2>1 DEF Counters
  <1> HIDE DEF d2
  <1>8. d3 \in Counters /\ d3.failed = k.failed + b
        /\ d3.selected = k.selected /\ d3.pending = k.pending
        /\ d3.processed = k.processed + o + b
        /\ d3.hashed = k.hashed + o /\ d3.remaining = k.remaining
    <2>1. d2.failed + b \in Nat
      BY <1>1, <1>7 DEF Counters
    <2> QED
      BY <1>7, <2>1 DEF Counters
  <1> HIDE DEF d3
  <1>9. d4 \in Counters /\ d4.remaining = k.remaining - o
        /\ d4.selected = k.selected /\ d4.pending = k.pending
        /\ d4.processed = k.processed + o + b
        /\ d4.hashed = k.hashed + o /\ d4.failed = k.failed + b
    <2>1. d3.remaining - o \in Int
      BY <1>1, <1>8 DEF Counters
    <2> QED
      BY <1>8, <2>1 DEF Counters
  <1>10. e4 \in [Call -> Counters]
    <2> HIDE DEF d4
    <2> QED
      BY <1>3, <1>6, <1>7, <1>8, <1>9
  <1> HIDE DEF d4, e4
  <1> QED
    BY <1>4, <1>5, <1>9, <1>10 DEF k, o, b

(* A committed batch moves its files from pending to processed, and those   *)
(* that were hashed from due to done.                                       *)
LEMMA CommittingCountsTheBatch ==
    ASSUME Shape, CallShape, CallsHaveAScan, DueFilesHaveNoHash, CountInv,
           NEW c \in Call, CommitBatch(c), MayWrite(c)
    PROVE  CountInv'
  <1> DEFINE ok == InBatch(c, "ok")
             bad == InBatch(c, "failed")
             o == Cardinality(ok)
             b == Cardinality(bad)
  <1>1. /\ pc[c] = "hash" /\ lease.owner = c
        /\ \A f \in Files : work[c][f].step \in {"none", "ok", "failed"}
        /\ Count(c) /\ Insert(c)
        /\ pc' = [pc EXCEPT ![c] = "next"]
        /\ work' = [work EXCEPT ![c] = NoWork]
        /\ UNCHANGED <<lease, source, snap, left>>
    BY DEF CommitBatch, Goto, MayWrite, Owned
  <1>2. /\ ok \subseteq Files /\ bad \subseteq Files /\ ok \cap bad = {}
        /\ InHand(c) = ok \cup bad /\ left[c] \subseteq Files /\ snap[c] \subseteq Files
    BY <1>1 DEF InBatch, InHand, CallShape, CountInv, CountShape
  <1>3. left[c] \cap InHand(c) = {}
    BY DEF CallsHaveAScan, InHand
  <1>4. source[c] \in Scans
    BY <1>1, HashingAssumption DEF CallsHaveAScan, CallShape, Scans
  <1>5. /\ pc'[c] = "next" /\ left'[c] = left[c] /\ snap'[c] = snap[c] /\ InHand(c)' = {}
        /\ source'[c] = source[c]
    BY <1>1 DEF CallShape, InHand, NoWork
  <1>6. /\ counts' \in [Call -> Counters]
        /\ \A h \in Call \ {c} : counts'[h] = counts[h]
        /\ counts'[c].selected = counts[c].selected
        /\ counts'[c].pending = counts[c].pending
        /\ counts'[c].processed = counts[c].processed + o + b
        /\ counts'[c].hashed = counts[c].hashed + o
        /\ counts'[c].failed = counts[c].failed + b
        /\ counts'[c].remaining = counts[c].remaining - o
    BY <1>1, <1>2, CountedBatch DEF CountInv
  <1>7. CountShape'
    BY <1>1, <1>6 DEF CountInv, CountShape
  <1>8. /\ counts[c] \in Counters /\ CountsAgree(c) /\ WorkIsPending(c) /\ WorkIsSelected(c)
        /\ ProgressOf(c)
    BY DEF CountInv, CountShape, CountsOf
  <1>9. ASSUME NEW f \in Files
        PROVE  full'[source[c]][f].rows = IF f \in ok THEN 1 ELSE full[source[c]][f].rows
    <2> DEFINE hashed == [e \in Files |->
                 IF e \in InBatch(c, "ok")
                 THEN [rows |-> full[source[c]][e].rows + 1, value |-> work[c][e].value, by |-> "enrich"]
                 ELSE full[source[c]][e]]
    <2>1. full' = [full EXCEPT ![source[c]] = hashed]
      BY <1>1 DEF Insert
    <2>2. hashed[f] = IF f \in ok
                      THEN [rows |-> full[source[c]][f].rows + 1, value |-> work[c][f].value, by |-> "enrich"]
                      ELSE full[source[c]][f]
      OBVIOUS
    <2> HIDE DEF hashed
    <2>3. full'[source[c]] = hashed
      BY <1>4, <2>1 DEF Shape
    <2>4. f \in ok => full[source[c]][f].rows = 0
      BY <1>1 DEF DueFilesHaveNoHash, InBatch
    <2> QED
      BY <2>2, <2>3, <2>4
  <1>10. ok \subseteq Due(c)
    BY <1>1, <1>2, <1>8 DEF DueFilesHaveNoHash, InBatch, Due, WorkIsSelected
  <1>11. Due(c)' = Due(c) \ ok
    BY <1>2, <1>5, <1>9 DEF Due
  <1>12. Due(c) \subseteq Files
    BY <1>2 DEF Due
  <1> HIDE DEF ok, bad
  <1>13. /\ Cardinality(Due(c) \ ok) = Cardinality(Due(c)) - o /\ Cardinality(Due(c)) \in Nat
         /\ o \in Nat
    BY <1>2, <1>10, <1>12, FileSets
  <1>14. /\ Cardinality(left[c] \cup InHand(c)) = Cardinality(left[c]) + (o + b)
         /\ Cardinality(left[c]) \in Nat /\ o \in Nat /\ b \in Nat
    <2>1. InHand(c) \subseteq Files
      BY <1>2
    <2>2. Cardinality(InHand(c)) = o + b
      BY <1>2, FileSets
    <2>3. Cardinality(left[c] \cup InHand(c)) = Cardinality(left[c]) + Cardinality(InHand(c))
      BY <1>2, <1>3, <2>1, FileSets
    <2> QED
      BY <1>2, <2>2, <2>3, FileSets
  <1>15. left'[c] \cup InHand(c)' = left[c]
    BY <1>5
  <1> HIDE DEF o, b
  <1>16. counts[c].processed + Cardinality(left[c]) + (o + b) = counts[c].pending
    BY <1>1, <1>8, <1>14 DEF WorkIsPending, Counters
  <1>17. CountsAgree(c)'
    BY <1>6, <1>8, <1>14, <1>16 DEF CountsAgree, Counters
  <1>18. WorkIsPending(c)'
    BY <1>5, <1>6, <1>8, <1>14, <1>15, <1>16 DEF WorkIsPending, Counters
  <1>19. WorkIsSelected(c)' /\ SelectionIsDue(c)'
    BY <1>5, <1>8, <1>15 DEF WorkIsSelected, SelectionIsDue
  <1>20. ProgressOf(c)'
    BY <1>1, <1>6, <1>8, <1>11, <1>13 DEF ProgressOf, Counters
  <1>21. CountsOf(c)'
    BY <1>17, <1>18, <1>19, <1>20 DEF CountsOf
  <1>22. \A h \in Call \ {c} : QuietFor(h)
    BY <1>1, <1>6 DEF QuietFor, CallShape
  <1> QED
    BY <1>7, <1>21, <1>22, CountOfTheOthers

(* The count is right in every state.                                       *)
LEMMA CountInvariant == Spec => []CountInv
  <1>1. Init => CountInv
    <2> SUFFICES ASSUME Init PROVE CountInv
      OBVIOUS
    <2>1. CountShape
      BY DEF Init, CountShape, NoCounts, Counters
    <2>2. ASSUME NEW h \in Call
          PROVE  CountsOf(h)
      <3>1. /\ InHand(h) = {} /\ left[h] = {} /\ counts[h] = NoCounts /\ pc[h] = "idle"
            /\ lease.owner # h
        BY HashingAssumption DEF Init, InHand, NoWork, Free
      <3> QED
        BY <3>1 DEF CountsOf, CountsAgree, WorkIsPending, WorkIsSelected,
           SelectionIsDue, ProgressOf, NoCounts
    <2> QED
      BY <2>1, <2>2 DEF CountInv
  <1>2. ListInv /\ CallInv /\ HashInv /\ CountInv /\ [Next]_vars => CountInv'
    <2> SUFFICES ASSUME ListInv, CallInv, HashInv, CountInv, [Next]_vars
                 PROVE  CountInv'
      OBVIOUS
    <2>0. /\ Shape /\ CallShape /\ ScansAreOrdered /\ CallsHaveAScan
          /\ DueFilesHaveNoHash
      BY DEF ListInv, CallInv, HashInv
    <2>1. CASE Quiet
      <3>1. CountShape'
        BY <2>1 DEF Quiet, CountInv, CountShape
      <3> QED
        BY <2>1, <3>1, QuietKeepsTheCount DEF Quiet, CountInv
    <2>2. CASE Next /\ ~Quiet
      BY <2>0, <2>2, OthersAreQuiet, AcquiringStartsTheCount, SnapshotIsDue,
         SelectingCountsTheDue, HandingOutIsNotCounted, HashingIsNotCounted,
         CommittingCountsTheBatch
    <2>3. CASE UNCHANGED vars
      <3>1. Quiet
        BY <2>3 DEF vars, rows, process, Quiet, QuietFor
      <3> QED
        BY <2>1, <3>1
    <2> QED
      BY <2>1, <2>2, <2>3
  <1> QED
    BY <1>1, <1>2, Inductive, PTL DEF Spec

(* While a run has the lease, expired or not, its persisted counters are    *)
(* what the evidence says: across crashes, takeovers and failed files, what *)
(* remains is exactly what of its selection has no hash.                    *)
THEOREM TheCountIsTrue == Spec => []ProgressIsTrue
  <1>1. CountInv => ProgressIsTrue
    BY DEF CountInv, CountsOf, ProgressOf, ProgressIsTrue, Due
  <1> QED
    BY <1>1, CountInvariant, PTL

-----------------------------------------------------------------------------
(* TypeOK: the types that no argument above needs, and the bounds.          *)
QuickValues == {0} \cup {QuickOf[b] : b \in Bytes}

Bounded ==
    /\ changes \in 1..(MaxChanges + 1) /\ faults \in 0..MaxFaults
    /\ \A f \in Files : disk[f].change >= 1
ProcessShape ==
    /\ run \in [Call -> Running \cup Terminal \cup {"NONE"}]
    /\ limit \in [Call -> Limit \cup {0}] /\ keeper \in [Call -> BOOLEAN]
QuickShape == quick \in [Scans -> [Files -> QuickValues]]

(* Changes and faults are counted one by one, up to their bounds.           *)
LEMMA BoundsStay ==
    ASSUME Shape, Bounded, [Next]_vars
    PROVE  Bounded'
  <1> USE DEF Bounded
  <1>1. /\ MaxChanges \in Nat /\ MaxFaults \in Nat
    BY HashingAssumption
  <1>2. faults' = faults \/ (faults < MaxFaults /\ faults' = faults + 1)
    BY DEF Next, vars, Step, Hash, WriteFile, StartScan, ListFiles,
           HashAndFinish, FailScan,
       Enrich, Acquire, PrepareSnapshot, RecordSelection, NextCandidates, OpenFile, ReadFile,
       CloseFile, Advance, FileFails, CommitBatch, Finish, AbandonOwned, Interrupt, Crash,
       HeartbeatFails, LeaseExpires, Fault
  <1>3. ASSUME NEW g \in Files, NEW b \in Bytes, WriteFile(g, b)
        PROVE  /\ changes' \in 1..(MaxChanges + 1)
               /\ \A f \in Files : disk'[f].change >= 1
    <2>1. /\ changes <= MaxChanges /\ changes' = changes + 1
          /\ disk' = [disk EXCEPT ![g] = [bytes |-> b, change |-> changes + 1]]
      BY <1>3 DEF WriteFile
    <2>2. \A f \in Files : disk'[f].change = IF f = g THEN changes + 1 ELSE disk[f].change
      BY <2>1 DEF Shape
    <2> QED
      BY <1>1, <2>1, <2>2
  <1>4. ASSUME \A g \in Files, b \in Bytes : ~WriteFile(g, b)
        PROVE  UNCHANGED <<disk, changes>>
    BY <1>4
       DEF Next, vars, tree, Step, Hash, StartScan, ListFiles, HashAndFinish,
           FailScan,
       Enrich, Acquire, PrepareSnapshot, RecordSelection, NextCandidates, OpenFile, ReadFile,
       CloseFile, Advance, FileFails, CommitBatch, Finish, AbandonOwned, Interrupt, Crash,
       HeartbeatFails, LeaseExpires
  <1> QED
    BY <1>1, <1>2, <1>3, <1>4

(* A quick fingerprint is computed from bytes or comes from a listing.      *)
LEMMA QuickValuesStay ==
    ASSUME Shape, ScansAreOrdered, QuickShape, [Next]_vars
    PROVE  QuickShape'
  <1>1. CASE HashAndFinish
    <2>0. PICK mode \in HashModes, unreadable \in SUBSET Files :
            quick' = [quick EXCEPT ![scans] = [f \in Files |->
               IF Reusable(scans, f, mode) # {}
               THEN quick[CHOOSE t \in Reusable(scans, f, mode) : TRUE][f]
               ELSE IF f \in unreadable THEN 0 ELSE QuickHash(f, mode)]]
      BY <1>1 DEF HashAndFinish
    <2> DEFINE from(f) == CHOOSE t \in Reusable(scans, f, mode) : TRUE
               new == [f \in Files |->
                         IF Reusable(scans, f, mode) # {} THEN quick[from(f)][f]
                         ELSE IF f \in unreadable THEN 0 ELSE QuickHash(f, mode)]
    <2>1. quick' = [quick EXCEPT ![scans] = new]
      BY <2>0
    <2>2. scans \in Scans
      BY <1>1 DEF HashAndFinish, ScansAreOrdered
    <2>3. ASSUME NEW f \in Files
          PROVE  new[f] \in QuickValues
      <3>1. CASE Reusable(scans, f, mode) # {}
        <4>1. from(f) \in Reusable(scans, f, mode)
          BY <3>1
        <4>2. from(f) \in Scans
          BY <2>2, <4>1, EarlierScans DEF Reusable
        <4> HIDE DEF from
        <4> QED
          BY <3>1, <4>2 DEF QuickShape
      <3>2. CASE Reusable(scans, f, mode) = {}
        BY <3>2 DEF QuickHash, QuickValues, Shape
      <3> QED
        BY <3>1, <3>2
    <2>4. new \in [Files -> QuickValues]
      BY <2>3
    <2> HIDE DEF new
    <2> QED
      BY <2>1, <2>2, <2>4 DEF QuickShape
  <1>2. CASE ~HashAndFinish
    <2>1. quick' = quick
      BY <1>2
         DEF Next, vars, scanning, Step, Hash, WriteFile, StartScan, ListFiles,
             FailScan,
         Enrich, Acquire, PrepareSnapshot, RecordSelection, NextCandidates, OpenFile, ReadFile,
         CloseFile, Advance, FileFails, CommitBatch, Finish, AbandonOwned, Interrupt, Crash,
         HeartbeatFails, LeaseExpires
    <2> QED
      BY <2>1 DEF QuickShape
  <1> QED
    BY <1>1, <1>2

(* Statuses, limits and keepers keep their types.                           *)
LEMMA ProcessShapeStays ==
    ASSUME ProcessShape, [Next]_vars
    PROVE  ProcessShape'
  <1> USE DEF ProcessShape
  <1>1. run' \in [Call -> Running \cup Terminal \cup {"NONE"}]
    <2>1. ASSUME NEW c \in Call, Acquire(c)
          PROVE  run' = run \/ run' = [Interrupted(lease.owner) EXCEPT ![c] = "RUNNING"]
      BY <2>1 DEF Acquire, rows
    <2>2. Interrupted(lease.owner) \in [Call -> Running \cup Terminal \cup {"NONE"}]
      BY DEF Interrupted, Terminal
    <2>3. ASSUME NEW c \in Call, Finish(c) \/ AbandonOwned(c)
          PROVE  run' = run \/ \E st \in Terminal : run' = [run EXCEPT ![c] = st]
      <3>1. /\ Outcome(c) \in Terminal /\ "FAILED" \in Terminal /\ "INTERRUPTED" \in Terminal
        BY DEF Outcome, Terminal
      <3> QED
        BY <2>3, <3>1 DEF Finish, AbandonOwned, End
    <2>4. CASE \A c \in Call : ~Acquire(c) /\ ~Finish(c) /\ ~AbandonOwned(c)
      BY <2>4
         DEF Next, vars, rows, Step, Hash, WriteFile, StartScan, ListFiles,
             HashAndFinish,
         FailScan, Enrich, PrepareSnapshot, RecordSelection, NextCandidates, OpenFile,
         ReadFile, CloseFile, Advance, FileFails, CommitBatch, Interrupt, Crash,
         HeartbeatFails, LeaseExpires
    <2>5. ASSUME NEW c \in Call, Acquire(c)
          PROVE  run' \in [Call -> Running \cup Terminal \cup {"NONE"}]
      BY <2>1, <2>2, <2>5 DEF Running
    <2>6. ASSUME NEW c \in Call, Finish(c) \/ AbandonOwned(c)
          PROVE  run' \in [Call -> Running \cup Terminal \cup {"NONE"}]
      BY <2>3, <2>6
    <2> QED
      BY <2>4, <2>5, <2>6
  <1>2. \/ limit' = limit
        \/ \E c \in Call, n \in Limit \cup {0} : limit' = [limit EXCEPT ![c] = n]
    BY DEF Next, vars, process, Step, Hash, WriteFile, StartScan, ListFiles,
           HashAndFinish,
       FailScan, Enrich, Acquire, Leave, PrepareSnapshot, RecordSelection, NextCandidates,
       OpenFile, ReadFile, CloseFile, Advance, FileFails, CommitBatch, Finish,
       AbandonOwned, Interrupt, Crash, HeartbeatFails, LeaseExpires
  <1>3. \/ keeper' = keeper
        \/ \E c \in Call, n \in BOOLEAN : keeper' = [keeper EXCEPT ![c] = n]
    BY DEF Next, vars, process, Step, Hash, WriteFile, StartScan, ListFiles,
           HashAndFinish,
       FailScan, Enrich, Acquire, Leave, PrepareSnapshot, RecordSelection, NextCandidates,
       OpenFile, ReadFile, CloseFile, Advance, FileFails, CommitBatch, Finish,
       AbandonOwned, Interrupt, Crash, HeartbeatFails, LeaseExpires
  <1> QED
    BY <1>1, <1>2, <1>3

(* TypeOK, with the checks of EbookCandidateHashRun.__post_init__: whatever *)
(* happens to a run, its persisted counters add up.                         *)
THEOREM TypeCorrect == Spec => []TypeOK
  <1>1. Init => Bounded /\ QuickShape /\ ProcessShape
    BY HashingAssumption
       DEF Init, Bounded, QuickShape, QuickValues, ProcessShape
  <1>2. ListInv /\ Bounded /\ QuickShape /\ ProcessShape /\ [Next]_vars
          => Bounded' /\ QuickShape' /\ ProcessShape'
    BY BoundsStay, QuickValuesStay, ProcessShapeStays DEF ListInv
  <1>3. ListInv /\ CallInv /\ CountInv /\ Bounded /\ QuickShape /\ ProcessShape => TypeOK
    <2> SUFFICES ASSUME ListInv, CallInv, CountInv, Bounded, QuickShape, ProcessShape
                 PROVE  TypeOK
      OBVIOUS
    <2>0. Shape /\ ChangesNameBytes /\ CallShape /\ CountShape
      BY DEF ListInv, CallInv, CountInv
    <2>1. disk \in [Files -> [bytes : Bytes, change : 1..(MaxChanges + 1)]]
      <3>1. ASSUME NEW f \in Files
            PROVE  disk[f] \in [bytes : Bytes, change : 1..(MaxChanges + 1)]
        <4>1. disk[f] \in [bytes : Bytes, change : Nat]
          BY <2>0 DEF Shape
        <4>2. disk[f].change \in 1..(MaxChanges + 1)
          BY <2>0, <4>1, HashingAssumption DEF Bounded, ChangesNameBytes
        <4> QED
          BY <4>1, <4>2
      <3> QED
        BY <2>0, <3>1 DEF Shape
    <2>2. obs \in [Scans -> [Files -> [bytes : Bytes \cup {None},
                                       change : 0..(MaxChanges + 1)]]]
      <3>1. ASSUME NEW s \in Scans, NEW f \in Files
            PROVE  obs[s][f] \in [bytes : Bytes \cup {None}, change : 0..(MaxChanges + 1)]
        <4>1. obs[s][f] \in [bytes : Bytes \cup {None}, change : Nat]
          BY <2>0 DEF Shape
        <4>2. obs[s][f].change \in 0..(MaxChanges + 1)
          BY <2>0, <4>1, HashingAssumption DEF Bounded, ChangesNameBytes
        <4> QED
          BY <4>1, <4>2
      <3>2. ASSUME NEW s \in Scans
            PROVE  obs[s] \in [Files -> [bytes : Bytes \cup {None},
                                         change : 0..(MaxChanges + 1)]]
        BY <2>0, <3>1 DEF Shape
      <3> QED
        BY <2>0, <3>2 DEF Shape
    <2>3. \A h \in Call :
             /\ counts[h].selected \in BOOLEAN /\ counts[h].hashed \in Nat
             /\ counts[h].failed \in Nat
             /\ counts[h].processed = counts[h].hashed + counts[h].failed
             /\ counts[h].pending \in Nat /\ counts[h].processed <= counts[h].pending
             /\ counts[h].remaining = counts[h].pending - counts[h].hashed
      BY DEF CountInv, CountShape, CountsOf, CountsAgree, Counters
    <2> QED
      BY <2>0, <2>1, <2>2, <2>3
         DEF TypeOK, Shape, CallShape, CountShape, Row, Statuses, Steps,
         Bounded, QuickShape, QuickValues, ProcessShape
  <1> QED
    BY <1>1, <1>2, <1>3, Inductive, CountInvariant, PTL DEF Spec
=============================================================================
