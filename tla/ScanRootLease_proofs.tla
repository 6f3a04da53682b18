------------------------ MODULE ScanRootLease_proofs ------------------------
(***************************************************************************)
(* The lease row implements the abstract exclusive writer for any set of   *)
(* owners, runs, kinds and tokens, any assignment of tokens (repetitions   *)
(* included), any lease time, any delay between reading the clock and the  *)
(* UPDATE, and any epoch limit.                                            *)
(*                                                                         *)
(* The argument rests on the epoch alone: no proof in memory carries an    *)
(* epoch above the row's, and no two proofs carry the same one.            *)
(***************************************************************************)
EXTENDS ScanRootLease, TLAPS

ProofEpochsAreOld ==
    \A o \in Owner : Held(proof[o]) =>
        0 < proof[o].epoch /\ proof[o].epoch <= row.epoch

ProofEpochsDiffer ==
    \A o1, o2 \in Owner :
        Held(proof[o1]) /\ Held(proof[o2]) /\ proof[o1].epoch = proof[o2].epoch
            => o1 = o2

(* A proof the row confirms knows when the row was acquired.               *)
HolderKnowsAcquisition ==
    \A o \in Owner : o \in Holders => proof[o].acquired = row.acquired

IInv ==
    /\ TypeOK
    /\ ProofEpochsAreOld
    /\ ProofEpochsDiffer
    /\ HolderKnowsAcquisition
    /\ CurrentIsReadable

(* A reading is a time that is not in the future.                          *)
LEMMA ReadingsAreTimes ==
    ASSUME now \in Nat, NEW t \in Readings
    PROVE  t \in Nat /\ t <= now
  BY DEF Readings

(* A free slot is a typed row without a token.                             *)
LEMMA FreeSlotIsLease ==
    ASSUME NEW e \in 0..MaxEpoch
    PROVE  /\ FreeSlot(e) \in Lease
           /\ ~Held(FreeSlot(e))
           /\ FreeSlot(e).epoch = e
  BY ConstantsAssumption DEF FreeSlot, Lease, Held

(* What every grant writes into the row, by acquire or by takeover.        *)
LEMMA GrantIsLease ==
    ASSUME NEW o \in Owner, NEW k \in Kind, NEW t \in Nat,
           NEW e \in 0..MaxEpoch, e < MaxEpoch
    PROVE  /\ Grants(o, k, e + 1, t) \in Lease
           /\ Held(Grants(o, k, e + 1, t))
           /\ Grants(o, k, e + 1, t).epoch = e + 1
           /\ Grants(o, k, e + 1, t).acquired = t
           /\ Grants(o, k, e + 1, t).heartbeat = t
           /\ Grants(o, k, e + 1, t).expires = t + LeaseTime
  <1>1. e + 1 \in 0..MaxEpoch /\ t + LeaseTime \in Nat
    BY ConstantsAssumption
  <1>2. TokenOf[o] \in Token /\ RunOf[o] \in Run /\ TokenOf[o] # None
    BY ConstantsAssumption
  <1> QED
    BY <1>1, <1>2 DEF Grants, Lease, Held

(* Acquire and TakeoverExpired have the same effect.                       *)
LEMMA GrantPreservesIInv ==
    ASSUME IInv, NEW o \in Owner, NEW k \in Kind, NEW t \in Nat,
           ~Held(proof[o]), row.epoch < MaxEpoch,
           row' = Grants(o, k, row.epoch + 1, t),
           proof' = [proof EXCEPT ![o] = row'],
           UNCHANGED <<seen, now, log>>
    PROVE  IInv'
  <1>1. row \in Lease /\ row.epoch \in 0..MaxEpoch /\ proof \in [Owner -> Lease]
    BY DEF IInv, TypeOK, Lease
  <1>2. /\ row' \in Lease
        /\ Held(row')
        /\ row'.epoch = row.epoch + 1
        /\ row'.acquired = t
        /\ row'.heartbeat = t
        /\ row'.expires = t + LeaseTime
    BY <1>1, GrantIsLease
  <1>3. /\ proof'[o] = row'
        /\ \A x \in Owner \ {o} : proof'[x] = proof[x]
    BY <1>1
  <1>4. TypeOK'
    BY <1>2 DEF IInv, TypeOK
  <1>5. ProofEpochsAreOld'
    BY <1>1, <1>2, <1>3 DEF IInv, ProofEpochsAreOld, Held, Lease
  <1>6. \A x \in Owner \ {o} : Held(proof'[x]) => proof'[x].epoch # row'.epoch
    BY <1>1, <1>2, <1>3 DEF IInv, ProofEpochsAreOld, Held, Lease
  <1>7. ProofEpochsDiffer'
    BY <1>3, <1>6 DEF IInv, ProofEpochsDiffer, Held
  <1>8. HolderKnowsAcquisition'
    BY <1>3, <1>6 DEF HolderKnowsAcquisition, Holders, Held
  <1>9. CurrentIsReadable'
    BY <1>1, <1>2, ConstantsAssumption DEF CurrentIsReadable
  <1> QED
    BY <1>4, <1>5, <1>7, <1>8, <1>9 DEF IInv

(* The root without a row: nobody holds a proof.                           *)
LEMMA InitIInv == Init => IInv
  <1> SUFFICES ASSUME Init
               PROVE  IInv
    OBVIOUS
  <1>1. 0 \in 0..MaxEpoch
    BY ConstantsAssumption
  <1>2. FreeSlot(0) \in Lease /\ ~Held(FreeSlot(0)) /\ FreeSlot(0).epoch = 0
    BY <1>1, FreeSlotIsLease
  <1>3. TypeOK
    BY <1>2 DEF Init, TypeOK
  <1>4. \A o \in Owner : ~Held(proof[o])
    BY <1>2 DEF Init
  <1> QED
    BY <1>2, <1>3, <1>4 DEF Init, IInv, ProofEpochsAreOld, ProofEpochsDiffer,
       HolderKnowsAcquisition, Holders, CurrentIsReadable

(* Every operation of the store keeps the invariant.                       *)
LEMMA NextIInv == IInv /\ [Next]_vars => IInv'
  <1> SUFFICES ASSUME IInv, [Next]_vars
               PROVE  IInv'
    OBVIOUS
  <1>0. /\ row \in Lease
        /\ row.epoch \in 0..MaxEpoch
        /\ proof \in [Owner -> Lease]
        /\ seen \in [Owner -> Lease]
        /\ now \in Nat
        /\ log \in Seq(Owner)
    BY DEF IInv, TypeOK, Lease
  <1>1. ASSUME NEW o \in Owner, Current(o)
        PROVE  IInv'
    <2>1. TypeOK'
      BY <1>0, <1>1 DEF Current, TypeOK
    <2>2. UNCHANGED <<row, proof>>
      BY <1>1 DEF Current
    <2> QED
      BY <2>1, <2>2 DEF IInv, ProofEpochsAreOld, ProofEpochsDiffer, Held,
         HolderKnowsAcquisition, Holders, CurrentIsReadable
  <1>2. ASSUME NEW o \in Owner, NEW t \in Readings, Acquire(o, t)
        PROVE  IInv'
    <2>1. KindOf[o] \in Kind /\ t \in Nat
      BY <1>0, ReadingsAreTimes, ConstantsAssumption
    <2> QED
      BY <2>1, <1>2, GrantPreservesIInv DEF Acquire
  <1>3. ASSUME NEW o \in Owner, NEW t \in Readings, TakeoverExpired(o, t)
        PROVE  IInv'
    <2>1. KindOf[o] \in Kind /\ t \in Nat
      BY <1>0, ReadingsAreTimes, ConstantsAssumption
    <2>2. row' = Grants(o, KindOf[o], row.epoch + 1, t)
      BY <1>3 DEF TakeoverExpired
    <2> QED
      BY <2>1, <2>2, <1>3, GrantPreservesIInv DEF TakeoverExpired
  <1>4. ASSUME NEW o \in Owner, NEW t \in Readings, Heartbeat(o, t)
        PROVE  IInv'
    <2>1. t \in Nat /\ t + LeaseTime \in Nat /\ t < t + LeaseTime
      BY <1>0, ReadingsAreTimes, ConstantsAssumption
    <2>2. /\ row' \in Lease
          /\ row'.token = row.token
          /\ row'.epoch = row.epoch
          /\ row'.acquired = row.acquired
          /\ row'.heartbeat = t
          /\ row'.expires = t + LeaseTime
      BY <1>0, <1>4, <2>1 DEF Heartbeat, Lease
    <2>3. /\ proof' \in [Owner -> Lease]
          /\ \A x \in Owner : /\ proof'[x].token = proof[x].token
                              /\ proof'[x].epoch = proof[x].epoch
                              /\ proof'[x].acquired = proof[x].acquired
      BY <1>0, <1>4, <2>1 DEF Heartbeat, Lease
    <2>4. TypeOK'
      BY <1>0, <1>4, <2>2, <2>3 DEF Heartbeat, TypeOK
    <2>5. ProofEpochsAreOld' /\ ProofEpochsDiffer' /\ HolderKnowsAcquisition'
      BY <2>2, <2>3 DEF IInv, ProofEpochsAreOld, ProofEpochsDiffer,
         HolderKnowsAcquisition, Holders, Held
    <2>6. Held(row) /\ row.acquired <= t
      BY <1>4
         DEF Heartbeat, OwnedConditions, Held, IInv, HolderKnowsAcquisition,
         Holders
    <2>7. CurrentIsReadable'
      BY <2>1, <2>2, <2>6 DEF CurrentIsReadable, IInv, Held
    <2> QED
      BY <2>4, <2>5, <2>7 DEF IInv
  <1>5. ASSUME NEW o \in Owner, NEW t \in Readings, FencedWrite(o, t)
        PROVE  IInv'
    <2>1. TypeOK'
      BY <1>0, <1>5 DEF FencedWrite, TypeOK
    <2>2. UNCHANGED <<row, proof>>
      BY <1>5 DEF FencedWrite
    <2> QED
      BY <2>1, <2>2 DEF IInv, ProofEpochsAreOld, ProofEpochsDiffer, Held,
         HolderKnowsAcquisition, Holders, CurrentIsReadable
  <1>6. ASSUME NEW o \in Owner, NEW t \in Readings, Release(o, t)
        PROVE  IInv'
    <2>1. row' \in Lease /\ ~Held(row') /\ row'.epoch = row.epoch
      BY <1>0, <1>6, FreeSlotIsLease DEF Release
    <2>2. TypeOK'
      BY <1>0, <1>6, <2>1 DEF Release, TypeOK
    <2> QED
      BY <1>6, <2>1, <2>2 DEF Release, IInv, ProofEpochsAreOld,
         ProofEpochsDiffer, HolderKnowsAcquisition, Holders, CurrentIsReadable,
         Held
  <1>7. CASE Tick
    <2>1. TypeOK'
      BY <1>0, <1>7 DEF Tick, TypeOK
    <2>2. UNCHANGED <<row, proof>>
      BY <1>7 DEF Tick
    <2> QED
      BY <2>1, <2>2 DEF IInv, ProofEpochsAreOld, ProofEpochsDiffer, Held,
         HolderKnowsAcquisition, Holders, CurrentIsReadable
  <1>8. CASE UNCHANGED vars
    BY <1>8 DEF vars, IInv, TypeOK, ProofEpochsAreOld, ProofEpochsDiffer, Held,
       HolderKnowsAcquisition, Holders, CurrentIsReadable
  <1> QED
    BY <1>1, <1>2, <1>3, <1>4, <1>5, <1>6, <1>7, <1>8 DEF Next

(* Hence it holds in every state.                                          *)
LEMMA SpecIInv == Spec => []IInv
  BY InitIInv, NextIInv, PTL DEF Spec

(* The columns of the row and of every proof stay in their domains; the    *)
(* epoch never passes its limit.                                           *)
THEOREM TypeCorrect == Spec => []TypeOK
  <1>1. IInv => TypeOK
    BY DEF IInv
  <1> QED
    BY SpecIInv, <1>1, PTL

(* Every lease that is ever persisted can be read back by current().       *)
THEOREM Readable == Spec => []CurrentIsReadable
  <1>1. IInv => CurrentIsReadable
    BY DEF IInv
  <1> QED
    BY SpecIInv, <1>1, PTL

(* Two different proofs never both pass the WHERE clause.                  *)
THEOREM SingleOwner == Spec => []OneOwnerAtAnyTime
  <1>1. IInv => OneOwnerAtAnyTime
    BY DEF IInv, ProofEpochsDiffer, OneOwnerAtAnyTime, OwnedConditions
  <1> QED
    BY SpecIInv, <1>1, PTL

(* A grant makes its owner the only holder and retires the previous one.   *)
LEMMA GrantRefines ==
    ASSUME IInv, NEW o \in Owner, NEW k \in Kind, NEW t \in Nat,
           ~Held(proof[o]), row.epoch < MaxEpoch,
           row' = Grants(o, k, row.epoch + 1, t),
           proof' = [proof EXCEPT ![o] = row'],
           UNCHANGED log
    PROVE  Exclusive!Grant(o)
  <1>1. row.epoch \in 0..MaxEpoch /\ proof \in [Owner -> Lease]
    BY DEF IInv, TypeOK, Lease
  <1>2. Held(row') /\ row'.epoch = row.epoch + 1
    BY <1>1, GrantIsLease
  <1>3. /\ proof'[o] = row'
        /\ \A x \in Owner \ {o} : proof'[x] = proof[x]
    BY <1>1
  <1>4. \A x \in Owner \ {o} : Held(proof[x]) => proof[x].epoch # row'.epoch
    BY <1>1, <1>2 DEF IInv, ProofEpochsAreOld, Held, Lease
  <1>5. Holders' = {o}
    BY <1>2, <1>3, <1>4 DEF Holders, Held
  <1>6. Retired' = Retired \cup Holders
    BY <1>2, <1>3, <1>5 DEF Retired, Holders, Held
  <1>7. o \notin Holders \cup Retired
    BY DEF Holders, Retired
  <1> QED
    BY <1>5, <1>6, <1>7 DEF Exclusive!Grant

(* Without a lease there is neither holder nor retired writer.             *)
LEMMA InitRefines == Init => Exclusive!Init
  <1> SUFFICES ASSUME Init
               PROVE  Exclusive!Init
    OBVIOUS
  <1>1. \A o \in Owner : ~Held(proof[o])
    BY DEF Init, FreeSlot, Held
  <1> QED
    BY <1>1 DEF Init, Exclusive!Init, Holders, Retired

(* A grant is a Grant, a fenced write a Commit, a release a Yield; reads,  *)
(* heartbeats and the clock stutter.                                       *)
LEMMA StepRefines == IInv /\ [Next]_vars => [Exclusive!Next]_Exclusive!vars
  <1> SUFFICES ASSUME IInv, [Next]_vars
               PROVE  [Exclusive!Next]_Exclusive!vars
    OBVIOUS
  <1>0. now \in Nat /\ proof \in [Owner -> Lease]
    BY DEF IInv, TypeOK
  <1>1. ASSUME NEW o \in Owner, Current(o)
        PROVE  UNCHANGED Exclusive!vars
    BY <1>1 DEF Current, Exclusive!vars, Holders, Retired, Held
  <1>2. ASSUME NEW o \in Owner, NEW t \in Readings, Acquire(o, t)
        PROVE  Exclusive!Grant(o)
    <2>1. KindOf[o] \in Kind /\ t \in Nat
      BY <1>0, ReadingsAreTimes, ConstantsAssumption
    <2> QED
      BY <2>1, <1>2, GrantRefines DEF Acquire
  <1>3. ASSUME NEW o \in Owner, NEW t \in Readings, TakeoverExpired(o, t)
        PROVE  Exclusive!Grant(o)
    <2>1. KindOf[o] \in Kind /\ t \in Nat
      BY <1>0, ReadingsAreTimes, ConstantsAssumption
    <2>2. row' = Grants(o, KindOf[o], row.epoch + 1, t)
      BY <1>3 DEF TakeoverExpired
    <2> QED
      BY <2>1, <2>2, <1>3, GrantRefines DEF TakeoverExpired
  <1>4. ASSUME NEW o \in Owner, NEW t \in Readings, Heartbeat(o, t)
        PROVE  UNCHANGED Exclusive!vars
    <2>1. /\ row'.token = row.token
          /\ row'.epoch = row.epoch
      BY <1>4 DEF Heartbeat, IInv, TypeOK, Lease
    <2>2. \A x \in Owner : /\ proof'[x].token = proof[x].token
                           /\ proof'[x].epoch = proof[x].epoch
      BY <1>0, <1>4 DEF Heartbeat, Lease
    <2>3. log' = log
      BY <1>4 DEF Heartbeat
    <2> QED
      BY <2>1, <2>2, <2>3 DEF Exclusive!vars, Holders, Retired, Held
  <1>5. ASSUME NEW o \in Owner, NEW t \in Readings, FencedWrite(o, t)
        PROVE  Exclusive!Commit(o)
    BY <1>5
       DEF FencedWrite, OwnedConditions, Exclusive!Commit, Holders, Retired,
       Held
  <1>6. ASSUME NEW o \in Owner, NEW t \in Readings, Release(o, t)
        PROVE  Exclusive!Yield(o)
    <2>1. o \in Holders
      BY <1>6 DEF Release, OwnedConditions, Holders, Held
    <2>2. ~Held(row') /\ UNCHANGED <<proof, log>>
      BY <1>6 DEF Release, FreeSlot, Held
    <2>3. Holders' = {} /\ Retired' = Retired \cup Holders
      BY <2>2 DEF Holders, Retired, Held
    <2> QED
      BY <2>1, <2>2, <2>3 DEF Exclusive!Yield
  <1>7. CASE Tick
    BY <1>7 DEF Tick, Exclusive!vars, Holders, Retired, Held
  <1>8. CASE UNCHANGED vars
    BY <1>8 DEF vars, Exclusive!vars, Holders, Retired, Held
  <1> QED
    BY <1>1, <1>2, <1>3, <1>4, <1>5, <1>6, <1>7, <1>8 DEF Next, Exclusive!Next

(* The row with its epoch implements the abstract exclusive writer: every  *)
(* grant, committed transaction and release is a step of it, everything    *)
(* else (reads, heartbeats, the clock) stutters.                           *)
THEOREM Refinement == Spec => ImplementsExclusiveWriter
  BY InitRefines, StepRefines, SpecIInv, PTL
     DEF Spec, Exclusive!Spec, ImplementsExclusiveWriter

-----------------------------------------------------------------------------
(* The abstract writer.  Nothing below looks into the definitions of       *)
(* Holders and Retired: the facts hold of every implementation of          *)
(* ExclusiveWriter, and the refinement carries them over to the lease.     *)

(* The root belongs to one writer or to none.                              *)
AtMostOneHolder == \A x, y \in Holders : x = y

HoldersAreNotRetired == Holders \cap Retired = {}

(* Whoever has written is the holder or has been retired.                  *)
WritersAreKnown == \A k \in 1..Len(log) : log[k] \in Holders \cup Retired

(* Nobody has written after the present holder's first write but itself.   *)
HolderWroteLast ==
    \A i, j \in 1..Len(log) : i < j /\ log[i] \in Holders => log[j] = log[i]

WriterInv ==
    /\ Exclusive!TypeOK
    /\ AtMostOneHolder
    /\ HoldersAreNotRetired
    /\ WritersAreKnown
    /\ HolderWroteLast
    /\ Exclusive!TenuresAreContiguous

(* Nobody has held the root and the log is empty.                          *)
LEMMA WriterInit == Exclusive!Init => WriterInv
  BY DEF Exclusive!Init, WriterInv, Exclusive!TypeOK, AtMostOneHolder,
         HoldersAreNotRetired,
         WritersAreKnown, HolderWroteLast, Exclusive!TenuresAreContiguous

(* Grants, commits and yields keep the invariant.                          *)
LEMMA WriterNext == WriterInv /\ [Exclusive!Next]_(Exclusive!vars) => WriterInv'
  <1> SUFFICES ASSUME WriterInv, [Exclusive!Next]_(Exclusive!vars)
               PROVE  WriterInv'
    OBVIOUS
  <1> USE DEF WriterInv
  <1>1. ASSUME NEW o \in Owner, Exclusive!Grant(o)
        PROVE  WriterInv'
    <2>1. Exclusive!TypeOK' /\ AtMostOneHolder' /\ HoldersAreNotRetired'
      BY <1>1
         DEF Exclusive!Grant, Exclusive!TypeOK, AtMostOneHolder,
             HoldersAreNotRetired
    <2>2. WritersAreKnown' /\ HolderWroteLast'
      BY <1>1
         DEF Exclusive!Grant, Exclusive!TypeOK, WritersAreKnown,
             HolderWroteLast
    <2>3. Exclusive!TenuresAreContiguous'
      BY <1>1 DEF Exclusive!Grant, Exclusive!TenuresAreContiguous
    <2> QED
      BY <2>1, <2>2, <2>3
  <1>2. ASSUME NEW o \in Owner, Exclusive!Commit(o)
        PROVE  WriterInv'
    <2>1. Exclusive!TypeOK' /\ AtMostOneHolder' /\ HoldersAreNotRetired'
      BY <1>2
         DEF Exclusive!Commit, Exclusive!TypeOK, AtMostOneHolder,
             HoldersAreNotRetired
    <2>2. /\ Len(log') = Len(log) + 1
          /\ log'[Len(log) + 1] = o
          /\ \A k \in 1..Len(log) : log'[k] = log[k]
      BY <1>2 DEF Exclusive!Commit, Exclusive!TypeOK
    <2>3. Len(log) \in Nat
      BY DEF Exclusive!TypeOK
    <2>4. WritersAreKnown'
      BY <1>2, <2>2, <2>3 DEF Exclusive!Commit, WritersAreKnown
    <2>5. HolderWroteLast'
      BY <1>2, <2>2, <2>3 DEF Exclusive!Commit, HolderWroteLast, AtMostOneHolder
    <2>6. Exclusive!TenuresAreContiguous'
      <3> SUFFICES ASSUME NEW i \in 1..Len(log'), NEW j \in 1..Len(log'),
                          NEW k \in 1..Len(log'),
                          i < j, j < k, log'[i] = log'[k]
                   PROVE  log'[j] = log'[i]
        BY DEF Exclusive!TenuresAreContiguous
      <3>1. CASE k \in 1..Len(log)
        BY <3>1, <2>2, <2>3 DEF Exclusive!TenuresAreContiguous
      <3>2. CASE k = Len(log) + 1
        BY <3>2, <1>2, <2>2, <2>3 DEF Exclusive!Commit, HolderWroteLast
      <3> QED
        BY <3>1, <3>2, <2>2, <2>3
    <2> QED
      BY <2>1, <2>4, <2>5, <2>6
  <1>3. ASSUME NEW o \in Owner, Exclusive!Yield(o)
        PROVE  WriterInv'
    <2>1. Exclusive!TypeOK' /\ AtMostOneHolder' /\ HoldersAreNotRetired'
      BY <1>3
         DEF Exclusive!Yield, Exclusive!TypeOK, AtMostOneHolder,
             HoldersAreNotRetired
    <2>2. /\ WritersAreKnown' /\ HolderWroteLast'
          /\ Exclusive!TenuresAreContiguous'
      BY <1>3
         DEF Exclusive!Yield, WritersAreKnown, HolderWroteLast,
             Exclusive!TenuresAreContiguous
    <2> QED
      BY <2>1, <2>2
  <1>4. CASE UNCHANGED Exclusive!vars
    BY <1>4
       DEF Exclusive!vars, Exclusive!TypeOK, AtMostOneHolder,
           HoldersAreNotRetired,
                WritersAreKnown, HolderWroteLast, Exclusive!TenuresAreContiguous
  <1> QED
    BY <1>1, <1>2, <1>3, <1>4 DEF Exclusive!Next

(* Hence it holds in every state.                                          *)
LEMMA WriterHolds == Exclusive!Spec => []WriterInv
  BY WriterInit, WriterNext, PTL DEF Exclusive!Spec

(* In every behaviour of the abstract writer the commits of one writer are *)
(* contiguous in the log: a writer that lost the root never commits again. *)
LEMMA Contiguity == Exclusive!Spec => []Exclusive!TenuresAreContiguous
  <1>1. WriterInv => Exclusive!TenuresAreContiguous
    BY DEF WriterInv
  <1> QED
    BY WriterHolds, <1>1, PTL

(* A retired writer stays retired, is never granted the root again and     *)
(* commits nothing.                                                        *)
LEMMA Retirement == Exclusive!Spec => Exclusive!RetiredStaysOut
  <1>1. WriterInv /\ [Exclusive!Next]_(Exclusive!vars) =>
          [\A o \in Retired : /\ o \in Retired'
                              /\ o \notin Holders'
                              /\ log' # Append(log, o)]_(Exclusive!vars)
    <2> SUFFICES ASSUME WriterInv, [Exclusive!Next]_(Exclusive!vars),
                        ~ UNCHANGED Exclusive!vars, NEW r \in Retired
                 PROVE  /\ r \in Retired' /\ r \notin Holders'
                        /\ log' # Append(log, r)
      OBVIOUS
    <2>1. PICK o \in Owner : \/ Exclusive!Grant(o) \/ Exclusive!Commit(o)
                             \/ Exclusive!Yield(o)
      BY DEF Exclusive!Next
    <2>2. log \in Seq(Owner) /\ r \in Owner
      BY DEF WriterInv, Exclusive!TypeOK
    <2>3. /\ Append(log, r) # log
          /\ \A x \in Owner : Append(log, x) = Append(log, r) => x = r
      BY <2>2
    <2>4. CASE Exclusive!Grant(o)
      BY <2>3, <2>4 DEF Exclusive!Grant, WriterInv, HoldersAreNotRetired
    <2>5. CASE Exclusive!Commit(o)
      BY <2>3, <2>5 DEF Exclusive!Commit, WriterInv, HoldersAreNotRetired
    <2>6. CASE Exclusive!Yield(o)
      BY <2>3, <2>6 DEF Exclusive!Yield, WriterInv, HoldersAreNotRetired
    <2> QED
      BY <2>1, <2>4, <2>5, <2>6
  <1> QED
    BY WriterHolds, <1>1, PTL DEF Exclusive!Spec, Exclusive!RetiredStaysOut

(* No commit of a stale owner follows a commit of its successor, even when *)
(* tokens and run ids are reused: the abstract writer's invariant carried  *)
(* over by the refinement.                                                 *)
THEOREM NoStaleWrite == Spec => []StaleOwnerNeverWrites
  BY Refinement, Contiguity, PTL
     DEF ImplementsExclusiveWriter, StaleOwnerNeverWrites

(* An owner whose proof the row no longer confirms never holds the root    *)
(* again and no later transaction is its own, in the lease as in the       *)
(* abstract writer.                                                        *)
THEOREM StaleOwnerStaysOut == Spec => Exclusive!RetiredStaysOut
  BY Refinement, Retirement, PTL DEF ImplementsExclusiveWriter

-----------------------------------------------------------------------------
(* The root changes hands without a release only when the lease in the row *)
(* has expired by the real clock.                                          *)
THEOREM TakeoverIsLate == Spec => OnlyExpiredLeaseIsTakenOver
  <1>1. IInv /\ [Next]_vars =>
          [Held(row) /\ Held(row') /\ row'.epoch # row.epoch
             => row.expires <= now]_vars
    <2> SUFFICES ASSUME IInv, Next, Held(row), Held(row'), row'.epoch # row.epoch
                 PROVE  row.expires <= now
      BY DEF vars
    <2>0. now \in Nat /\ row \in Lease
      BY DEF IInv, TypeOK
    <2>1. \A o \in Owner : ~Current(o)
      BY DEF Current
    <2>2. \A o \in Owner, t \in Readings : ~Acquire(o, t)
      BY DEF Acquire
    <2>3. \A o \in Owner, t \in Readings : ~Heartbeat(o, t)
      BY <2>0 DEF Heartbeat, Lease
    <2>4. \A o \in Owner, t \in Readings : ~FencedWrite(o, t) /\ ~Release(o, t)
      BY DEF FencedWrite, Release, FreeSlot, Held
    <2>5. ~Tick
      BY DEF Tick
    <2>6. PICK o \in Owner, t \in Readings : TakeoverExpired(o, t)
      BY <2>1, <2>2, <2>3, <2>4, <2>5 DEF Next
    <2> QED
      BY <2>0, <2>6, ReadingsAreTimes DEF TakeoverExpired, Lease
  <1> QED
    BY SpecIInv, <1>1, PTL DEF Spec, OnlyExpiredLeaseIsTakenOver

(* A transaction commits at most MaxDelay after the expiry of the lease it *)
(* was fenced with.                                                        *)
THEOREM LateWriteBound == Spec => LateWriteIsBounded
  <1>1. IInv /\ [Next]_vars => [log' # log => now < row.expires + MaxDelay]_vars
    <2> SUFFICES ASSUME IInv, Next, log' # log
                 PROVE  now < row.expires + MaxDelay
      BY DEF vars
    <2>1. PICK o \in Owner, t \in Readings : FencedWrite(o, t)
      BY DEF Next, Current, Acquire, TakeoverExpired, Heartbeat, Release, Tick
    <2>2. now \in Nat /\ row \in Lease
      BY DEF IInv, TypeOK
    <2> QED
      BY <2>1, <2>2, ConstantsAssumption
         DEF FencedWrite, OwnedConditions, Readings, Lease
  <1> QED
    BY SpecIInv, <1>1, PTL DEF Spec, LateWriteIsBounded

(* The epoch counts the grants: one more for every acquire and takeover,    *)
(* the same in every other step, and so never reset.                       *)
THEOREM EpochsCount == Spec => EpochCountsGrants
  <1>1. IInv /\ [Next]_vars =>
          [row'.epoch = row.epoch
             + (IF \E o \in Owner : ~Held(proof[o]) /\ Held(proof'[o])
                  THEN 1 ELSE 0)]_vars
    <2> SUFFICES ASSUME IInv, Next
                 PROVE  row'.epoch = row.epoch
                          + (IF \E o \in Owner : ~Held(proof[o]) /\ Held(proof'[o])
                               THEN 1 ELSE 0)
      BY DEF vars
    <2>0. /\ now \in Nat
          /\ row \in Lease
          /\ row.epoch \in 0..MaxEpoch
          /\ proof \in [Owner -> Lease]
      BY DEF IInv, TypeOK, Lease
    <2>1. ASSUME NEW o \in Owner, NEW t \in Readings,
                 Acquire(o, t) \/ TakeoverExpired(o, t)
          PROVE  /\ row'.epoch = row.epoch + 1
                 /\ ~Held(proof[o]) /\ Held(proof'[o])
      <3>1. KindOf[o] \in Kind /\ t \in Nat
        BY <2>0, ReadingsAreTimes, ConstantsAssumption
      <3>2. /\ ~Held(proof[o])
            /\ row.epoch < MaxEpoch
            /\ row' = Grants(o, KindOf[o], row.epoch + 1, t)
            /\ proof' = [proof EXCEPT ![o] = row']
        BY <2>1 DEF Acquire, TakeoverExpired
      <3>3. row'.epoch = row.epoch + 1 /\ Held(row')
        BY <2>0, <3>1, <3>2, GrantIsLease
      <3> QED
        BY <2>0, <3>2, <3>3 DEF Held
    <2>2. ASSUME NEW o \in Owner, NEW t \in Readings, Heartbeat(o, t)
          PROVE  /\ row'.epoch = row.epoch
                 /\ \A x \in Owner : Held(proof'[x]) => Held(proof[x])
      <3>1. row'.epoch = row.epoch
        BY <2>0, <2>2 DEF Heartbeat, Lease
      <3>2. \A x \in Owner : proof'[x].token = proof[x].token
        BY <2>0, <2>2 DEF Heartbeat, Lease
      <3> QED
        BY <3>1, <3>2 DEF Held
    <2>3. ASSUME NEW o \in Owner, NEW t \in Readings,
                 FencedWrite(o, t) \/ Release(o, t)
          PROVE  row'.epoch = row.epoch /\ proof' = proof
      BY <2>3 DEF FencedWrite, Release, FreeSlot
    <2>4. ASSUME NEW o \in Owner, Current(o) \/ Tick
          PROVE  row'.epoch = row.epoch /\ proof' = proof
      BY <2>4 DEF Current, Tick
    <2>5. CASE Tick
      BY <2>0, <2>5 DEF Tick, Held
    <2>6. ASSUME row'.epoch = row.epoch,
                 \A x \in Owner : Held(proof'[x]) => Held(proof[x])
          PROVE  row'.epoch = row.epoch
                   + (IF \E o \in Owner : ~Held(proof[o]) /\ Held(proof'[o])
                        THEN 1 ELSE 0)
      BY <2>0, <2>6
    <2> QED
      BY <2>1, <2>2, <2>3, <2>4, <2>5, <2>6 DEF Next
  <1> QED
    BY SpecIInv, <1>1, PTL DEF Spec, EpochCountsGrants
=============================================================================
