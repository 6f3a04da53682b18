---------------------------- MODULE ScanRootLease ----------------------------
(***************************************************************************)
(* The write lease of one ScanRoot: the row of scan_root_write_leases and  *)
(* the operations of SQLiteScanRootWriteLeaseStore on it                   *)
(* (persistence/scan_root_lease.py).                                       *)
(*                                                                         *)
(* Every operation is one SQLite transaction whose first statement is a    *)
(* conditional UPDATE, so it is one action.  What is not atomic is the     *)
(* program around it: a process reads the clock, then waits for the write  *)
(* lock (busy_timeout) and only then runs its UPDATE, and it reads the row *)
(* with current() long before it tries takeover_expired().  A transaction  *)
(* therefore carries a time up to MaxDelay old, and a takeover works with  *)
(* a copy of the row that may be stale.  A process that crashes is one     *)
(* that takes no further step: no owner is obliged to do anything.         *)
(***************************************************************************)
EXTENDS Integers, Sequences

CONSTANTS
    Owner,        \* acquisition attempts, one per acquire or takeover call
    Run,          \* owner_run_id values
    Kind,         \* ScanRootWriteOwnerKind
    Token,        \* lease_token values
    RunOf,        \* the run an attempt works for
    KindOf,       \* the kind of an attempt
    TokenOf,      \* the token an attempt draws; nothing forbids a repetition
    Recoverable,  \* the kinds with a workflow that calls takeover_expired
    LeaseTime,    \* lease_expires_at - acquired_at
    MaxDelay,     \* longest wait between reading the clock and the UPDATE
    MaxEpoch,     \* 2^63 - 1 in the code
    MaxTime,      \* bound: the clock stops here, and no acquire or heartbeat
                  \* reaches beyond it
    MaxWrites,    \* bound: committed transactions
    None          \* SQL NULL

ASSUME ConstantsAssumption ==
    /\ RunOf \in [Owner -> Run]
    /\ KindOf \in [Owner -> Kind]
    /\ TokenOf \in [Owner -> Token]
    /\ Recoverable \subseteq Kind
    /\ None \notin Run \cup Kind \cup Token
    /\ LeaseTime \in Nat \ {0}
    /\ MaxDelay \in Nat
    /\ MaxEpoch \in Nat
    /\ MaxTime \in Nat
    /\ MaxWrites \in Nat

VARIABLES
    row,          \* the row of the table
    proof,        \* proof[o]: the OwnedScanRootWriteLease o holds in memory
    seen,         \* seen[o]: what o's last current() returned
    now,          \* the wall clock
    log           \* the owner of every committed fenced transaction, in order

vars == <<row, proof, seen, now, log>>

(* A row and a proof have the same columns.  A free slot, and an owner     *)
(* without proof, has token None; the epoch of a free slot survives.       *)
Lease == [kind : Kind \cup {None}, run : Run \cup {None},
          token : Token \cup {None}, epoch : 0..MaxEpoch,
          acquired : Nat, heartbeat : Nat, expires : Nat]

FreeSlot(epoch) ==
    [kind |-> None, run |-> None, token |-> None, epoch |-> epoch,
     acquired |-> 0, heartbeat |-> 0, expires |-> 0]

Grants(o, kind, epoch, t) ==
    [kind |-> kind, run |-> RunOf[o], token |-> TokenOf[o], epoch |-> epoch,
     acquired |-> t, heartbeat |-> t, expires |-> t + LeaseTime]

(* The clock readings a transaction that commits now may carry.            *)
Readings == {t \in 0..now : now - t <= MaxDelay}

TypeOK ==
    /\ row \in Lease
    /\ proof \in [Owner -> Lease]
    /\ seen \in [Owner -> Lease]
    /\ now \in Nat
    /\ log \in Seq(Owner)

Init ==
    /\ row = FreeSlot(0)
    /\ proof = [o \in Owner |-> FreeSlot(0)]
    /\ seen = [o \in Owner |-> FreeSlot(0)]
    /\ now = 0
    /\ log = <<>>

Held(lease) == lease.token # None

OwnedConditionsWithoutEpoch(lease, t) ==
    /\ Held(lease)
    /\ row.kind = lease.kind
    /\ row.run = lease.run
    /\ row.token = lease.token
    /\ row.expires > t

(* The WHERE clause of every owner's statement.                            *)
OwnedConditions(lease, t) ==
    /\ Held(lease)
    /\ row.kind = lease.kind
    /\ row.run = lease.run
    /\ row.token = lease.token
    /\ row.epoch = lease.epoch
    /\ row.expires > t

AcquireWithoutEpochLimit(o, t) ==
    /\ ~Held(proof[o])
    /\ ~Held(row)
    /\ t + LeaseTime <= MaxTime
    /\ row' = Grants(o, KindOf[o], row.epoch + 1, t)
    /\ proof' = [proof EXCEPT ![o] = row']
    /\ UNCHANGED <<seen, now, log>>

(* Only a free slot is granted: an expired lease still blocks.             *)
Acquire(o, t) ==
    /\ ~Held(proof[o])
    /\ ~Held(row)
    /\ row.epoch < MaxEpoch
    /\ t + LeaseTime <= MaxTime
    /\ row' = Grants(o, KindOf[o], row.epoch + 1, t)
    /\ proof' = [proof EXCEPT ![o] = row']
    /\ UNCHANGED <<seen, now, log>>

CurrentUnlessExpired(o) ==
    /\ ~Held(proof[o])
    /\ KindOf[o] \in Recoverable
    /\ seen' = [seen EXCEPT ![o] = IF row.expires > now THEN row
                                   ELSE FreeSlot(row.epoch)]
    /\ UNCHANGED <<row, proof, now, log>>

(* A workflow reads the row before it decides whether to take over.        *)
Current(o) ==
    /\ ~Held(proof[o])
    /\ KindOf[o] \in Recoverable
    /\ seen' = [seen EXCEPT ![o] = row]
    /\ UNCHANGED <<row, proof, now, log>>

(* The row must still be the expired one that was read, and be expired at   *)
(* the time of the takeover: a heartbeat in between has moved expires.     *)
TakeoverExpired(o, t) ==
    /\ ~Held(proof[o])
    /\ Held(seen[o])
    /\ seen[o].kind = KindOf[o]
    /\ t >= seen[o].expires
    /\ row.kind = seen[o].kind
    /\ row.run = seen[o].run
    /\ row.token = seen[o].token
    /\ row.epoch = seen[o].epoch
    /\ row.expires <= t
    /\ row.epoch < MaxEpoch
    /\ row' = Grants(o, seen[o].kind, row.epoch + 1, t)
    /\ proof' = [proof EXCEPT ![o] = row']
    /\ UNCHANGED <<seen, now, log>>

(* replace() validates the renewed proof inside the transaction, so a       *)
(* heartbeat read before the acquisition rolls back.  A late heartbeat     *)
(* (t < now) may renew a lease that nobody took over, or shorten it.       *)
Heartbeat(o, t) ==
    /\ OwnedConditions(proof[o], t)
    /\ t >= proof[o].acquired
    /\ t + LeaseTime <= MaxTime
    /\ row' = [row EXCEPT !.heartbeat = t, !.expires = t + LeaseTime]
    /\ proof' = [proof EXCEPT ![o].heartbeat = t, ![o].expires = t + LeaseTime]
    /\ UNCHANGED <<seen, now, log>>

(* fence() or fence_scoped_write() followed by the owner's own statements. *)
FencedWrite(o, t) ==
    /\ OwnedConditions(proof[o], t)
    /\ Len(log) < MaxWrites
    /\ log' = Append(log, o)
    /\ UNCHANGED <<row, proof, seen, now>>

(* The caller keeps its proof object: it may still try to use it.          *)
Release(o, t) ==
    /\ OwnedConditions(proof[o], t)
    /\ row' = FreeSlot(row.epoch)
    /\ UNCHANGED <<proof, seen, now, log>>

Tick ==
    /\ now < MaxTime
    /\ now' = now + 1
    /\ UNCHANGED <<row, proof, seen, log>>

Next ==
    \/ \E o \in Owner : Current(o)
    \/ \E o \in Owner, t \in Readings :
          \/ Acquire(o, t)
          \/ TakeoverExpired(o, t)
          \/ Heartbeat(o, t)
          \/ FencedWrite(o, t)
          \/ Release(o, t)
    \/ Tick

Spec == Init /\ [][Next]_vars

(* Time passes, and a recovering process that finds an expired row of its  *)
(* kind completes its read and its takeover.  Nothing obliges an owner to  *)
(* renew or release: it may have crashed.                                  *)
Fairness ==
    /\ WF_vars(Tick)
    /\ \A o \in Owner :
          /\ WF_vars(seen[o] # row /\ Current(o))
          /\ WF_vars(TakeoverExpired(o, now))

FairSpec == Spec /\ Fairness

-----------------------------------------------------------------------------
(* The attempts whose proof the row confirms, whatever the time.           *)
Holders == {o \in Owner : /\ Held(proof[o])
                          /\ Held(row)
                          /\ proof[o].epoch = row.epoch}

Retired == {o \in Owner : Held(proof[o])} \ Holders

Exclusive == INSTANCE ExclusiveWriter WITH holders <- Holders,
                                           retired <- Retired

(* The lease implements the abstract exclusive writer of ADR-0027.         *)
ImplementsExclusiveWriter == Exclusive!Spec

(* ADR-0027: after a takeover a stale writer commits not a single write,   *)
(* even if token and run id are reused: in the log of fenced transactions  *)
(* the commits of one owner are contiguous.                                *)
StaleOwnerNeverWrites == Exclusive!TenuresAreContiguous

(* At no clock reading do two different proofs pass the WHERE clause.      *)
OneOwnerAtAnyTime ==
    \A o1, o2 \in Owner, t1, t2 \in Readings :
        OwnedConditions(proof[o1], t1) /\ OwnedConditions(proof[o2], t2)
            => o1 = o2

(* A persisted lease can always be read back: current() builds an          *)
(* OwnedScanRootWriteLease, whose __post_init__ rejects a heartbeat before *)
(* the acquisition or an expiry that is not after the heartbeat.           *)
CurrentIsReadable ==
    Held(row) => /\ row.epoch > 0
                 /\ row.acquired <= row.heartbeat
                 /\ row.heartbeat < row.expires

(* A root changes hands without a release only after the lease in the row  *)
(* has really expired, although the takeover was decided on an old read    *)
(* and the owner may have renewed since.                                   *)
OnlyExpiredLeaseIsTakenOver ==
    [][Held(row) /\ Held(row') /\ row'.epoch # row.epoch
          => row.expires <= now]_vars

(* ADR-0027: every grant raises the epoch by exactly one, release and      *)
(* heartbeat keep it, it is never reset, and an exhausted epoch grants no  *)
(* lease at all.                                                           *)
EpochCountsGrants ==
    [][row'.epoch = row.epoch + (IF \E o \in Owner : ~Held(proof[o]) /\ Held(proof'[o])
                                   THEN 1 ELSE 0)]_vars

(* A transaction may commit with an outdated clock, but never later than    *)
(* the longest wait for the write lock after the expiry in the row.        *)
LateWriteIsBounded ==
    [][log' # log => now < row.expires + MaxDelay]_vars

(* A lease of a recoverable kind does not block the root for ever, even if *)
(* its owner crashed: it is released or taken over, as long as the epoch   *)
(* is not exhausted and a process of its kind still asks for the root.     *)
(* (Within the bound: a lease taken over near MaxTime need not expire.)    *)
AbandonedLeaseIsRecovered ==
    \A o \in Owner :
        (o \in Holders /\ KindOf[o] \in Recoverable /\ row.expires <= MaxTime)
            ~> \/ o \notin Holders
               \/ row.epoch = MaxEpoch
               \/ \A h \in Owner : KindOf[h] = KindOf[o] => Held(proof[h])
=============================================================================
