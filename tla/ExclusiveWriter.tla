--------------------------- MODULE ExclusiveWriter ---------------------------
(***************************************************************************)
(* What the lease of one ScanRoot promises to the writers of that root     *)
(* (ADR-0027): there is at most one holder at a time, only the holder      *)
(* commits, and a writer that has lost the root never commits again.       *)
(* Nothing here speaks of tokens, epochs or clocks; ScanRootLease shows    *)
(* that the row of scan_root_write_leases provides it.                     *)
(***************************************************************************)
EXTENDS Naturals, Sequences

CONSTANT Owner     \* attempts to become the writer of the root

VARIABLES
    holders,       \* the writer the root belongs to: empty or one element
    retired,       \* the writers that held the root and lost it
    log            \* the writer of every committed transaction, in order

vars == <<holders, retired, log>>

TypeOK ==
    /\ holders \in SUBSET Owner
    /\ retired \in SUBSET Owner
    /\ log \in Seq(Owner)

Init ==
    /\ holders = {}
    /\ retired = {}
    /\ log = <<>>

(* A writer that never held the root receives it, from nobody or from a     *)
(* predecessor that is thereby retired.                                    *)
Grant(o) ==
    /\ o \notin holders \cup retired
    /\ holders' = {o}
    /\ retired' = retired \cup holders
    /\ UNCHANGED log

Commit(o) ==
    /\ o \in holders
    /\ log' = Append(log, o)
    /\ UNCHANGED <<holders, retired>>

Yield(o) ==
    /\ o \in holders
    /\ holders' = {}
    /\ retired' = retired \cup holders
    /\ UNCHANGED log

Next == \E o \in Owner : Grant(o) \/ Commit(o) \/ Yield(o)

Spec == Init /\ [][Next]_vars

(* The transactions of one writer form one contiguous block of the log:    *)
(* once another writer has committed, the earlier one never does again.    *)
TenuresAreContiguous ==
    \A i, j, k \in 1..Len(log) :
        i < j /\ j < k /\ log[i] = log[k] => log[j] = log[i]

(* A writer that lost the root stays without it, and no commit is its own. *)
RetiredStaysOut ==
    [][\A o \in retired : /\ o \in retired'
                          /\ o \notin holders'
                          /\ log' # Append(log, o)]_vars
==============================================================================
