------------------------- MODULE CollectionRuns_proofs -------------------------
(***************************************************************************)
(* For any number of runs, items, processes and grants: the lease row and  *)
(* the run rows agree, what an item ended with is of its last attempt and  *)
(* backed by a stored graph, finished items stay, and the final status of  *)
(* a run is true of its items.                                             *)
(*                                                                         *)
(* The argument is about tokens: every grant has a greater one, so at most *)
(* one process has the token of the lease row, and it is the only one that *)
(* writes items.  What it has in hand is therefore running in the attempt  *)
(* it claimed.  A process with an older token may have anything in hand.   *)
(***************************************************************************)
EXTENDS CollectionRuns, FiniteSetTheorems, TLAPS

Working(p) == pc[p] \notin {"idle", "resuming"}
Planned(r) == \A i \in ItemsOf(r) : item[i] # "UNPLANNED"

(* TypeOK, by the tuples of the variables.                                 *)
RootType ==
    owner \in Run \cup {None} /\ epoch \in 0..MaxEpoch /\ expired \in BOOLEAN
RunsType ==
    /\ status \in [Run -> {"ABSENT"} \cup Active \cup Final]
    /\ sealed \in [Run -> BOOLEAN]
    /\ token \in [Run -> 0..MaxEpoch]
ItemsType ==
    /\ item \in [Item -> {"UNPLANNED", "PENDING", "RUNNING"} \cup Ended]
    /\ attempt \in [Item -> 0..MaxEpoch] /\ resultOf \in [Item -> 0..MaxEpoch]
    /\ bound \in [Item -> 0..MaxEpoch]
GraphsType ==
    listed \in [Item -> SUBSET Epochs] /\ unlisted \in [Item -> SUBSET Epochs]
ProcType ==
    /\ pc \in [Proc -> {"idle", "resuming", "plan", "drifted", "work", "prepared",
                        "stored"}]
    /\ of \in [Proc -> Run \cup {None}]
    /\ held \in [Proc -> 0..MaxEpoch]
    /\ seen \in [Proc -> BOOLEAN]
    /\ hand \in [Proc -> [Item -> 0..MaxEpoch]]
    /\ doing \in [Proc -> Item \cup {None}]
    /\ found \in [Proc -> {"NOTHING", "REUSED", "LISTED", "UNLISTED", "ERROR"}]

(* Every process at work has a token of its own, and the newest is that of *)
(* the run that owns the lease.                                            *)
TokensAreOwn ==
    /\ \A p \in Proc : pc[p] # "idle" => of[p] \in Run
    /\ \A p \in Proc : Working(p) => held[p] # 0 /\ held[p] <= epoch
    /\ \A p, q \in Proc : Working(p) /\ Working(q) /\ held[p] = held[q] => p = q
    /\ \A p \in Proc : Working(p) /\ held[p] = epoch =>
          owner = of[p] /\ token[of[p]] = epoch

(* A claim can be counted once per grant.                                  *)
AttemptsAreGranted ==
    \A i \in Item :
        /\ attempt[i] <= epoch
        /\ item[i] = "PENDING" => attempt[i] < epoch
        /\ item[i] = "UNPLANNED" => attempt[i] = 0

(* A run that is absent has no rows, one that was sealed has all of them,  *)
(* also according to a process that has read it and not written yet.       *)
AbsentRunsAreBare ==
    \A r \in Run : status[r] = "ABSENT" =>
        ~sealed[r] /\ \A i \in Item : PlanOf[i] = r => item[i] = "UNPLANNED"
SealedRunsAreWhole ==
    \A r \in Run : sealed[r] \/ status[r] = "RUNNING" => Planned(r)
ReadersSawTheRun ==
    \A p \in Proc : pc[p] = "resuming" =>
        status[of[p]] # "ABSENT" /\ (seen[p] => Planned(of[p]))
PlansAreWhole == AbsentRunsAreBare /\ SealedRunsAreWhole /\ ReadersSawTheRun

(* What a process has in hand is of its run; with the newest token, it is  *)
(* running in the attempt that was claimed.                                *)
HandsAreClaimed ==
    \A p \in Proc, i \in Item : hand[p][i] > 0 =>
        /\ pc[p] \in {"work", "prepared", "stored"} /\ PlanOf[i] = of[p]
        /\ held[p] = epoch => item[i] = "RUNNING" /\ attempt[i] = hand[p][i]

(* The archive under inspection is in hand.                                *)
InspectionsAreInHand ==
    \A p \in Proc : pc[p] \in {"prepared", "stored"} =>
        /\ doing[p] \in Item /\ hand[p][doing[p]] > 0 /\ KindOf[of[p]] = "ARCHIVE"
        /\ found[p] # "NOTHING"
        /\ pc[p] = "stored" => found[p] \in {"LISTED", "UNLISTED"}

(* What a process has found of an archive is what is stored of it.         *)
FindingsAreStored ==
    \A p \in Proc :
        /\ pc[p] = "prepared" /\ found[p] = "REUSED" => listed[doing[p]] # {}
        /\ pc[p] = "prepared" /\ found[p] = "LISTED" /\ held[p] = epoch
              => listed[doing[p]] = {}
        /\ pc[p] = "stored" /\ found[p] = "LISTED" => held[p] \in listed[doing[p]]
        /\ pc[p] = "stored" /\ found[p] = "UNLISTED" => held[p] \in unlisted[doing[p]]

Types == RootType /\ RunsType /\ ItemsType /\ GraphsType /\ ProcType
Inv1 == TokensAreOwn /\ RunAndLeaseAgree /\ AttemptsAreGranted /\ PlansAreWhole
Inv2 == HandsAreClaimed /\ InspectionsAreInHand /\ FindingsAreStored
Inv3 == ResultIsOfTheLastAttempt /\ FinalStatusIsTrue /\ ResultsAreBacked /\ OneListing
Inv == Types /\ Inv1 /\ Inv2 /\ Inv3

(* The steps that only leave, give back the lease, or wait.                *)
Leaves(p) ==
    pc[p] # "idle" /\ Leave(p) /\ UNCHANGED <<root, runs, items, graphs>>

Releases(p) ==
    /\ Holds(p) /\ Leave(p) /\ UNCHANGED <<items, graphs>>
    /\ \/ /\ status[of[p]] = "RUNNING" /\ Release(of[p], Verdict(of[p]))
       \/ Release(of[p], "PLANNING")
       \/ Release(of[p], "FAILED")
       \/ Release(of[p], "INTERRUPTED") /\ KindOf[of[p]] = "EBOOK"

(* What a release does, and what recording a result does.                  *)
Released(p) ==
    /\ Working(p) /\ held[p] = epoch /\ owner = of[p] /\ of[p] \in Run
    /\ owner' = None /\ epoch' = epoch /\ sealed' = sealed
    /\ \E to \in {"PLANNING", "FAILED", "INTERRUPTED", "COMPLETED", "COMPLETED_WITH_FAILURES"} :
          status' = [status EXCEPT ![of[p]] = to]
    /\ token' = [token EXCEPT ![of[p]] = 0]
    /\ UNCHANGED <<item, attempt, resultOf, bound, listed, unlisted>>
    /\ pc' = [pc EXCEPT ![p] = "idle"]
    /\ \A q \in Proc \ {p} : UNCHANGED <<of[q], held[q], seen[q], hand[q], doing[q], found[q]>>
    /\ \A i \in Item : hand'[p][i] = 0

Recorded(p, i, result, graph) ==
    /\ pc[p] \in {"work", "prepared", "stored"} /\ held[p] = epoch /\ owner = of[p]
    /\ status[of[p]] = "RUNNING" /\ hand[p][i] > 0 /\ item[i] = "RUNNING"
    /\ UNCHANGED <<owner, epoch, status, sealed, token, attempt, listed, unlisted, of, held, seen>>
    /\ pc' = [pc EXCEPT ![p] = "work"]
    /\ item' = [item EXCEPT ![i] = result]
    /\ resultOf' = [resultOf EXCEPT ![i] = hand[p][i]]
    /\ bound' = [bound EXCEPT ![i] = graph]
    /\ hand' = [hand EXCEPT ![p] = [hand[p] EXCEPT ![i] = 0]]
    /\ \A q \in Proc \ {p} : UNCHANGED <<doing[q], found[q]>>

LeaseMoves ==
    expired' \in BOOLEAN /\ UNCHANGED <<owner, epoch, runs, items, graphs, invocation>>

(* Every step is one of these.                                             *)
LEMMA NextIsOne ==
    ASSUME Next
    PROVE  \/ \E p \in Proc, r \in Run : StartEbook(p, r) \/ StartArchive(p, r) \/ ReadRun(p, r)
           \/ \E p \in Proc :
                \/ Resume(p) \/ Leaves(p) \/ AppendPlanBatch(p) \/ PlanDrifts(p) \/ SealPlan(p)
                \/ Releases(p) \/ ClaimPending(p) \/ CompleteEbookItem(p) \/ Prepare(p)
                \/ StoreGraph(p) \/ StoreFails(p) \/ CompleteArchiveItem(p)
           \/ LeaseMoves
  <1>1. ASSUME NEW p \in Proc, ResumeFails(p) \/ Refused(p) \/ Stops(p)
        PROVE  Leaves(p)
    BY <1>1 DEF ResumeFails, Refused, Stops, Leaves
  <1>2. ASSUME NEW p \in Proc,
               FailPlanning(p) \/ FinishInvocation(p) \/ FinishPlanning(p) \/ FailInvocation(p)
        PROVE  Releases(p)
    BY <1>2 DEF FailPlanning, FinishInvocation, FinishPlanning, FailInvocation, Releases
  <1>3. ASSUME LeaseExpires \/ \E p \in Proc : Heartbeat(p)
        PROVE  LeaseMoves
    BY <1>3 DEF LeaseExpires, Heartbeat, LeaseMoves
  <1> QED
    BY <1>1, <1>2, <1>3, Zenon DEF Next, Step

(* The effect of the steps that give the lease back.                       *)
LEMMA ReleasesDo ==
    ASSUME Types, TokensAreOwn, NEW p \in Proc, Releases(p)
    PROVE  Released(p)
  <1>1. Working(p) /\ held[p] = epoch /\ owner = of[p] /\ of[p] \in Run
    BY DEF Releases, Holds, Working, TokensAreOwn
  <1>2. Verdict(of[p]) \in {"INTERRUPTED", "COMPLETED", "COMPLETED_WITH_FAILURES"}
    BY DEF Verdict
  <1>3. /\ owner' = None /\ epoch' = epoch /\ sealed' = sealed
        /\ \E to \in {"PLANNING", "FAILED", "INTERRUPTED", "COMPLETED", "COMPLETED_WITH_FAILURES"} :
              status' = [status EXCEPT ![of[p]] = to]
        /\ token' = [token EXCEPT ![of[p]] = 0]
    BY <1>2 DEF Releases, Release, NoEpoch
  <1>4. /\ UNCHANGED <<item, attempt, resultOf, bound, listed, unlisted>>
        /\ pc' = [pc EXCEPT ![p] = "idle"]
    BY DEF Releases, Leave, items, graphs
  <1>5. /\ \A q \in Proc \ {p} : UNCHANGED <<of[q], held[q], seen[q], hand[q], doing[q], found[q]>>
        /\ \A i \in Item : hand'[p][i] = 0
    BY DEF Releases, Leave, Types, ProcType
  <1> QED
    BY <1>1, <1>3, <1>4, <1>5 DEF Released

(* The effect of completing an e-book item.                                *)
LEMMA EbookRecords ==
    ASSUME Types, NEW p \in Proc, CompleteEbookItem(p)
    PROVE  /\ KindOf[of[p]] = "EBOOK" /\ pc[p] = "work"
           /\ \E i \in Item, result \in Ended : Recorded(p, i, result, 0)
  <1>1. PICK i \in Item, result \in Ended : i \in InHand(p) /\ Record(p, i, result, NoEpoch)
    BY DEF CompleteEbookItem, InHand
  <1>2. /\ pc[p] = "work" /\ held[p] = epoch /\ owner = of[p] /\ status[of[p]] = "RUNNING"
        /\ UNCHANGED <<owner, epoch, status, sealed, token, listed, unlisted, pc, of, held, seen,
                       doing, found>>
    BY DEF CompleteEbookItem, Holds, root, runs, graphs
  <1>3. pc' = [pc EXCEPT ![p] = "work"]
    BY <1>2 DEF Types, ProcType
  <1>4. /\ hand[p][i] > 0 /\ item[i] = "RUNNING" /\ attempt' = attempt
        /\ item' = [item EXCEPT ![i] = result]
        /\ resultOf' = [resultOf EXCEPT ![i] = hand[p][i]]
        /\ bound' = [bound EXCEPT ![i] = 0]
        /\ hand' = [hand EXCEPT ![p] = [hand[p] EXCEPT ![i] = 0]]
    BY <1>1 DEF Record, InHand, NoEpoch
  <1>5. Recorded(p, i, result, 0)
    BY <1>2, <1>3, <1>4 DEF Recorded
  <1> QED
    BY <1>5 DEF CompleteEbookItem

(* The lease row keeps its type.                                           *)
LEMMA RootStaysTyped ==
    ASSUME Types, TokensAreOwn, Next
    PROVE  RootType'
  <1> USE CollectionAssumption DEF Types, RootType
  <1>1. ASSUME NEW p \in Proc, NEW r \in Run, StartEbook(p, r)
        PROVE  RootType'
    <2>1. owner' \in Run \cup {None}
      BY <1>1 DEF StartEbook, Grant, root
    <2>2. epoch' \in 0..MaxEpoch
      BY <1>1 DEF StartEbook, Grant, root
    <2>3. expired' \in BOOLEAN
      BY <1>1 DEF StartEbook, Grant, root
    <2> QED
      BY <2>1, <2>2, <2>3 DEF RootType
  <1>2. ASSUME NEW p \in Proc, NEW r \in Run, StartArchive(p, r)
        PROVE  RootType'
    <2>1. owner' \in Run \cup {None}
      BY <1>2 DEF StartArchive, Grant, root
    <2>2. epoch' \in 0..MaxEpoch
      BY <1>2 DEF StartArchive, Grant, root
    <2>3. expired' \in BOOLEAN
      BY <1>2 DEF StartArchive, Grant, root
    <2> QED
      BY <2>1, <2>2, <2>3 DEF RootType
  <1>3. ASSUME NEW p \in Proc, NEW r \in Run, ReadRun(p, r)
        PROVE  RootType'
    BY <1>3 DEF ReadRun, root, runs, items, graphs, invocation
  <1>4. ASSUME NEW p \in Proc, Resume(p)
        PROVE  RootType'
    <2>1. owner' \in Run \cup {None}
      BY <1>4 DEF Resume, root, TokensAreOwn, Grant
    <2>2. epoch' \in 0..MaxEpoch
      BY <1>4 DEF Resume, Grant, Reopen, root, ProcType
    <2>3. expired' \in BOOLEAN
      BY <1>4 DEF Resume, Grant, Reopen, root, ProcType
    <2> QED
      BY <2>1, <2>2, <2>3 DEF RootType
  <1>5. ASSUME NEW p \in Proc, Leaves(p)
        PROVE  RootType'
    BY <1>5 DEF Leaves, Leave, root, runs, items, graphs, invocation
  <1>6. ASSUME NEW p \in Proc, AppendPlanBatch(p)
        PROVE  RootType'
    BY <1>6 DEF AppendPlanBatch, Holds, root, runs, items, graphs, invocation
  <1>7. ASSUME NEW p \in Proc, PlanDrifts(p)
        PROVE  RootType'
    BY <1>7 DEF PlanDrifts, Holds, root, runs, items, graphs, invocation
  <1>8. ASSUME NEW p \in Proc, SealPlan(p)
        PROVE  RootType'
    BY <1>8 DEF SealPlan, Holds, root, runs, items, graphs, invocation
  <1>9. ASSUME NEW p \in Proc, Releases(p)
        PROVE  RootType'
    BY <1>9 DEF Releases, Release, Leave, Holds, root, runs, items, graphs, invocation
  <1>10. ASSUME NEW p \in Proc, ClaimPending(p)
        PROVE  RootType'
    BY <1>10 DEF ClaimPending, Holds, InHand, root, runs, items, graphs, invocation
  <1>11. ASSUME NEW p \in Proc, CompleteEbookItem(p)
        PROVE  RootType'
    BY <1>11 DEF CompleteEbookItem, Holds, InHand, Record, root, runs, items, graphs,
       invocation
  <1>12. ASSUME NEW p \in Proc, Prepare(p)
        PROVE  RootType'
    BY <1>12 DEF Prepare, root, runs, items, graphs, invocation
  <1>13. ASSUME NEW p \in Proc, StoreGraph(p)
        PROVE  RootType'
    BY <1>13 DEF StoreGraph, Holds, root, runs, items, graphs, invocation
  <1>14. ASSUME NEW p \in Proc, StoreFails(p)
        PROVE  RootType'
    BY <1>14 DEF StoreFails, root, runs, items, graphs, invocation
  <1>15. ASSUME NEW p \in Proc, CompleteArchiveItem(p)
        PROVE  RootType'
    BY <1>15 DEF CompleteArchiveItem, Holds, Record, root, runs, items, graphs,
       invocation
  <1>16. CASE LeaseMoves
    BY <1>16 DEF LeaseMoves, root, runs, items, graphs, invocation
  <1> QED
    BY NextIsOne, <1>1, <1>2, <1>3, <1>4, <1>5, <1>6, <1>7, <1>8, <1>9,
       <1>10, <1>11, <1>12, <1>13, <1>14, <1>15, <1>16

(* The run rows keep their types.                                          *)
LEMMA RunsStayTyped ==
    ASSUME Types, TokensAreOwn, Next
    PROVE  RunsType'
  <1> USE CollectionAssumption DEF Types, RunsType, Active, Final
  <1>1. ASSUME NEW p \in Proc, NEW r \in Run, StartEbook(p, r)
        PROVE  RunsType'
    BY <1>1 DEF StartEbook, Grant, root, runs, items, graphs, invocation, RootType,
       ProcType, TokensAreOwn, Verdict
  <1>2. ASSUME NEW p \in Proc, NEW r \in Run, StartArchive(p, r)
        PROVE  RunsType'
    BY <1>2 DEF StartArchive, Grant, root, runs, items, graphs, invocation, RootType,
       ProcType, TokensAreOwn, Verdict
  <1>3. ASSUME NEW p \in Proc, NEW r \in Run, ReadRun(p, r)
        PROVE  RunsType'
    BY <1>3 DEF ReadRun, root, runs, items, graphs, invocation
  <1>4. ASSUME NEW p \in Proc, Resume(p)
        PROVE  RunsType'
    BY <1>4 DEF Resume, Grant, Reopen, root, runs, items, graphs, invocation, RootType,
       ProcType, TokensAreOwn, Verdict
  <1>5. ASSUME NEW p \in Proc, Leaves(p)
        PROVE  RunsType'
    BY <1>5 DEF Leaves, Leave, root, runs, items, graphs, invocation
  <1>6. ASSUME NEW p \in Proc, AppendPlanBatch(p)
        PROVE  RunsType'
    BY <1>6 DEF AppendPlanBatch, Holds, root, runs, items, graphs, invocation
  <1>7. ASSUME NEW p \in Proc, PlanDrifts(p)
        PROVE  RunsType'
    BY <1>7 DEF PlanDrifts, Holds, root, runs, items, graphs, invocation
  <1>8. ASSUME NEW p \in Proc, SealPlan(p)
        PROVE  RunsType'
    BY <1>8 DEF SealPlan, Holds, root, runs, items, graphs, invocation, RootType,
       ProcType, TokensAreOwn, Verdict
  <1>9. ASSUME NEW p \in Proc, Releases(p)
        PROVE  RunsType'
    <2>1. \A r \in Run : Verdict(r) \in Active \cup Final
      BY DEF Verdict
    <2>2. /\ sealed' = sealed /\ token' = [token EXCEPT ![of[p]] = NoEpoch]
          /\ \E to \in Active \cup Final : status' = [status EXCEPT ![of[p]] = to]
          /\ NoEpoch \in 0..MaxEpoch
      <3>1. of[p] \in Run
        BY <1>9 DEF Releases, Holds, TokensAreOwn
      <3> QED
        BY <1>9, <2>1, <3>1 DEF Releases, Release, NoEpoch
    <2> QED
      BY <2>2
  <1>10. ASSUME NEW p \in Proc, ClaimPending(p)
        PROVE  RunsType'
    BY <1>10 DEF ClaimPending, Holds, InHand, root, runs, items, graphs, invocation
  <1>11. ASSUME NEW p \in Proc, CompleteEbookItem(p)
        PROVE  RunsType'
    BY <1>11 DEF CompleteEbookItem, Holds, InHand, Record, root, runs, items, graphs,
       invocation
  <1>12. ASSUME NEW p \in Proc, Prepare(p)
        PROVE  RunsType'
    BY <1>12 DEF Prepare, root, runs, items, graphs, invocation
  <1>13. ASSUME NEW p \in Proc, StoreGraph(p)
        PROVE  RunsType'
    BY <1>13 DEF StoreGraph, Holds, root, runs, items, graphs, invocation
  <1>14. ASSUME NEW p \in Proc, StoreFails(p)
        PROVE  RunsType'
    BY <1>14 DEF StoreFails, root, runs, items, graphs, invocation
  <1>15. ASSUME NEW p \in Proc, CompleteArchiveItem(p)
        PROVE  RunsType'
    BY <1>15 DEF CompleteArchiveItem, Holds, Record, root, runs, items, graphs,
       invocation
  <1>16. CASE LeaseMoves
    BY <1>16 DEF LeaseMoves, root, runs, items, graphs, invocation
  <1> QED
    BY NextIsOne, <1>1, <1>2, <1>3, <1>4, <1>5, <1>6, <1>7, <1>8, <1>9,
       <1>10, <1>11, <1>12, <1>13, <1>14, <1>15, <1>16

(* What a prepared item is completed with is a status and a graph.         *)
LEMMA ResultIsTyped ==
    ASSUME Types, InspectionsAreInHand, FindingsAreStored,
           NEW p \in Proc, CompleteArchiveItem(p)
    PROVE  /\ ResultOf(p)[1] \in Ended /\ ResultOf(p)[2] \in 0..MaxEpoch
           /\ ResultOf(p)[1] = "SUCCEEDED" => ResultOf(p)[2] \in listed[doing[p]]
           /\ ResultOf(p)[1] = "FAILED" => ResultOf(p)[2] \in unlisted[doing[p]]
           /\ ResultOf(p)[1] = "ERROR" => ResultOf(p)[2] = NoEpoch
  <1>1. /\ doing[p] \in Item /\ held[p] \in 0..MaxEpoch
        /\ listed[doing[p]] \subseteq Epochs /\ unlisted[doing[p]] \subseteq Epochs
    BY DEF CompleteArchiveItem, InspectionsAreInHand, Types, ProcType, GraphsType
  <1>2. \/ pc[p] = "prepared" /\ found[p] \in {"REUSED", "ERROR"}
        \/ pc[p] = "stored" /\ found[p] \in {"LISTED", "UNLISTED"}
    BY DEF CompleteArchiveItem, InspectionsAreInHand
  <1>3. CASE found[p] = "ERROR"
    BY <1>3, CollectionAssumption DEF ResultOf, Ended, NoEpoch
  <1>4. CASE found[p] = "REUSED"
    <2>1. listed[doing[p]] # {}
      BY <1>2, <1>4 DEF FindingsAreStored
    <2>2. PICK g \in listed[doing[p]] : ResultOf(p) = <<"SUCCEEDED", g>>
      BY <1>4, <2>1 DEF ResultOf
    <2>3. g \in 0..MaxEpoch
      BY <1>1, CollectionAssumption DEF Epochs
    <2> QED
      BY <2>2, <2>3 DEF Ended
  <1>5. CASE found[p] = "LISTED"
    BY <1>1, <1>2, <1>5 DEF ResultOf, Ended, FindingsAreStored
  <1>6. CASE found[p] = "UNLISTED"
    BY <1>1, <1>2, <1>6 DEF ResultOf, Ended, FindingsAreStored
  <1> QED
    BY <1>2, <1>3, <1>4, <1>5, <1>6

(* The item rows keep their types.                                         *)
LEMMA ItemsStayTyped ==
    ASSUME Types, InspectionsAreInHand, FindingsAreStored, AttemptsAreGranted, Next
    PROVE  ItemsType'
  <1> USE CollectionAssumption DEF Types, ItemsType
  <1>1. ASSUME NEW p \in Proc, NEW r \in Run, StartEbook(p, r)
        PROVE  ItemsType'
    BY <1>1 DEF StartEbook, Grant, root, runs, items, graphs, invocation, Ended
  <1>2. ASSUME NEW p \in Proc, NEW r \in Run, StartArchive(p, r)
        PROVE  ItemsType'
    BY <1>2 DEF StartArchive, Grant, root, runs, items, graphs, invocation
  <1>3. ASSUME NEW p \in Proc, NEW r \in Run, ReadRun(p, r)
        PROVE  ItemsType'
    BY <1>3 DEF ReadRun, root, runs, items, graphs, invocation
  <1>4. ASSUME NEW p \in Proc, Resume(p)
        PROVE  ItemsType'
    BY <1>4 DEF Resume, Grant, Reopen, root, runs, items, graphs, invocation, Ended
  <1>5. ASSUME NEW p \in Proc, Leaves(p)
        PROVE  ItemsType'
    BY <1>5 DEF Leaves, Leave, root, runs, items, graphs, invocation
  <1>6. ASSUME NEW p \in Proc, AppendPlanBatch(p)
        PROVE  ItemsType'
    BY <1>6 DEF AppendPlanBatch, Holds, root, runs, items, graphs, invocation, Ended
  <1>7. ASSUME NEW p \in Proc, PlanDrifts(p)
        PROVE  ItemsType'
    BY <1>7 DEF PlanDrifts, Holds, root, runs, items, graphs, invocation
  <1>8. ASSUME NEW p \in Proc, SealPlan(p)
        PROVE  ItemsType'
    BY <1>8 DEF SealPlan, Holds, root, runs, items, graphs, invocation
  <1>9. ASSUME NEW p \in Proc, Releases(p)
        PROVE  ItemsType'
    BY <1>9 DEF Releases, Release, Leave, Holds, root, runs, items, graphs, invocation
  <1>10. ASSUME NEW p \in Proc, ClaimPending(p)
        PROVE  ItemsType'
    <2>1. item' \in [Item -> {"UNPLANNED", "PENDING", "RUNNING"} \cup Ended]
      BY <1>10 DEF ClaimPending, Holds, InHand, items
    <2>2. attempt' \in [Item -> 0..MaxEpoch]
      <3>1. PICK wave \in SUBSET {i \in ItemsOf(of[p]) : item[i] = "PENDING"} :
              attempt' = [i \in Item |-> attempt[i] + (IF i \in wave THEN 1 ELSE 0)]
        BY <1>10 DEF ClaimPending
      <3>2. \A i \in Item : attempt[i] \in Nat /\ attempt[i] <= epoch
        BY DEF AttemptsAreGranted
      <3>3. \A i \in wave : attempt[i] < epoch
        BY DEF AttemptsAreGranted, ItemsOf
      <3>4. epoch \in 0..MaxEpoch
        BY DEF RootType
      <3>5. \A i \in Item : attempt[i] + (IF i \in wave THEN 1 ELSE 0) \in 0..MaxEpoch
        BY <3>2, <3>3, <3>4
      <3> QED
        BY <3>1, <3>5
    <2>3. resultOf' \in [Item -> 0..MaxEpoch]
      BY <1>10 DEF ClaimPending, Holds, InHand, items
    <2>4. bound' \in [Item -> 0..MaxEpoch]
      BY <1>10 DEF ClaimPending, Holds, InHand, items
    <2> QED
      BY <2>1, <2>2, <2>3, <2>4 DEF ItemsType
  <1>11. ASSUME NEW p \in Proc, CompleteEbookItem(p)
        PROVE  ItemsType'
    <2>1. PICK i \in Item, result \in Ended, graph \in 0..MaxEpoch :
            /\ i \in InHand(p) /\ Record(p, i, result, graph)
      BY <1>11 DEF CompleteEbookItem, NoEpoch, InHand
    <2>2. hand[p][i] \in 0..MaxEpoch
      BY DEF ProcType
    <2> QED
      BY <2>1, <2>2 DEF Record
  <1>12. ASSUME NEW p \in Proc, Prepare(p)
        PROVE  ItemsType'
    BY <1>12 DEF Prepare, root, runs, items, graphs, invocation
  <1>13. ASSUME NEW p \in Proc, StoreGraph(p)
        PROVE  ItemsType'
    BY <1>13 DEF StoreGraph, Holds, root, runs, items, graphs, invocation
  <1>14. ASSUME NEW p \in Proc, StoreFails(p)
        PROVE  ItemsType'
    BY <1>14 DEF StoreFails, root, runs, items, graphs, invocation
  <1>15. ASSUME NEW p \in Proc, CompleteArchiveItem(p)
        PROVE  ItemsType'
    <2>1. PICK i \in Item, result \in Ended, graph \in 0..MaxEpoch :
            /\ i \in InHand(p) /\ Record(p, i, result, graph)
      BY <1>15, ResultIsTyped DEF CompleteArchiveItem, InspectionsAreInHand, InHand
    <2>2. hand[p][i] \in 0..MaxEpoch
      BY DEF ProcType
    <2> QED
      BY <2>1, <2>2 DEF Record
  <1>16. CASE LeaseMoves
    BY <1>16 DEF LeaseMoves, root, runs, items, graphs, invocation
  <1> QED
    BY NextIsOne, <1>1, <1>2, <1>3, <1>4, <1>5, <1>6, <1>7, <1>8, <1>9,
       <1>10, <1>11, <1>12, <1>13, <1>14, <1>15, <1>16

(* The graphs keep their types.                                            *)
LEMMA GraphsStayTyped ==
    ASSUME Types, TokensAreOwn, Next
    PROVE  GraphsType'
  <1> USE CollectionAssumption DEF Types, GraphsType
  <1>1. ASSUME NEW p \in Proc, NEW r \in Run, StartEbook(p, r)
        PROVE  GraphsType'
    BY <1>1 DEF StartEbook, Grant, root, runs, items, graphs, invocation
  <1>2. ASSUME NEW p \in Proc, NEW r \in Run, StartArchive(p, r)
        PROVE  GraphsType'
    BY <1>2 DEF StartArchive, Grant, root, runs, items, graphs, invocation
  <1>3. ASSUME NEW p \in Proc, NEW r \in Run, ReadRun(p, r)
        PROVE  GraphsType'
    BY <1>3 DEF ReadRun, root, runs, items, graphs, invocation
  <1>4. ASSUME NEW p \in Proc, Resume(p)
        PROVE  GraphsType'
    BY <1>4 DEF Resume, Grant, Reopen, root, runs, items, graphs, invocation
  <1>5. ASSUME NEW p \in Proc, Leaves(p)
        PROVE  GraphsType'
    BY <1>5 DEF Leaves, Leave, root, runs, items, graphs, invocation
  <1>6. ASSUME NEW p \in Proc, AppendPlanBatch(p)
        PROVE  GraphsType'
    BY <1>6 DEF AppendPlanBatch, Holds, root, runs, items, graphs, invocation
  <1>7. ASSUME NEW p \in Proc, PlanDrifts(p)
        PROVE  GraphsType'
    BY <1>7 DEF PlanDrifts, Holds, root, runs, items, graphs, invocation
  <1>8. ASSUME NEW p \in Proc, SealPlan(p)
        PROVE  GraphsType'
    BY <1>8 DEF SealPlan, Holds, root, runs, items, graphs, invocation
  <1>9. ASSUME NEW p \in Proc, Releases(p)
        PROVE  GraphsType'
    BY <1>9 DEF Releases, Release, Leave, Holds, root, runs, items, graphs, invocation
  <1>10. ASSUME NEW p \in Proc, ClaimPending(p)
        PROVE  GraphsType'
    BY <1>10 DEF ClaimPending, Holds, InHand, root, runs, items, graphs, invocation
  <1>11. ASSUME NEW p \in Proc, CompleteEbookItem(p)
        PROVE  GraphsType'
    BY <1>11 DEF CompleteEbookItem, Holds, InHand, Record, root, runs, items, graphs,
       invocation
  <1>12. ASSUME NEW p \in Proc, Prepare(p)
        PROVE  GraphsType'
    BY <1>12 DEF Prepare, root, runs, items, graphs, invocation
  <1>13. ASSUME NEW p \in Proc, StoreGraph(p)
        PROVE  GraphsType'
    <2>1. held[p] \in Epochs
      BY <1>13 DEF StoreGraph, Holds, TokensAreOwn, Working, ProcType, RootType, Epochs
    <2> QED
      BY <1>13, <2>1 DEF StoreGraph
  <1>14. ASSUME NEW p \in Proc, StoreFails(p)
        PROVE  GraphsType'
    BY <1>14 DEF StoreFails, root, runs, items, graphs, invocation
  <1>15. ASSUME NEW p \in Proc, CompleteArchiveItem(p)
        PROVE  GraphsType'
    BY <1>15 DEF CompleteArchiveItem, Holds, Record, root, runs, items, graphs,
       invocation
  <1>16. CASE LeaseMoves
    BY <1>16 DEF LeaseMoves, root, runs, items, graphs, invocation
  <1> QED
    BY NextIsOne, <1>1, <1>2, <1>3, <1>4, <1>5, <1>6, <1>7, <1>8, <1>9,
       <1>10, <1>11, <1>12, <1>13, <1>14, <1>15, <1>16

(* The processes keep their types.                                         *)
LEMMA ProcsStayTyped ==
    ASSUME Types, AttemptsAreGranted, Next
    PROVE  ProcType'
  <1> USE CollectionAssumption DEF Types, ProcType
  <1>1. ASSUME NEW p \in Proc, NEW r \in Run, StartEbook(p, r)
        PROVE  ProcType'
    BY <1>1 DEF StartEbook, Grant, root, runs, items, graphs, invocation, RootType
  <1>2. ASSUME NEW p \in Proc, NEW r \in Run, StartArchive(p, r)
        PROVE  ProcType'
    BY <1>2 DEF StartArchive, Grant, root, runs, items, graphs, invocation, RootType
  <1>3. ASSUME NEW p \in Proc, NEW r \in Run, ReadRun(p, r)
        PROVE  ProcType'
    <2>1. pc' \in [Proc -> {"idle", "resuming", "plan", "drifted", "work", "prepared",
                         "stored"}]
      BY <1>3 DEF ReadRun, invocation, NoEpoch, RunsType
    <2>2. of' \in [Proc -> Run \cup {None}]
      BY <1>3 DEF ReadRun, invocation, NoEpoch, RunsType
    <2>3. held' \in [Proc -> 0..MaxEpoch]
      BY <1>3 DEF ReadRun, invocation, NoEpoch, RunsType
    <2>4. seen' \in [Proc -> BOOLEAN]
      BY <1>3 DEF ReadRun, invocation, NoEpoch, RunsType
    <2>5. hand' \in [Proc -> [Item -> 0..MaxEpoch]]
      BY <1>3 DEF ReadRun, invocation, NoEpoch, RunsType
    <2>6. doing' \in [Proc -> Item \cup {None}]
      BY <1>3 DEF ReadRun, invocation, NoEpoch, RunsType
    <2>7. found' \in [Proc -> {"NOTHING", "REUSED", "LISTED", "UNLISTED", "ERROR"}]
      BY <1>3 DEF ReadRun, invocation, NoEpoch, RunsType
    <2> QED
      BY <2>1, <2>2, <2>3, <2>4, <2>5, <2>6, <2>7 DEF ProcType
  <1>4. ASSUME NEW p \in Proc, Resume(p)
        PROVE  ProcType'
    BY <1>4 DEF Resume, Grant, Reopen, root, runs, items, graphs, invocation, RootType
  <1>5. ASSUME NEW p \in Proc, Leaves(p)
        PROVE  ProcType'
    <2>1. pc' \in [Proc -> {"idle", "resuming", "plan", "drifted", "work", "prepared",
                         "stored"}]
      BY <1>5 DEF Leaves, Leave, invocation, NoEpoch
    <2>2. of' \in [Proc -> Run \cup {None}]
      BY <1>5 DEF Leaves, Leave, invocation, NoEpoch
    <2>3. held' \in [Proc -> 0..MaxEpoch]
      BY <1>5 DEF Leaves, Leave, invocation, NoEpoch
    <2>4. seen' \in [Proc -> BOOLEAN]
      BY <1>5 DEF Leaves, Leave, invocation, NoEpoch
    <2>5. hand' \in [Proc -> [Item -> 0..MaxEpoch]]
      BY <1>5 DEF Leaves, Leave, invocation, NoEpoch
    <2>6. doing' \in [Proc -> Item \cup {None}]
      BY <1>5 DEF Leaves, Leave, invocation, NoEpoch
    <2>7. found' \in [Proc -> {"NOTHING", "REUSED", "LISTED", "UNLISTED", "ERROR"}]
      BY <1>5 DEF Leaves, Leave, invocation, NoEpoch
    <2> QED
      BY <2>1, <2>2, <2>3, <2>4, <2>5, <2>6, <2>7 DEF ProcType
  <1>6. ASSUME NEW p \in Proc, AppendPlanBatch(p)
        PROVE  ProcType'
    BY <1>6 DEF AppendPlanBatch, Holds, root, runs, items, graphs, invocation
  <1>7. ASSUME NEW p \in Proc, PlanDrifts(p)
        PROVE  ProcType'
    BY <1>7 DEF PlanDrifts, Holds, root, runs, items, graphs, invocation
  <1>8. ASSUME NEW p \in Proc, SealPlan(p)
        PROVE  ProcType'
    BY <1>8 DEF SealPlan, Holds, root, runs, items, graphs, invocation
  <1>9. ASSUME NEW p \in Proc, Releases(p)
        PROVE  ProcType'
    <2>1. pc' \in [Proc -> {"idle", "resuming", "plan", "drifted", "work", "prepared",
                         "stored"}]
      BY <1>9 DEF Releases, Leave, invocation, NoEpoch
    <2>2. of' \in [Proc -> Run \cup {None}]
      BY <1>9 DEF Releases, Leave, invocation, NoEpoch
    <2>3. held' \in [Proc -> 0..MaxEpoch]
      BY <1>9 DEF Releases, Leave, invocation, NoEpoch
    <2>4. seen' \in [Proc -> BOOLEAN]
      BY <1>9 DEF Releases, Leave, invocation, NoEpoch
    <2>5. hand' \in [Proc -> [Item -> 0..MaxEpoch]]
      BY <1>9 DEF Releases, Leave, invocation, NoEpoch
    <2>6. doing' \in [Proc -> Item \cup {None}]
      BY <1>9 DEF Releases, Leave, invocation, NoEpoch
    <2>7. found' \in [Proc -> {"NOTHING", "REUSED", "LISTED", "UNLISTED", "ERROR"}]
      BY <1>9 DEF Releases, Leave, invocation, NoEpoch
    <2> QED
      BY <2>1, <2>2, <2>3, <2>4, <2>5, <2>6, <2>7 DEF ProcType
  <1>10. ASSUME NEW p \in Proc, ClaimPending(p)
        PROVE  ProcType'
    <2>1. pc' \in [Proc -> {"idle", "resuming", "plan", "drifted", "work", "prepared",
                         "stored"}]
      BY <1>10 DEF ClaimPending, Holds, InHand, invocation
    <2>2. of' \in [Proc -> Run \cup {None}]
      BY <1>10 DEF ClaimPending, Holds, InHand, invocation
    <2>3. held' \in [Proc -> 0..MaxEpoch]
      BY <1>10 DEF ClaimPending, Holds, InHand, invocation
    <2>4. seen' \in [Proc -> BOOLEAN]
      BY <1>10 DEF ClaimPending, Holds, InHand, invocation
    <2>5. hand' \in [Proc -> [Item -> 0..MaxEpoch]]
      <3>1. PICK wave \in SUBSET {i \in ItemsOf(of[p]) : item[i] = "PENDING"} :
              hand' = [hand EXCEPT ![p] =
                         [i \in Item |-> IF i \in wave THEN attempt[i] + 1 ELSE 0]]
        BY <1>10 DEF ClaimPending
      <3>2. \A i \in wave : attempt[i] < epoch /\ attempt[i] \in Nat
        BY DEF AttemptsAreGranted, ItemsOf, ItemsType
      <3>3. epoch \in 0..MaxEpoch
        BY DEF RootType
      <3>4. [i \in Item |-> IF i \in wave THEN attempt[i] + 1 ELSE 0] \in [Item -> 0..MaxEpoch]
        BY <3>2, <3>3
      <3> QED
        BY <3>1, <3>4
    <2>6. doing' \in [Proc -> Item \cup {None}]
      BY <1>10 DEF ClaimPending, Holds, InHand, invocation
    <2>7. found' \in [Proc -> {"NOTHING", "REUSED", "LISTED", "UNLISTED", "ERROR"}]
      BY <1>10 DEF ClaimPending, Holds, InHand, invocation
    <2> QED
      BY <2>1, <2>2, <2>3, <2>4, <2>5, <2>6, <2>7 DEF ProcType
  <1>11. ASSUME NEW p \in Proc, CompleteEbookItem(p)
        PROVE  ProcType'
    BY <1>11 DEF CompleteEbookItem, Holds, InHand, Record, root, runs, items, graphs,
       invocation
  <1>12. ASSUME NEW p \in Proc, Prepare(p)
        PROVE  ProcType'
    <2>1. pc' \in [Proc -> {"idle", "resuming", "plan", "drifted", "work", "prepared",
                         "stored"}]
      BY <1>12 DEF Prepare, invocation, InHand
    <2>2. of' \in [Proc -> Run \cup {None}]
      BY <1>12 DEF Prepare, invocation, InHand
    <2>3. held' \in [Proc -> 0..MaxEpoch]
      BY <1>12 DEF Prepare, invocation, InHand
    <2>4. seen' \in [Proc -> BOOLEAN]
      BY <1>12 DEF Prepare, invocation, InHand
    <2>5. hand' \in [Proc -> [Item -> 0..MaxEpoch]]
      BY <1>12 DEF Prepare, invocation, InHand
    <2>6. doing' \in [Proc -> Item \cup {None}]
      BY <1>12 DEF Prepare, invocation, InHand
    <2>7. found' \in [Proc -> {"NOTHING", "REUSED", "LISTED", "UNLISTED", "ERROR"}]
      BY <1>12 DEF Prepare, invocation, InHand
    <2> QED
      BY <2>1, <2>2, <2>3, <2>4, <2>5, <2>6, <2>7 DEF ProcType
  <1>13. ASSUME NEW p \in Proc, StoreGraph(p)
        PROVE  ProcType'
    BY <1>13 DEF StoreGraph, Holds, root, runs, items, graphs, invocation
  <1>14. ASSUME NEW p \in Proc, StoreFails(p)
        PROVE  ProcType'
    BY <1>14 DEF StoreFails, root, runs, items, graphs, invocation
  <1>15. ASSUME NEW p \in Proc, CompleteArchiveItem(p)
        PROVE  ProcType'
    <2>1. pc' \in [Proc -> {"idle", "resuming", "plan", "drifted", "work", "prepared",
                         "stored"}]
      BY <1>15 DEF CompleteArchiveItem, Holds, Record, invocation
    <2>2. of' \in [Proc -> Run \cup {None}]
      BY <1>15 DEF CompleteArchiveItem, Holds, Record, invocation
    <2>3. held' \in [Proc -> 0..MaxEpoch]
      BY <1>15 DEF CompleteArchiveItem, Holds, Record, invocation
    <2>4. seen' \in [Proc -> BOOLEAN]
      BY <1>15 DEF CompleteArchiveItem, Holds, Record, invocation
    <2>5. hand' \in [Proc -> [Item -> 0..MaxEpoch]]
      <3>1. hand' = [hand EXCEPT ![p] = [hand[p] EXCEPT ![doing[p]] = 0]]
        BY <1>15 DEF CompleteArchiveItem, Record
      <3>2. 0 \in 0..MaxEpoch
        OBVIOUS
      <3>3. [hand[p] EXCEPT ![doing[p]] = 0] \in [Item -> 0..MaxEpoch]
        BY <3>2
      <3> QED
        BY <3>1, <3>3
    <2>6. doing' \in [Proc -> Item \cup {None}]
      BY <1>15 DEF CompleteArchiveItem, Holds, Record, invocation
    <2>7. found' \in [Proc -> {"NOTHING", "REUSED", "LISTED", "UNLISTED", "ERROR"}]
      BY <1>15 DEF CompleteArchiveItem, Holds, Record, invocation
    <2> QED
      BY <2>1, <2>2, <2>3, <2>4, <2>5, <2>6, <2>7 DEF ProcType
  <1>16. CASE LeaseMoves
    BY <1>16 DEF LeaseMoves, root, runs, items, graphs, invocation
  <1> QED
    BY NextIsOne, <1>1, <1>2, <1>3, <1>4, <1>5, <1>6, <1>7, <1>8, <1>9,
       <1>10, <1>11, <1>12, <1>13, <1>14, <1>15, <1>16

(* The effect of completing an archive item.                               *)
LEMMA ArchiveRecords ==
    ASSUME Types, InspectionsAreInHand, FindingsAreStored, NEW p \in Proc,
           CompleteArchiveItem(p)
    PROVE  /\ KindOf[of[p]] = "ARCHIVE" /\ attempt[doing[p]] = hand[p][doing[p]]
           /\ doing[p] \in Item
           /\ ResultOf(p)[1] \in Ended /\ ResultOf(p)[2] \in 0..MaxEpoch
           /\ Recorded(p, doing[p], ResultOf(p)[1], ResultOf(p)[2])
  <1>1. KindOf[of[p]] = "ARCHIVE" /\ doing[p] \in Item /\ hand[p][doing[p]] > 0
    BY DEF CompleteArchiveItem, InspectionsAreInHand
  <1>2. /\ pc[p] \in {"work", "prepared", "stored"} /\ held[p] = epoch /\ owner = of[p]
        /\ status[of[p]] = "RUNNING" /\ attempt[doing[p]] = hand[p][doing[p]]
        /\ Record(p, doing[p], ResultOf(p)[1], ResultOf(p)[2])
        /\ pc' = [pc EXCEPT ![p] = "work"]
        /\ UNCHANGED <<owner, epoch, status, sealed, token, listed, unlisted, of, held, seen>>
    BY Zenon DEF CompleteArchiveItem, Holds, root, runs, graphs
  <1>3. \A q \in Proc \ {p} : UNCHANGED <<doing[q], found[q]>>
    BY DEF CompleteArchiveItem, Types, ProcType
  <1>4. /\ item[doing[p]] = "RUNNING" /\ attempt' = attempt
        /\ item' = [item EXCEPT ![doing[p]] = ResultOf(p)[1]]
        /\ resultOf' = [resultOf EXCEPT ![doing[p]] = hand[p][doing[p]]]
        /\ bound' = [bound EXCEPT ![doing[p]] = ResultOf(p)[2]]
        /\ hand' = [hand EXCEPT ![p] = [hand[p] EXCEPT ![doing[p]] = 0]]
    BY <1>2 DEF Record
  <1> QED
    BY <1>1, <1>2, <1>3, <1>4, ResultIsTyped DEF Recorded

(* The tokens of the processes at work stay their own.                     *)
LEMMA TokensStayOwn ==
    ASSUME Types, TokensAreOwn, RunAndLeaseAgree, Next
    PROVE  TokensAreOwn'
  <1> USE CollectionAssumption DEF TokensAreOwn, Working
  <1>1. ASSUME NEW p \in Proc, NEW r \in Run, StartEbook(p, r)
        PROVE  TokensAreOwn'
    BY <1>1 DEF StartEbook, Grant, root, runs, items, graphs, invocation, Types,
       RootType, RunsType, ProcType
  <1>2. ASSUME NEW p \in Proc, NEW r \in Run, StartArchive(p, r)
        PROVE  TokensAreOwn'
    BY <1>2 DEF StartArchive, Grant, root, runs, items, graphs, invocation, Types,
       RootType, RunsType, ProcType
  <1>3. ASSUME NEW p \in Proc, NEW r \in Run, ReadRun(p, r)
        PROVE  TokensAreOwn'
    BY <1>3 DEF ReadRun, root, runs, items, graphs, invocation, Types, RootType,
       RunsType, ProcType
  <1>4. ASSUME NEW p \in Proc, Resume(p)
        PROVE  TokensAreOwn'
    BY <1>4 DEF Resume, Grant, Reopen, root, runs, items, graphs, invocation, Types,
       RootType, RunsType, ProcType
  <1>5. ASSUME NEW p \in Proc, Leaves(p)
        PROVE  TokensAreOwn'
    BY <1>5 DEF Leaves, Leave, root, runs, items, graphs, invocation, Types, RootType,
       RunsType, ProcType
  <1>6. ASSUME NEW p \in Proc, AppendPlanBatch(p)
        PROVE  TokensAreOwn'
    BY <1>6 DEF AppendPlanBatch, Holds, root, runs, items, graphs, invocation
  <1>7. ASSUME NEW p \in Proc, PlanDrifts(p)
        PROVE  TokensAreOwn'
    BY <1>7 DEF PlanDrifts, Holds, root, runs, items, graphs, invocation
  <1>8. ASSUME NEW p \in Proc, SealPlan(p)
        PROVE  TokensAreOwn'
    BY <1>8 DEF SealPlan, Holds, root, runs, items, graphs, invocation
  <1>9. ASSUME NEW p \in Proc, Releases(p)
        PROVE  TokensAreOwn'
    <2>1. Released(p)
      BY <1>9, ReleasesDo
    <2> QED
      BY <2>1 DEF Released, Types, RunsType, ProcType
  <1>10. ASSUME NEW p \in Proc, ClaimPending(p)
        PROVE  TokensAreOwn'
    BY <1>10 DEF ClaimPending, Holds, InHand, root, runs, items, graphs, invocation
  <1>11. ASSUME NEW p \in Proc, CompleteEbookItem(p)
        PROVE  TokensAreOwn'
    BY <1>11 DEF CompleteEbookItem, Holds, InHand, Record, root, runs, items, graphs,
       invocation
  <1>12. ASSUME NEW p \in Proc, Prepare(p)
        PROVE  TokensAreOwn'
    BY <1>12 DEF Prepare, root, runs, items, graphs, invocation
  <1>13. ASSUME NEW p \in Proc, StoreGraph(p)
        PROVE  TokensAreOwn'
    BY <1>13 DEF StoreGraph, Holds, root, runs, items, graphs, invocation
  <1>14. ASSUME NEW p \in Proc, StoreFails(p)
        PROVE  TokensAreOwn'
    BY <1>14 DEF StoreFails, root, runs, items, graphs, invocation
  <1>15. ASSUME NEW p \in Proc, CompleteArchiveItem(p)
        PROVE  TokensAreOwn'
    BY <1>15 DEF CompleteArchiveItem, Holds, Record, root, runs, items, graphs,
       invocation
  <1>16. CASE LeaseMoves
    BY <1>16 DEF LeaseMoves, root, runs, items, graphs, invocation
  <1> QED
    BY NextIsOne, <1>1, <1>2, <1>3, <1>4, <1>5, <1>6, <1>7, <1>8, <1>9,
       <1>10, <1>11, <1>12, <1>13, <1>14, <1>15, <1>16

(* The lease row and the run rows go on agreeing.                          *)
LEMMA LeaseStaysTrue ==
    ASSUME Types, TokensAreOwn, RunAndLeaseAgree, Next
    PROVE  RunAndLeaseAgree'
  <1> USE CollectionAssumption DEF RunAndLeaseAgree
  <1>1. ASSUME NEW p \in Proc, NEW r \in Run, StartEbook(p, r)
        PROVE  RunAndLeaseAgree'
    BY <1>1 DEF StartEbook, Grant, root, runs, items, graphs, invocation, Types,
       RootType, RunsType, ProcType, NoEpoch, TokensAreOwn, Working
  <1>2. ASSUME NEW p \in Proc, NEW r \in Run, StartArchive(p, r)
        PROVE  RunAndLeaseAgree'
    BY <1>2 DEF StartArchive, Grant, root, runs, items, graphs, invocation, Types,
       RootType, RunsType, ProcType, NoEpoch, TokensAreOwn, Working
  <1>3. ASSUME NEW p \in Proc, NEW r \in Run, ReadRun(p, r)
        PROVE  RunAndLeaseAgree'
    BY <1>3 DEF ReadRun, root, runs, items, graphs, invocation
  <1>4. ASSUME NEW p \in Proc, Resume(p)
        PROVE  RunAndLeaseAgree'
    BY <1>4 DEF Resume, Grant, Reopen, root, runs, items, graphs, invocation, Types,
       RootType, RunsType, ProcType, NoEpoch, TokensAreOwn, Working
  <1>5. ASSUME NEW p \in Proc, Leaves(p)
        PROVE  RunAndLeaseAgree'
    BY <1>5 DEF Leaves, Leave, root, runs, items, graphs, invocation
  <1>6. ASSUME NEW p \in Proc, AppendPlanBatch(p)
        PROVE  RunAndLeaseAgree'
    BY <1>6 DEF AppendPlanBatch, Holds, root, runs, items, graphs, invocation
  <1>7. ASSUME NEW p \in Proc, PlanDrifts(p)
        PROVE  RunAndLeaseAgree'
    BY <1>7 DEF PlanDrifts, Holds, root, runs, items, graphs, invocation
  <1>8. ASSUME NEW p \in Proc, SealPlan(p)
        PROVE  RunAndLeaseAgree'
    BY <1>8 DEF SealPlan, Holds, root, runs, items, graphs, invocation, Types,
       RootType, RunsType, ProcType, NoEpoch, TokensAreOwn, Working
  <1>9. ASSUME NEW p \in Proc, Releases(p)
        PROVE  RunAndLeaseAgree'
    <2>1. Released(p)
      BY <1>9, ReleasesDo
    <2> QED
      BY <2>1 DEF Released, Types, RunsType, NoEpoch
  <1>10. ASSUME NEW p \in Proc, ClaimPending(p)
        PROVE  RunAndLeaseAgree'
    BY <1>10 DEF ClaimPending, Holds, InHand, root, runs, items, graphs, invocation
  <1>11. ASSUME NEW p \in Proc, CompleteEbookItem(p)
        PROVE  RunAndLeaseAgree'
    BY <1>11 DEF CompleteEbookItem, Holds, InHand, Record, root, runs, items, graphs,
       invocation
  <1>12. ASSUME NEW p \in Proc, Prepare(p)
        PROVE  RunAndLeaseAgree'
    BY <1>12 DEF Prepare, root, runs, items, graphs, invocation
  <1>13. ASSUME NEW p \in Proc, StoreGraph(p)
        PROVE  RunAndLeaseAgree'
    BY <1>13 DEF StoreGraph, Holds, root, runs, items, graphs, invocation
  <1>14. ASSUME NEW p \in Proc, StoreFails(p)
        PROVE  RunAndLeaseAgree'
    BY <1>14 DEF StoreFails, root, runs, items, graphs, invocation
  <1>15. ASSUME NEW p \in Proc, CompleteArchiveItem(p)
        PROVE  RunAndLeaseAgree'
    BY <1>15 DEF CompleteArchiveItem, Holds, Record, root, runs, items, graphs,
       invocation
  <1>16. CASE LeaseMoves
    BY <1>16 DEF LeaseMoves, root, runs, items, graphs, invocation
  <1> QED
    BY NextIsOne, <1>1, <1>2, <1>3, <1>4, <1>5, <1>6, <1>7, <1>8, <1>9,
       <1>10, <1>11, <1>12, <1>13, <1>14, <1>15, <1>16

(* A claim is counted at most once per grant.                              *)
LEMMA AttemptsStayGranted ==
    ASSUME Types, TokensAreOwn, InspectionsAreInHand, FindingsAreStored,
           AttemptsAreGranted, PlansAreWhole, Next
    PROVE  AttemptsAreGranted'
  <1> USE CollectionAssumption DEF AttemptsAreGranted
  <1>1. ASSUME NEW p \in Proc, NEW r \in Run, StartEbook(p, r)
        PROVE  AttemptsAreGranted'
    BY <1>1 DEF StartEbook, Grant, root, runs, items, graphs, invocation, Types,
       RootType, ItemsType, PlansAreWhole, AbsentRunsAreBare, ItemsOf
  <1>2. ASSUME NEW p \in Proc, NEW r \in Run, StartArchive(p, r)
        PROVE  AttemptsAreGranted'
    BY <1>2 DEF StartArchive, Grant, root, runs, items, graphs, invocation, Types,
       RootType, ItemsType
  <1>3. ASSUME NEW p \in Proc, NEW r \in Run, ReadRun(p, r)
        PROVE  AttemptsAreGranted'
    BY <1>3 DEF ReadRun, root, runs, items, graphs, invocation
  <1>4. ASSUME NEW p \in Proc, Resume(p)
        PROVE  AttemptsAreGranted'
    BY <1>4 DEF Resume, Grant, Reopen, root, runs, items, graphs, invocation, Types,
       RootType, ItemsType
  <1>5. ASSUME NEW p \in Proc, Leaves(p)
        PROVE  AttemptsAreGranted'
    BY <1>5 DEF Leaves, Leave, root, runs, items, graphs, invocation
  <1>6. ASSUME NEW p \in Proc, AppendPlanBatch(p)
        PROVE  AttemptsAreGranted'
    <2>1. PICK i \in Item : item[i] = "UNPLANNED" /\ item' = [item EXCEPT ![i] = "PENDING"]
      BY <1>6 DEF AppendPlanBatch, ItemsOf
    <2>2. UNCHANGED <<epoch, attempt>>
      BY <1>6 DEF AppendPlanBatch, root
    <2>3. epoch > 0
      <3>1. held[p] = epoch /\ pc[p] = "plan"
        BY <1>6 DEF AppendPlanBatch, Holds
      <3> QED
        BY <3>1 DEF TokensAreOwn, Working, Types, RootType
    <2> QED
      BY <2>1, <2>2, <2>3 DEF Types, ItemsType
  <1>7. ASSUME NEW p \in Proc, PlanDrifts(p)
        PROVE  AttemptsAreGranted'
    BY <1>7 DEF PlanDrifts, Holds, root, runs, items, graphs, invocation
  <1>8. ASSUME NEW p \in Proc, SealPlan(p)
        PROVE  AttemptsAreGranted'
    BY <1>8 DEF SealPlan, Holds, root, runs, items, graphs, invocation
  <1>9. ASSUME NEW p \in Proc, Releases(p)
        PROVE  AttemptsAreGranted'
    BY <1>9 DEF Releases, Release, Leave, Holds, root, runs, items, graphs, invocation
  <1>10. ASSUME NEW p \in Proc, ClaimPending(p)
        PROVE  AttemptsAreGranted'
    BY <1>10 DEF ClaimPending, Holds, InHand, root, runs, items, graphs, invocation,
       Types, RootType, ItemsType, ItemsOf
  <1>11. ASSUME NEW p \in Proc, CompleteEbookItem(p)
        PROVE  AttemptsAreGranted'
    <2>1. PICK i \in Item, result \in Ended : Recorded(p, i, result, 0)
      BY <1>11, EbookRecords
    <2> QED
      BY <2>1 DEF Recorded, Types, ItemsType, Ended
  <1>12. ASSUME NEW p \in Proc, Prepare(p)
        PROVE  AttemptsAreGranted'
    BY <1>12 DEF Prepare, root, runs, items, graphs, invocation
  <1>13. ASSUME NEW p \in Proc, StoreGraph(p)
        PROVE  AttemptsAreGranted'
    BY <1>13 DEF StoreGraph, Holds, root, runs, items, graphs, invocation
  <1>14. ASSUME NEW p \in Proc, StoreFails(p)
        PROVE  AttemptsAreGranted'
    BY <1>14 DEF StoreFails, root, runs, items, graphs, invocation
  <1>15. ASSUME NEW p \in Proc, CompleteArchiveItem(p)
        PROVE  AttemptsAreGranted'
    <2>1. PICK i \in Item, result \in Ended, graph \in 0..MaxEpoch : Recorded(p, i, result, graph)
      BY <1>15, ArchiveRecords
    <2> QED
      BY <2>1 DEF Recorded, Types, ItemsType, Ended
  <1>16. CASE LeaseMoves
    BY <1>16 DEF LeaseMoves, root, runs, items, graphs, invocation
  <1> QED
    BY NextIsOne, <1>1, <1>2, <1>3, <1>4, <1>5, <1>6, <1>7, <1>8, <1>9,
       <1>10, <1>11, <1>12, <1>13, <1>14, <1>15, <1>16

(* A row that is planned stays planned.                                    *)
LEMMA RowsStay ==
    ASSUME Types, InspectionsAreInHand, FindingsAreStored, Next
    PROVE  \A r \in Run : Planned(r) => Planned(r)'
  <1> USE CollectionAssumption DEF Planned, ItemsOf
  <1>1. ASSUME NEW p \in Proc, NEW r \in Run, StartEbook(p, r)
        PROVE  \A s \in Run : Planned(s) => Planned(s)'
    BY <1>1 DEF StartEbook, Grant, root, runs, items, graphs, invocation
  <1>2. ASSUME NEW p \in Proc, NEW r \in Run, StartArchive(p, r)
        PROVE  \A s \in Run : Planned(s) => Planned(s)'
    BY <1>2 DEF StartArchive, Grant, root, runs, items, graphs, invocation
  <1>3. ASSUME NEW p \in Proc, NEW r \in Run, ReadRun(p, r)
        PROVE  \A s \in Run : Planned(s) => Planned(s)'
    BY <1>3 DEF ReadRun, root, runs, items, graphs, invocation
  <1>4. ASSUME NEW p \in Proc, Resume(p)
        PROVE  \A r \in Run : Planned(r) => Planned(r)'
    BY <1>4 DEF Resume, Grant, Reopen, root, runs, items, graphs, invocation
  <1>5. ASSUME NEW p \in Proc, Leaves(p)
        PROVE  \A r \in Run : Planned(r) => Planned(r)'
    BY <1>5 DEF Leaves, Leave, root, runs, items, graphs, invocation
  <1>6. ASSUME NEW p \in Proc, AppendPlanBatch(p)
        PROVE  \A r \in Run : Planned(r) => Planned(r)'
    BY <1>6 DEF AppendPlanBatch, Holds, root, runs, items, graphs, invocation, Types,
       ItemsType
  <1>7. ASSUME NEW p \in Proc, PlanDrifts(p)
        PROVE  \A r \in Run : Planned(r) => Planned(r)'
    BY <1>7 DEF PlanDrifts, Holds, root, runs, items, graphs, invocation
  <1>8. ASSUME NEW p \in Proc, SealPlan(p)
        PROVE  \A r \in Run : Planned(r) => Planned(r)'
    BY <1>8 DEF SealPlan, Holds, root, runs, items, graphs, invocation
  <1>9. ASSUME NEW p \in Proc, Releases(p)
        PROVE  \A r \in Run : Planned(r) => Planned(r)'
    BY <1>9 DEF Releases, Release, Leave, Holds, root, runs, items, graphs, invocation
  <1>10. ASSUME NEW p \in Proc, ClaimPending(p)
        PROVE  \A r \in Run : Planned(r) => Planned(r)'
    BY <1>10 DEF ClaimPending, Holds, InHand, root, runs, items, graphs, invocation
  <1>11. ASSUME NEW p \in Proc, CompleteEbookItem(p)
        PROVE  \A r \in Run : Planned(r) => Planned(r)'
    <2>1. PICK i \in Item, result \in Ended : Recorded(p, i, result, 0)
      BY <1>11, EbookRecords
    <2> QED
      BY <2>1 DEF Recorded, Types, ItemsType, Ended
  <1>12. ASSUME NEW p \in Proc, Prepare(p)
        PROVE  \A r \in Run : Planned(r) => Planned(r)'
    BY <1>12 DEF Prepare, root, runs, items, graphs, invocation
  <1>13. ASSUME NEW p \in Proc, StoreGraph(p)
        PROVE  \A r \in Run : Planned(r) => Planned(r)'
    BY <1>13 DEF StoreGraph, Holds, root, runs, items, graphs, invocation
  <1>14. ASSUME NEW p \in Proc, StoreFails(p)
        PROVE  \A r \in Run : Planned(r) => Planned(r)'
    BY <1>14 DEF StoreFails, root, runs, items, graphs, invocation
  <1>15. ASSUME NEW p \in Proc, CompleteArchiveItem(p)
        PROVE  \A r \in Run : Planned(r) => Planned(r)'
    <2>1. PICK i \in Item, result \in Ended, graph \in 0..MaxEpoch : Recorded(p, i, result, graph)
      BY <1>15, ArchiveRecords
    <2> QED
      BY <2>1 DEF Recorded, Types, ItemsType, Ended
  <1>16. CASE LeaseMoves
    BY <1>16 DEF LeaseMoves, root, runs, items, graphs, invocation
  <1> QED
    BY NextIsOne, <1>1, <1>2, <1>3, <1>4, <1>5, <1>6, <1>7, <1>8, <1>9,
       <1>10, <1>11, <1>12, <1>13, <1>14, <1>15, <1>16

(* A run that was started stays started.                                   *)
LEMMA RunsStay ==
    ASSUME Types, TokensAreOwn, InspectionsAreInHand, FindingsAreStored, Next
    PROVE  \A r \in Run : status[r] # "ABSENT" => status'[r] # "ABSENT"
  <1>1. ASSUME NEW p \in Proc, NEW r \in Run, StartEbook(p, r)
        PROVE  \A s \in Run : status[s] # "ABSENT" => status'[s] # "ABSENT"
    BY <1>1 DEF StartEbook, Grant, root, runs, items, graphs, invocation, Types,
       RunsType
  <1>2. ASSUME NEW p \in Proc, NEW r \in Run, StartArchive(p, r)
        PROVE  \A s \in Run : status[s] # "ABSENT" => status'[s] # "ABSENT"
    BY <1>2 DEF StartArchive, Grant, root, runs, items, graphs, invocation, Types,
       RunsType
  <1>3. ASSUME NEW p \in Proc, NEW r \in Run, ReadRun(p, r)
        PROVE  \A s \in Run : status[s] # "ABSENT" => status'[s] # "ABSENT"
    BY <1>3 DEF ReadRun, root, runs, items, graphs, invocation
  <1>4. ASSUME NEW p \in Proc, Resume(p)
        PROVE  \A r \in Run : status[r] # "ABSENT" => status'[r] # "ABSENT"
    BY <1>4 DEF Resume, Grant, Reopen, root, runs, items, graphs, invocation, Types,
       RunsType
  <1>5. ASSUME NEW p \in Proc, Leaves(p)
        PROVE  \A r \in Run : status[r] # "ABSENT" => status'[r] # "ABSENT"
    BY <1>5 DEF Leaves, Leave, root, runs, items, graphs, invocation
  <1>6. ASSUME NEW p \in Proc, AppendPlanBatch(p)
        PROVE  \A r \in Run : status[r] # "ABSENT" => status'[r] # "ABSENT"
    BY <1>6 DEF AppendPlanBatch, Holds, root, runs, items, graphs, invocation
  <1>7. ASSUME NEW p \in Proc, PlanDrifts(p)
        PROVE  \A r \in Run : status[r] # "ABSENT" => status'[r] # "ABSENT"
    BY <1>7 DEF PlanDrifts, Holds, root, runs, items, graphs, invocation
  <1>8. ASSUME NEW p \in Proc, SealPlan(p)
        PROVE  \A r \in Run : status[r] # "ABSENT" => status'[r] # "ABSENT"
    BY <1>8 DEF SealPlan, Holds, root, runs, items, graphs, invocation, Types, RunsType
  <1>9. ASSUME NEW p \in Proc, Releases(p)
        PROVE  \A r \in Run : status[r] # "ABSENT" => status'[r] # "ABSENT"
    <2>1. Released(p)
      BY <1>9, ReleasesDo
    <2> QED
      BY <2>1 DEF Released, Types, RunsType
  <1>10. ASSUME NEW p \in Proc, ClaimPending(p)
        PROVE  \A r \in Run : status[r] # "ABSENT" => status'[r] # "ABSENT"
    BY <1>10 DEF ClaimPending, Holds, InHand, root, runs, items, graphs, invocation
  <1>11. ASSUME NEW p \in Proc, CompleteEbookItem(p)
        PROVE  \A r \in Run : status[r] # "ABSENT" => status'[r] # "ABSENT"
    <2>1. PICK i \in Item, result \in Ended : Recorded(p, i, result, 0)
      BY <1>11, EbookRecords
    <2> QED
      BY <2>1 DEF Recorded
  <1>12. ASSUME NEW p \in Proc, Prepare(p)
        PROVE  \A r \in Run : status[r] # "ABSENT" => status'[r] # "ABSENT"
    BY <1>12 DEF Prepare, root, runs, items, graphs, invocation
  <1>13. ASSUME NEW p \in Proc, StoreGraph(p)
        PROVE  \A r \in Run : status[r] # "ABSENT" => status'[r] # "ABSENT"
    BY <1>13 DEF StoreGraph, Holds, root, runs, items, graphs, invocation
  <1>14. ASSUME NEW p \in Proc, StoreFails(p)
        PROVE  \A r \in Run : status[r] # "ABSENT" => status'[r] # "ABSENT"
    BY <1>14 DEF StoreFails, root, runs, items, graphs, invocation
  <1>15. ASSUME NEW p \in Proc, CompleteArchiveItem(p)
        PROVE  \A r \in Run : status[r] # "ABSENT" => status'[r] # "ABSENT"
    <2>1. PICK i \in Item, result \in Ended, graph \in 0..MaxEpoch : Recorded(p, i, result, graph)
      BY <1>15, ArchiveRecords
    <2> QED
      BY <2>1 DEF Recorded
  <1>16. CASE LeaseMoves
    BY <1>16 DEF LeaseMoves, root, runs, items, graphs, invocation
  <1> QED
    BY NextIsOne, <1>1, <1>2, <1>3, <1>4, <1>5, <1>6, <1>7, <1>8, <1>9,
       <1>10, <1>11, <1>12, <1>13, <1>14, <1>15, <1>16

(* A run that is absent stays without rows.                                *)
LEMMA AbsentRunsStayBare ==
    ASSUME Types, TokensAreOwn, ReadersSawTheRun, InspectionsAreInHand,
           FindingsAreStored,
           RunAndLeaseAgree, HandsAreClaimed, AbsentRunsAreBare, Next
    PROVE  AbsentRunsAreBare'
  <1> USE DEF AbsentRunsAreBare
  <1>1. ASSUME NEW p \in Proc, NEW r \in Run, StartEbook(p, r)
        PROVE  AbsentRunsAreBare'
    BY <1>1 DEF StartEbook, Grant, root, runs, items, graphs, invocation, Types,
       RunsType, ReadersSawTheRun
  <1>2. ASSUME NEW p \in Proc, NEW r \in Run, StartArchive(p, r)
        PROVE  AbsentRunsAreBare'
    BY <1>2 DEF StartArchive, Grant, root, runs, items, graphs, invocation, Types,
       RunsType, ReadersSawTheRun
  <1>3. ASSUME NEW p \in Proc, NEW r \in Run, ReadRun(p, r)
        PROVE  AbsentRunsAreBare'
    <2>1. UNCHANGED <<status, sealed, item>>
      BY <1>3 DEF ReadRun, Leaves, runs, items, invocation
    <2> QED
      BY <2>1 DEF Planned, ItemsOf
  <1>4. ASSUME NEW p \in Proc, Resume(p)
        PROVE  AbsentRunsAreBare'
    BY <1>4 DEF Resume, Grant, Reopen, root, runs, items, graphs, invocation, Types,
       RunsType, ReadersSawTheRun
  <1>5. ASSUME NEW p \in Proc, Leaves(p)
        PROVE  AbsentRunsAreBare'
    <2>1. UNCHANGED <<status, sealed, item>>
      BY <1>5 DEF Leaves, Leaves, runs, items, invocation
    <2> QED
      BY <2>1 DEF Planned, ItemsOf
  <1>6. ASSUME NEW p \in Proc, AppendPlanBatch(p)
        PROVE  AbsentRunsAreBare'
    BY <1>6 DEF AppendPlanBatch, Holds, root, runs, items, graphs, invocation, Types,
       ItemsType, ItemsOf
  <1>7. ASSUME NEW p \in Proc, PlanDrifts(p)
        PROVE  AbsentRunsAreBare'
    <2>1. UNCHANGED <<status, sealed, item>>
      BY <1>7 DEF PlanDrifts, Leaves, runs, items, invocation
    <2> QED
      BY <2>1 DEF Planned, ItemsOf
  <1>8. ASSUME NEW p \in Proc, SealPlan(p)
        PROVE  AbsentRunsAreBare'
    BY <1>8 DEF SealPlan, Holds, root, runs, items, graphs, invocation, Types,
       RunsType, ReadersSawTheRun
  <1>9. ASSUME NEW p \in Proc, Releases(p)
        PROVE  AbsentRunsAreBare'
    <2>1. Released(p)
      BY <1>9, ReleasesDo
    <2> QED
      BY <2>1 DEF Released, Types, RunsType
  <1>10. ASSUME NEW p \in Proc, ClaimPending(p)
        PROVE  AbsentRunsAreBare'
    BY <1>10 DEF ClaimPending, Holds, InHand, root, runs, items, graphs, invocation
  <1>11. ASSUME NEW p \in Proc, CompleteEbookItem(p)
        PROVE  AbsentRunsAreBare'
    <2>1. PICK i \in Item, result \in Ended : Recorded(p, i, result, 0)
      BY <1>11, EbookRecords
    <2> QED
      BY <2>1 DEF Recorded, Types, ItemsType, RunsType
  <1>12. ASSUME NEW p \in Proc, Prepare(p)
        PROVE  AbsentRunsAreBare'
    <2>1. UNCHANGED <<status, sealed, item>>
      BY <1>12 DEF Prepare, Leaves, runs, items, invocation
    <2> QED
      BY <2>1 DEF Planned, ItemsOf
  <1>13. ASSUME NEW p \in Proc, StoreGraph(p)
        PROVE  AbsentRunsAreBare'
    <2>1. UNCHANGED <<status, sealed, item>>
      BY <1>13 DEF StoreGraph, Leaves, runs, items, invocation
    <2> QED
      BY <2>1 DEF Planned, ItemsOf
  <1>14. ASSUME NEW p \in Proc, StoreFails(p)
        PROVE  AbsentRunsAreBare'
    <2>1. UNCHANGED <<status, sealed, item>>
      BY <1>14 DEF StoreFails, Leaves, runs, items, invocation
    <2> QED
      BY <2>1 DEF Planned, ItemsOf
  <1>15. ASSUME NEW p \in Proc, CompleteArchiveItem(p)
        PROVE  AbsentRunsAreBare'
    <2>1. PICK i \in Item, result \in Ended, graph \in 0..MaxEpoch : Recorded(p, i, result, graph)
      BY <1>15, ArchiveRecords
    <2> QED
      BY <2>1 DEF Recorded, Types, ItemsType, RunsType
  <1>16. CASE LeaseMoves
    BY <1>16 DEF LeaseMoves, root, runs, items, graphs, invocation
  <1> QED
    BY NextIsOne, <1>1, <1>2, <1>3, <1>4, <1>5, <1>6, <1>7, <1>8, <1>9,
       <1>10, <1>11, <1>12, <1>13, <1>14, <1>15, <1>16

(* A run that is sealed or running has all its rows.                       *)
LEMMA SealedRunsStayWhole ==
    ASSUME Types, TokensAreOwn, ReadersSawTheRun, InspectionsAreInHand,
           FindingsAreStored, SealedRunsAreWhole,
           \A r \in Run : Planned(r) => Planned(r)', Next
    PROVE  SealedRunsAreWhole'
  <1> USE DEF SealedRunsAreWhole
  <1>1. ASSUME NEW p \in Proc, NEW r \in Run, StartEbook(p, r)
        PROVE  SealedRunsAreWhole'
    BY <1>1 DEF StartEbook, Grant, root, runs, items, graphs, invocation, Types,
       RunsType, Planned, ItemsOf
  <1>2. ASSUME NEW p \in Proc, NEW r \in Run, StartArchive(p, r)
        PROVE  SealedRunsAreWhole'
    BY <1>2 DEF StartArchive, Grant, root, runs, items, graphs, invocation, Types,
       RunsType
  <1>3. ASSUME NEW p \in Proc, NEW r \in Run, ReadRun(p, r)
        PROVE  SealedRunsAreWhole'
    BY <1>3 DEF ReadRun, root, runs, items, graphs, invocation
  <1>4. ASSUME NEW p \in Proc, Resume(p)
        PROVE  SealedRunsAreWhole'
    BY <1>4 DEF Resume, Grant, Reopen, root, runs, items, graphs, invocation, Types,
       RunsType, ProcType, ReadersSawTheRun, TokensAreOwn
  <1>5. ASSUME NEW p \in Proc, Leaves(p)
        PROVE  SealedRunsAreWhole'
    BY <1>5 DEF Leaves, Leave, root, runs, items, graphs, invocation
  <1>6. ASSUME NEW p \in Proc, AppendPlanBatch(p)
        PROVE  SealedRunsAreWhole'
    BY <1>6 DEF AppendPlanBatch, Holds, root, runs, items, graphs, invocation
  <1>7. ASSUME NEW p \in Proc, PlanDrifts(p)
        PROVE  SealedRunsAreWhole'
    BY <1>7 DEF PlanDrifts, Holds, root, runs, items, graphs, invocation
  <1>8. ASSUME NEW p \in Proc, SealPlan(p)
        PROVE  SealedRunsAreWhole'
    BY <1>8 DEF SealPlan, Holds, root, runs, items, graphs, invocation, Types,
       RunsType, Planned, ItemsOf, items
  <1>9. ASSUME NEW p \in Proc, Releases(p)
        PROVE  SealedRunsAreWhole'
    <2>1. Released(p)
      BY <1>9, ReleasesDo
    <2> QED
      BY <2>1 DEF Released, Types, RunsType
  <1>10. ASSUME NEW p \in Proc, ClaimPending(p)
        PROVE  SealedRunsAreWhole'
    BY <1>10 DEF ClaimPending, Holds, InHand, root, runs, items, graphs, invocation
  <1>11. ASSUME NEW p \in Proc, CompleteEbookItem(p)
        PROVE  SealedRunsAreWhole'
    <2>1. PICK i \in Item, result \in Ended : Recorded(p, i, result, 0)
      BY <1>11, EbookRecords
    <2> QED
      BY <2>1 DEF Recorded
  <1>12. ASSUME NEW p \in Proc, Prepare(p)
        PROVE  SealedRunsAreWhole'
    BY <1>12 DEF Prepare, root, runs, items, graphs, invocation
  <1>13. ASSUME NEW p \in Proc, StoreGraph(p)
        PROVE  SealedRunsAreWhole'
    BY <1>13 DEF StoreGraph, Holds, root, runs, items, graphs, invocation
  <1>14. ASSUME NEW p \in Proc, StoreFails(p)
        PROVE  SealedRunsAreWhole'
    BY <1>14 DEF StoreFails, root, runs, items, graphs, invocation
  <1>15. ASSUME NEW p \in Proc, CompleteArchiveItem(p)
        PROVE  SealedRunsAreWhole'
    <2>1. PICK i \in Item, result \in Ended, graph \in 0..MaxEpoch : Recorded(p, i, result, graph)
      BY <1>15, ArchiveRecords
    <2> QED
      BY <2>1 DEF Recorded
  <1>16. CASE LeaseMoves
    BY <1>16 DEF LeaseMoves, root, runs, items, graphs, invocation
  <1> QED
    BY NextIsOne, <1>1, <1>2, <1>3, <1>4, <1>5, <1>6, <1>7, <1>8, <1>9,
       <1>10, <1>11, <1>12, <1>13, <1>14, <1>15, <1>16

(* What a resume has read of the plan stays true.                          *)
LEMMA ReadersSawTheRunStill ==
    ASSUME Types, TokensAreOwn, SealedRunsAreWhole, ReadersSawTheRun,
           InspectionsAreInHand, FindingsAreStored,
           \A r \in Run : Planned(r) => Planned(r)',
           \A r \in Run : status[r] # "ABSENT" => status'[r] # "ABSENT", Next
    PROVE  ReadersSawTheRun'
  <1> USE DEF ReadersSawTheRun, TokensAreOwn, Types, ProcType
  <1>1. ASSUME NEW p \in Proc, NEW r \in Run, StartEbook(p, r)
        PROVE  ReadersSawTheRun'
    BY <1>1 DEF StartEbook, Grant, root, runs, items, graphs, invocation
  <1>2. ASSUME NEW p \in Proc, NEW r \in Run, StartArchive(p, r)
        PROVE  ReadersSawTheRun'
    BY <1>2 DEF StartArchive, Grant, root, runs, items, graphs, invocation
  <1>3. ASSUME NEW p \in Proc, NEW r \in Run, ReadRun(p, r)
        PROVE  ReadersSawTheRun'
    BY <1>3 DEF ReadRun, root, runs, items, graphs, invocation, SealedRunsAreWhole
  <1>4. ASSUME NEW p \in Proc, Resume(p)
        PROVE  ReadersSawTheRun'
    BY <1>4 DEF Resume, Grant, Reopen, root, runs, items, graphs, invocation
  <1>5. ASSUME NEW p \in Proc, Leaves(p)
        PROVE  ReadersSawTheRun'
    BY <1>5 DEF Leaves, Leave, root, runs, items, graphs, invocation
  <1>6. ASSUME NEW p \in Proc, AppendPlanBatch(p)
        PROVE  ReadersSawTheRun'
    BY <1>6 DEF AppendPlanBatch, Holds, root, runs, items, graphs, invocation
  <1>7. ASSUME NEW p \in Proc, PlanDrifts(p)
        PROVE  ReadersSawTheRun'
    BY <1>7 DEF PlanDrifts, Holds, root, runs, items, graphs, invocation
  <1>8. ASSUME NEW p \in Proc, SealPlan(p)
        PROVE  ReadersSawTheRun'
    BY <1>8 DEF SealPlan, Holds, root, runs, items, graphs, invocation
  <1>9. ASSUME NEW p \in Proc, Releases(p)
        PROVE  ReadersSawTheRun'
    <2>1. Released(p)
      BY <1>9, ReleasesDo
    <2> QED
      BY <2>1 DEF Released
  <1>10. ASSUME NEW p \in Proc, ClaimPending(p)
        PROVE  ReadersSawTheRun'
    BY <1>10 DEF ClaimPending, Holds, InHand, root, runs, items, graphs, invocation
  <1>11. ASSUME NEW p \in Proc, CompleteEbookItem(p)
        PROVE  ReadersSawTheRun'
    <2>1. PICK i \in Item, result \in Ended : Recorded(p, i, result, 0)
      BY <1>11, EbookRecords
    <2> QED
      BY <2>1 DEF Recorded
  <1>12. ASSUME NEW p \in Proc, Prepare(p)
        PROVE  ReadersSawTheRun'
    BY <1>12 DEF Prepare, root, runs, items, graphs, invocation
  <1>13. ASSUME NEW p \in Proc, StoreGraph(p)
        PROVE  ReadersSawTheRun'
    BY <1>13 DEF StoreGraph, Holds, root, runs, items, graphs, invocation
  <1>14. ASSUME NEW p \in Proc, StoreFails(p)
        PROVE  ReadersSawTheRun'
    BY <1>14 DEF StoreFails, root, runs, items, graphs, invocation
  <1>15. ASSUME NEW p \in Proc, CompleteArchiveItem(p)
        PROVE  ReadersSawTheRun'
    <2>1. PICK i \in Item, result \in Ended, graph \in 0..MaxEpoch : Recorded(p, i, result, graph)
      BY <1>15, ArchiveRecords
    <2> QED
      BY <2>1 DEF Recorded
  <1>16. CASE LeaseMoves
    BY <1>16 DEF LeaseMoves, root, runs, items, graphs, invocation
  <1> QED
    BY NextIsOne, <1>1, <1>2, <1>3, <1>4, <1>5, <1>6, <1>7, <1>8, <1>9,
       <1>10, <1>11, <1>12, <1>13, <1>14, <1>15, <1>16

(* What a process has in hand stays running in the attempt it claimed.     *)
LEMMA HandsStayClaimed ==
    ASSUME Types, TokensAreOwn, InspectionsAreInHand, FindingsAreStored,
           HandsAreClaimed, Next
    PROVE  HandsAreClaimed'
  <1>1. ASSUME NEW p \in Proc, NEW r \in Run, StartEbook(p, r)
        PROVE  HandsAreClaimed'
    <2>1. /\ hand' = hand /\ held' = [held EXCEPT ![p] = epoch + 1] /\ epoch' = epoch + 1
          /\ pc[p] \in {"idle", "resuming"}
          /\ \A q \in Proc \ {p} : UNCHANGED <<pc[q], of[q], held[q]>>
      BY <1>1 DEF StartEbook, Grant, Types, ProcType
    <2>2. \A q \in Proc, i \in Item : hand[q][i] > 0 => q # p /\ held[q] # epoch + 1
      <3>1. \A q \in Proc, i \in Item : hand[q][i] > 0 => q # p /\ Working(q)
        BY <2>1 DEF HandsAreClaimed, Working
      <3>2. \A q \in Proc : Working(q) => held[q] <= epoch
        BY DEF TokensAreOwn
      <3>3. epoch \in Nat /\ \A q \in Proc : held[q] \in Nat
        BY CollectionAssumption DEF Types, RootType, ProcType
      <3> QED
        BY <3>1, <3>2, <3>3
    <2> QED
      BY <2>1, <2>2 DEF HandsAreClaimed
  <1>2. ASSUME NEW p \in Proc, NEW r \in Run, StartArchive(p, r)
        PROVE  HandsAreClaimed'
    <2>1. /\ hand' = hand /\ held' = [held EXCEPT ![p] = epoch + 1] /\ epoch' = epoch + 1
          /\ pc[p] \in {"idle", "resuming"}
          /\ \A q \in Proc \ {p} : UNCHANGED <<pc[q], of[q], held[q]>>
      BY <1>2 DEF StartArchive, Grant, Types, ProcType
    <2>2. \A q \in Proc, i \in Item : hand[q][i] > 0 => q # p /\ held[q] # epoch + 1
      <3>1. \A q \in Proc, i \in Item : hand[q][i] > 0 => q # p /\ Working(q)
        BY <2>1 DEF HandsAreClaimed, Working
      <3>2. \A q \in Proc : Working(q) => held[q] <= epoch
        BY DEF TokensAreOwn
      <3>3. epoch \in Nat /\ \A q \in Proc : held[q] \in Nat
        BY CollectionAssumption DEF Types, RootType, ProcType
      <3> QED
        BY <3>1, <3>2, <3>3
    <2> QED
      BY <2>1, <2>2 DEF HandsAreClaimed
  <1>3. ASSUME NEW p \in Proc, NEW r \in Run, ReadRun(p, r)
        PROVE  HandsAreClaimed'
    <2>1. /\ UNCHANGED <<hand, held, epoch, item, attempt>> /\ pc[p] = "idle"
          /\ \A q \in Proc \ {p} : UNCHANGED <<pc[q], of[q]>>
      BY <1>3 DEF ReadRun, root, items, Types, ProcType
    <2>2. \A q \in Proc, i \in Item : hand[q][i] > 0 => q # p
      BY <2>1 DEF HandsAreClaimed
    <2> QED
      BY <2>1, <2>2 DEF HandsAreClaimed
  <1>4. ASSUME NEW p \in Proc, Resume(p)
        PROVE  HandsAreClaimed'
    <2>1. /\ hand' = hand /\ held' = [held EXCEPT ![p] = epoch + 1] /\ epoch' = epoch + 1
          /\ pc[p] \in {"idle", "resuming"}
          /\ \A q \in Proc \ {p} : UNCHANGED <<pc[q], of[q], held[q]>>
      BY <1>4 DEF Resume, Grant, Types, ProcType
    <2>2. \A q \in Proc, i \in Item : hand[q][i] > 0 => q # p /\ held[q] # epoch + 1
      <3>1. \A q \in Proc, i \in Item : hand[q][i] > 0 => q # p /\ Working(q)
        BY <2>1 DEF HandsAreClaimed, Working
      <3>2. \A q \in Proc : Working(q) => held[q] <= epoch
        BY DEF TokensAreOwn
      <3>3. epoch \in Nat /\ \A q \in Proc : held[q] \in Nat
        BY CollectionAssumption DEF Types, RootType, ProcType
      <3> QED
        BY <3>1, <3>2, <3>3
    <2> QED
      BY <2>1, <2>2 DEF HandsAreClaimed
  <1>5. ASSUME NEW p \in Proc, Leaves(p)
        PROVE  HandsAreClaimed'
    <2>1. /\ UNCHANGED <<epoch, item, attempt>> /\ \A i \in Item : hand'[p][i] = 0
          /\ \A q \in Proc \ {p} : UNCHANGED <<pc[q], of[q], held[q], hand[q]>>
      BY <1>5 DEF Leaves, Leave, root, items, Types, ProcType
    <2> QED
      BY <2>1 DEF HandsAreClaimed
  <1>6. ASSUME NEW p \in Proc, AppendPlanBatch(p)
        PROVE  HandsAreClaimed'
    <2>1. /\ pc[p] = "plan" /\ held[p] = epoch /\ UNCHANGED <<pc, of, held, hand, epoch, attempt>>
      BY <1>6 DEF AppendPlanBatch, Holds, root, invocation
    <2>2. \A q \in Proc, i \in Item : hand[q][i] > 0 => held[q] # epoch
      BY <2>1 DEF TokensAreOwn, Working, HandsAreClaimed
    <2> QED
      BY <2>1, <2>2 DEF HandsAreClaimed
  <1>7. ASSUME NEW p \in Proc, PlanDrifts(p)
        PROVE  HandsAreClaimed'
    <2>1. /\ UNCHANGED <<hand, held, of, epoch, item, attempt>> /\ pc[p] = "plan"
          /\ \A q \in Proc \ {p} : UNCHANGED pc[q]
      BY <1>7 DEF PlanDrifts, root, items, Types, ProcType
    <2>2. \A q \in Proc, i \in Item : hand[q][i] > 0 => q # p
      BY <2>1 DEF HandsAreClaimed
    <2> QED
      BY <2>1, <2>2 DEF HandsAreClaimed
  <1>8. ASSUME NEW p \in Proc, SealPlan(p)
        PROVE  HandsAreClaimed'
    <2>1. /\ UNCHANGED <<hand, held, of, epoch, item, attempt>> /\ pc[p] = "plan"
          /\ \A q \in Proc \ {p} : UNCHANGED pc[q]
      BY <1>8 DEF SealPlan, root, items, Types, ProcType
    <2>2. \A q \in Proc, i \in Item : hand[q][i] > 0 => q # p
      BY <2>1 DEF HandsAreClaimed
    <2> QED
      BY <2>1, <2>2 DEF HandsAreClaimed
  <1>9. ASSUME NEW p \in Proc, Releases(p)
        PROVE  HandsAreClaimed'
    <2>1. Released(p)
      BY <1>9, ReleasesDo
    <2>2. /\ UNCHANGED <<epoch, item, attempt>> /\ \A i \in Item : hand'[p][i] = 0
          /\ \A q \in Proc \ {p} : UNCHANGED <<pc[q], of[q], held[q], hand[q]>>
      BY <2>1 DEF Released, Types, ProcType
    <2> QED
      BY <2>2 DEF HandsAreClaimed
  <1>10. ASSUME NEW p \in Proc, ClaimPending(p)
        PROVE  HandsAreClaimed'
    <2>1. /\ pc[p] = "work" /\ held[p] = epoch /\ UNCHANGED <<pc, of, held, epoch>>
          /\ \A i \in Item : ~(hand[p][i] > 0)
      BY <1>10 DEF ClaimPending, Holds, InHand, root
    <2>2. \A q \in Proc \ {p}, i \in Item : hand[q][i] > 0 => held[q] # epoch
      BY <2>1 DEF TokensAreOwn, Working, HandsAreClaimed
    <2>3. PICK wave \in SUBSET {i \in ItemsOf(of[p]) : item[i] = "PENDING"} :
            /\ item' = [i \in Item |-> IF i \in wave THEN "RUNNING" ELSE item[i]]
            /\ attempt' = [i \in Item |-> attempt[i] + (IF i \in wave THEN 1 ELSE 0)]
            /\ hand' = [hand EXCEPT ![p] =
                          [i \in Item |-> IF i \in wave THEN attempt[i] + 1 ELSE 0]]
      BY <1>10 DEF ClaimPending
    <2>4. \A q \in Proc \ {p} : hand'[q] = hand[q]
      BY <2>3 DEF Types, ProcType
    <2>5. ASSUME NEW i \in Item, hand'[p][i] > 0
          PROVE  PlanOf[i] = of[p] /\ item'[i] = "RUNNING" /\ attempt'[i] = hand'[p][i]
      <3>1. hand'[p] = [j \in Item |-> IF j \in wave THEN attempt[j] + 1 ELSE 0]
        BY <2>3 DEF Types, ProcType
      <3>2. i \in wave
        BY <2>5, <3>1
      <3> QED
        BY <2>3, <3>1, <3>2 DEF ItemsOf
    <2> QED
      BY <2>1, <2>2, <2>4, <2>5 DEF HandsAreClaimed
  <1>11. ASSUME NEW p \in Proc, CompleteEbookItem(p)
        PROVE  HandsAreClaimed'
    <2>1. PICK i \in Item, result \in Ended :
            Recorded(p, i, result, 0)
      BY <1>11, EbookRecords
    <2>2. /\ pc[p] \in {"work", "prepared", "stored"} /\ held[p] = epoch
          /\ UNCHANGED <<of, held, epoch, attempt>>
      BY <2>1 DEF Recorded
    <2>3. \A q \in Proc \ {p}, j \in Item : hand[q][j] > 0 => held[q] # epoch
      BY <2>2 DEF TokensAreOwn, Working, HandsAreClaimed
    <2>4. /\ \A q \in Proc \ {p} : UNCHANGED <<hand[q], pc[q]>>
          /\ \A j \in Item \ {i} : hand'[p][j] = hand[p][j] /\ item'[j] = item[j]
          /\ hand'[p][i] = 0 /\ pc'[p] = "work"
      BY <2>1 DEF Recorded, Types, ProcType, ItemsType
    <2> QED
      BY <2>2, <2>3, <2>4 DEF HandsAreClaimed
  <1>12. ASSUME NEW p \in Proc, Prepare(p)
        PROVE  HandsAreClaimed'
    BY <1>12 DEF Prepare, root, runs, items, graphs, invocation, Types, ProcType,
       HandsAreClaimed
  <1>13. ASSUME NEW p \in Proc, StoreGraph(p)
        PROVE  HandsAreClaimed'
    BY <1>13 DEF StoreGraph, Holds, root, runs, items, graphs, invocation, Types,
       ProcType, HandsAreClaimed
  <1>14. ASSUME NEW p \in Proc, StoreFails(p)
        PROVE  HandsAreClaimed'
    BY <1>14 DEF StoreFails, root, runs, items, graphs, invocation, Types, ProcType,
       HandsAreClaimed
  <1>15. ASSUME NEW p \in Proc, CompleteArchiveItem(p)
        PROVE  HandsAreClaimed'
    <2>1. PICK i \in Item, result \in Ended, graph \in 0..MaxEpoch :
            Recorded(p, i, result, graph)
      BY <1>15, ArchiveRecords
    <2>2. /\ pc[p] \in {"work", "prepared", "stored"} /\ held[p] = epoch
          /\ UNCHANGED <<of, held, epoch, attempt>>
      BY <2>1 DEF Recorded
    <2>3. \A q \in Proc \ {p}, j \in Item : hand[q][j] > 0 => held[q] # epoch
      BY <2>2 DEF TokensAreOwn, Working, HandsAreClaimed
    <2>4. /\ \A q \in Proc \ {p} : UNCHANGED <<hand[q], pc[q]>>
          /\ \A j \in Item \ {i} : hand'[p][j] = hand[p][j] /\ item'[j] = item[j]
          /\ hand'[p][i] = 0 /\ pc'[p] = "work"
      BY <2>1 DEF Recorded, Types, ProcType, ItemsType
    <2> QED
      BY <2>2, <2>3, <2>4 DEF HandsAreClaimed
  <1>16. CASE LeaseMoves
    BY <1>16 DEF LeaseMoves, root, runs, items, graphs, invocation, Types, ProcType,
       HandsAreClaimed
  <1> QED
    BY NextIsOne, <1>1, <1>2, <1>3, <1>4, <1>5, <1>6, <1>7, <1>8, <1>9,
       <1>10, <1>11, <1>12, <1>13, <1>14, <1>15, <1>16

(* The archive under inspection stays in hand.                             *)
LEMMA InspectionsStayInHand ==
    ASSUME Types, TokensAreOwn, InspectionsAreInHand, FindingsAreStored, Next
    PROVE  InspectionsAreInHand'
  <1>1. ASSUME NEW p \in Proc, NEW r \in Run, StartEbook(p, r)
        PROVE  InspectionsAreInHand'
    <2>1. \A q \in Proc : pc'[q] \in {"prepared", "stored"} => q # p /\ pc[q] = pc'[q]
      BY <1>1 DEF StartEbook, Grant, Leave, invocation, Types, ProcType
    <2>2. \A q \in Proc \ {p} : UNCHANGED <<of[q], doing[q], found[q], hand[q]>>
      BY <1>1 DEF StartEbook, Grant, Leave, invocation, Types, ProcType
    <2> QED
      BY <2>1, <2>2 DEF InspectionsAreInHand
  <1>2. ASSUME NEW p \in Proc, NEW r \in Run, StartArchive(p, r)
        PROVE  InspectionsAreInHand'
    <2>1. \A q \in Proc : pc'[q] \in {"prepared", "stored"} => q # p /\ pc[q] = pc'[q]
      BY <1>2 DEF StartArchive, Grant, Leave, invocation, Types, ProcType
    <2>2. \A q \in Proc \ {p} : UNCHANGED <<of[q], doing[q], found[q], hand[q]>>
      BY <1>2 DEF StartArchive, Grant, Leave, invocation, Types, ProcType
    <2> QED
      BY <2>1, <2>2 DEF InspectionsAreInHand
  <1>3. ASSUME NEW p \in Proc, NEW r \in Run, ReadRun(p, r)
        PROVE  InspectionsAreInHand'
    <2>1. \A q \in Proc : pc'[q] \in {"prepared", "stored"} => q # p /\ pc[q] = pc'[q]
      BY <1>3 DEF ReadRun, Grant, Leave, invocation, Types, ProcType
    <2>2. \A q \in Proc \ {p} : UNCHANGED <<of[q], doing[q], found[q], hand[q]>>
      BY <1>3 DEF ReadRun, Grant, Leave, invocation, Types, ProcType
    <2> QED
      BY <2>1, <2>2 DEF InspectionsAreInHand
  <1>4. ASSUME NEW p \in Proc, Resume(p)
        PROVE  InspectionsAreInHand'
    <2>1. \A q \in Proc : pc'[q] \in {"prepared", "stored"} => q # p /\ pc[q] = pc'[q]
      BY <1>4 DEF Resume, Grant, Leave, invocation, Types, ProcType
    <2>2. \A q \in Proc \ {p} : UNCHANGED <<of[q], doing[q], found[q], hand[q]>>
      BY <1>4 DEF Resume, Grant, Leave, invocation, Types, ProcType
    <2> QED
      BY <2>1, <2>2 DEF InspectionsAreInHand
  <1>5. ASSUME NEW p \in Proc, Leaves(p)
        PROVE  InspectionsAreInHand'
    <2>1. \A q \in Proc : pc'[q] \in {"prepared", "stored"} => q # p /\ pc[q] = pc'[q]
      BY <1>5 DEF Leaves, Grant, Leave, invocation, Types, ProcType
    <2>2. \A q \in Proc \ {p} : UNCHANGED <<of[q], doing[q], found[q], hand[q]>>
      BY <1>5 DEF Leaves, Grant, Leave, invocation, Types, ProcType
    <2> QED
      BY <2>1, <2>2 DEF InspectionsAreInHand
  <1>6. ASSUME NEW p \in Proc, AppendPlanBatch(p)
        PROVE  InspectionsAreInHand'
    BY <1>6 DEF AppendPlanBatch, Holds, root, runs, items, graphs, invocation, Types,
       ProcType, InspectionsAreInHand
  <1>7. ASSUME NEW p \in Proc, PlanDrifts(p)
        PROVE  InspectionsAreInHand'
    <2>1. \A q \in Proc : pc'[q] \in {"prepared", "stored"} => q # p /\ pc[q] = pc'[q]
      BY <1>7 DEF PlanDrifts, Grant, Leave, invocation, Types, ProcType
    <2>2. \A q \in Proc \ {p} : UNCHANGED <<of[q], doing[q], found[q], hand[q]>>
      BY <1>7 DEF PlanDrifts, Grant, Leave, invocation, Types, ProcType
    <2> QED
      BY <2>1, <2>2 DEF InspectionsAreInHand
  <1>8. ASSUME NEW p \in Proc, SealPlan(p)
        PROVE  InspectionsAreInHand'
    <2>1. \A q \in Proc : pc'[q] \in {"prepared", "stored"} => q # p /\ pc[q] = pc'[q]
      BY <1>8 DEF SealPlan, Grant, Leave, invocation, Types, ProcType
    <2>2. \A q \in Proc \ {p} : UNCHANGED <<of[q], doing[q], found[q], hand[q]>>
      BY <1>8 DEF SealPlan, Grant, Leave, invocation, Types, ProcType
    <2> QED
      BY <2>1, <2>2 DEF InspectionsAreInHand
  <1>9. ASSUME NEW p \in Proc, Releases(p)
        PROVE  InspectionsAreInHand'
    <2>1. Released(p)
      BY <1>9, ReleasesDo
    <2>2. \A q \in Proc : pc'[q] \in {"prepared", "stored"} => q # p /\ pc[q] = pc'[q]
      BY <2>1 DEF Released, Types, ProcType
    <2>3. \A q \in Proc \ {p} : UNCHANGED <<of[q], doing[q], found[q], hand[q]>>
      BY <2>1 DEF Released, Types, ProcType
    <2> QED
      BY <2>2, <2>3 DEF InspectionsAreInHand
  <1>10. ASSUME NEW p \in Proc, ClaimPending(p)
        PROVE  InspectionsAreInHand'
    BY <1>10 DEF ClaimPending, Holds, InHand, root, runs, items, graphs, invocation,
       Types, ProcType, InspectionsAreInHand
  <1>11. ASSUME NEW p \in Proc, CompleteEbookItem(p)
        PROVE  InspectionsAreInHand'
    <2>1. PICK i \in Item, result \in Ended :
            Recorded(p, i, result, 0)
      BY <1>11, EbookRecords
    <2>2. \A q \in Proc : pc'[q] \in {"prepared", "stored"} => q # p /\ pc[q] = pc'[q]
      BY <2>1 DEF Recorded, Types, ProcType
    <2>3. \A q \in Proc \ {p} : UNCHANGED <<of[q], doing[q], found[q], hand[q]>>
      BY <2>1 DEF Recorded, Types, ProcType
    <2> QED
      BY <2>2, <2>3 DEF InspectionsAreInHand
  <1>12. ASSUME NEW p \in Proc, Prepare(p)
        PROVE  InspectionsAreInHand'
    <2>1. PICK i \in InHand(p), what \in {"REUSED", "LISTED", "UNLISTED", "ERROR"} :
            doing' = [doing EXCEPT ![p] = i] /\ found' = [found EXCEPT ![p] = what]
      BY <1>12 DEF Prepare
    <2>2. /\ KindOf[of[p]] = "ARCHIVE" /\ UNCHANGED <<of, hand>>
          /\ pc' = [pc EXCEPT ![p] = "prepared"]
      BY <1>12 DEF Prepare
    <2>3. /\ doing'[p] \in Item /\ hand'[p][doing'[p]] > 0 /\ found'[p] # "NOTHING"
          /\ pc'[p] = "prepared"
      BY <2>1, <2>2 DEF InHand, Types, ProcType
    <2>4. \A q \in Proc \ {p} : UNCHANGED <<pc[q], doing[q], found[q]>>
      BY <2>1, <2>2 DEF Types, ProcType
    <2> QED
      BY <2>2, <2>3, <2>4 DEF InspectionsAreInHand
  <1>13. ASSUME NEW p \in Proc, StoreGraph(p)
        PROVE  InspectionsAreInHand'
    BY <1>13 DEF StoreGraph, Holds, root, runs, items, graphs, invocation, Types,
       ProcType, InspectionsAreInHand
  <1>14. ASSUME NEW p \in Proc, StoreFails(p)
        PROVE  InspectionsAreInHand'
    BY <1>14 DEF StoreFails, root, runs, items, graphs, invocation, Types, ProcType,
       InspectionsAreInHand
  <1>15. ASSUME NEW p \in Proc, CompleteArchiveItem(p)
        PROVE  InspectionsAreInHand'
    <2>1. PICK i \in Item, result \in Ended, graph \in 0..MaxEpoch :
            Recorded(p, i, result, graph)
      BY <1>15, ArchiveRecords
    <2>2. \A q \in Proc : pc'[q] \in {"prepared", "stored"} => q # p /\ pc[q] = pc'[q]
      BY <2>1 DEF Recorded, Types, ProcType
    <2>3. \A q \in Proc \ {p} : UNCHANGED <<of[q], doing[q], found[q], hand[q]>>
      BY <2>1 DEF Recorded, Types, ProcType
    <2> QED
      BY <2>2, <2>3 DEF InspectionsAreInHand
  <1>16. CASE LeaseMoves
    BY <1>16 DEF LeaseMoves, root, runs, items, graphs, invocation, Types, ProcType,
       InspectionsAreInHand
  <1> QED
    BY NextIsOne, <1>1, <1>2, <1>3, <1>4, <1>5, <1>6, <1>7, <1>8, <1>9,
       <1>10, <1>11, <1>12, <1>13, <1>14, <1>15, <1>16

(* What a process has found of an archive stays true of what is stored.    *)
LEMMA FindingsStayStored ==
    ASSUME Types, TokensAreOwn, InspectionsAreInHand, FindingsAreStored, Next
    PROVE  FindingsAreStored'
  <1>1. ASSUME NEW p \in Proc, NEW r \in Run, StartEbook(p, r)
        PROVE  FindingsAreStored'
    <2>1. \A q \in Proc : pc'[q] \in {"prepared", "stored"} => q # p /\ pc[q] = pc'[q]
      BY <1>1 DEF StartEbook, Grant, Leave, invocation, graphs, Types, ProcType
    <2>2. /\ UNCHANGED <<listed, unlisted>>
          /\ \A q \in Proc \ {p} : UNCHANGED <<doing[q], found[q], held[q]>>
      BY <1>1 DEF StartEbook, Grant, Leave, invocation, graphs, Types, ProcType
    <2>3. \A q \in Proc \ {p} : pc[q] \in {"prepared", "stored"} =>
             (held'[q] = epoch' => held[q] = epoch)
      <3>1. epoch' = epoch + 1
        BY <1>1 DEF StartEbook, Grant
      <3>2. \A q \in Proc : pc[q] \in {"prepared", "stored"} => held[q] <= epoch
        BY DEF TokensAreOwn, Working
      <3>3. epoch \in Nat /\ \A q \in Proc : held[q] \in Nat
        BY CollectionAssumption DEF Types, RootType, ProcType
      <3> QED
        BY <3>1, <3>2, <3>3, <2>2
    <2> QED
      BY <2>1, <2>2, <2>3 DEF FindingsAreStored
  <1>2. ASSUME NEW p \in Proc, NEW r \in Run, StartArchive(p, r)
        PROVE  FindingsAreStored'
    <2>1. \A q \in Proc : pc'[q] \in {"prepared", "stored"} => q # p /\ pc[q] = pc'[q]
      BY <1>2 DEF StartArchive, Grant, Leave, invocation, graphs, Types, ProcType
    <2>2. /\ UNCHANGED <<listed, unlisted>>
          /\ \A q \in Proc \ {p} : UNCHANGED <<doing[q], found[q], held[q]>>
      BY <1>2 DEF StartArchive, Grant, Leave, invocation, graphs, Types, ProcType
    <2>3. \A q \in Proc \ {p} : pc[q] \in {"prepared", "stored"} =>
             (held'[q] = epoch' => held[q] = epoch)
      <3>1. epoch' = epoch + 1
        BY <1>2 DEF StartArchive, Grant
      <3>2. \A q \in Proc : pc[q] \in {"prepared", "stored"} => held[q] <= epoch
        BY DEF TokensAreOwn, Working
      <3>3. epoch \in Nat /\ \A q \in Proc : held[q] \in Nat
        BY CollectionAssumption DEF Types, RootType, ProcType
      <3> QED
        BY <3>1, <3>2, <3>3, <2>2
    <2> QED
      BY <2>1, <2>2, <2>3 DEF FindingsAreStored
  <1>3. ASSUME NEW p \in Proc, NEW r \in Run, ReadRun(p, r)
        PROVE  FindingsAreStored'
    <2>1. \A q \in Proc : pc'[q] \in {"prepared", "stored"} => q # p /\ pc[q] = pc'[q]
      BY <1>3 DEF ReadRun, Grant, Leave, invocation, graphs, Types, ProcType
    <2>2. /\ UNCHANGED <<listed, unlisted>>
          /\ \A q \in Proc \ {p} : UNCHANGED <<doing[q], found[q], held[q]>>
      BY <1>3 DEF ReadRun, Grant, Leave, invocation, graphs, Types, ProcType
    <2>3. \A q \in Proc \ {p} : pc[q] \in {"prepared", "stored"} =>
             (held'[q] = epoch' => held[q] = epoch)
      BY <1>3, <2>2 DEF ReadRun, Grant, root
    <2> QED
      BY <2>1, <2>2, <2>3 DEF FindingsAreStored
  <1>4. ASSUME NEW p \in Proc, Resume(p)
        PROVE  FindingsAreStored'
    <2>1. \A q \in Proc : pc'[q] \in {"prepared", "stored"} => q # p /\ pc[q] = pc'[q]
      BY <1>4 DEF Resume, Grant, Leave, invocation, graphs, Types, ProcType
    <2>2. /\ UNCHANGED <<listed, unlisted>>
          /\ \A q \in Proc \ {p} : UNCHANGED <<doing[q], found[q], held[q]>>
      BY <1>4 DEF Resume, Grant, Leave, invocation, graphs, Types, ProcType
    <2>3. \A q \in Proc \ {p} : pc[q] \in {"prepared", "stored"} =>
             (held'[q] = epoch' => held[q] = epoch)
      <3>1. epoch' = epoch + 1
        BY <1>4 DEF Resume, Grant
      <3>2. \A q \in Proc : pc[q] \in {"prepared", "stored"} => held[q] <= epoch
        BY DEF TokensAreOwn, Working
      <3>3. epoch \in Nat /\ \A q \in Proc : held[q] \in Nat
        BY CollectionAssumption DEF Types, RootType, ProcType
      <3> QED
        BY <3>1, <3>2, <3>3, <2>2
    <2> QED
      BY <2>1, <2>2, <2>3 DEF FindingsAreStored
  <1>5. ASSUME NEW p \in Proc, Leaves(p)
        PROVE  FindingsAreStored'
    <2>1. \A q \in Proc : pc'[q] \in {"prepared", "stored"} => q # p /\ pc[q] = pc'[q]
      BY <1>5 DEF Leaves, Grant, Leave, invocation, graphs, Types, ProcType
    <2>2. /\ UNCHANGED <<listed, unlisted>>
          /\ \A q \in Proc \ {p} : UNCHANGED <<doing[q], found[q], held[q]>>
      BY <1>5 DEF Leaves, Grant, Leave, invocation, graphs, Types, ProcType
    <2>3. \A q \in Proc \ {p} : pc[q] \in {"prepared", "stored"} =>
             (held'[q] = epoch' => held[q] = epoch)
      BY <1>5, <2>2 DEF Leaves, Grant, root
    <2> QED
      BY <2>1, <2>2, <2>3 DEF FindingsAreStored
  <1>6. ASSUME NEW p \in Proc, AppendPlanBatch(p)
        PROVE  FindingsAreStored'
    BY <1>6 DEF AppendPlanBatch, Holds, root, runs, items, graphs, invocation,
       FindingsAreStored
  <1>7. ASSUME NEW p \in Proc, PlanDrifts(p)
        PROVE  FindingsAreStored'
    <2>1. \A q \in Proc : pc'[q] \in {"prepared", "stored"} => q # p /\ pc[q] = pc'[q]
      BY <1>7 DEF PlanDrifts, Grant, Leave, invocation, graphs, Types, ProcType
    <2>2. /\ UNCHANGED <<listed, unlisted>>
          /\ \A q \in Proc \ {p} : UNCHANGED <<doing[q], found[q], held[q]>>
      BY <1>7 DEF PlanDrifts, Grant, Leave, invocation, graphs, Types, ProcType
    <2>3. \A q \in Proc \ {p} : pc[q] \in {"prepared", "stored"} =>
             (held'[q] = epoch' => held[q] = epoch)
      BY <1>7, <2>2 DEF PlanDrifts, Grant, root
    <2> QED
      BY <2>1, <2>2, <2>3 DEF FindingsAreStored
  <1>8. ASSUME NEW p \in Proc, SealPlan(p)
        PROVE  FindingsAreStored'
    <2>1. \A q \in Proc : pc'[q] \in {"prepared", "stored"} => q # p /\ pc[q] = pc'[q]
      BY <1>8 DEF SealPlan, Grant, Leave, invocation, graphs, Types, ProcType
    <2>2. /\ UNCHANGED <<listed, unlisted>>
          /\ \A q \in Proc \ {p} : UNCHANGED <<doing[q], found[q], held[q]>>
      BY <1>8 DEF SealPlan, Grant, Leave, invocation, graphs, Types, ProcType
    <2>3. \A q \in Proc \ {p} : pc[q] \in {"prepared", "stored"} =>
             (held'[q] = epoch' => held[q] = epoch)
      BY <1>8, <2>2 DEF SealPlan, Grant, root
    <2> QED
      BY <2>1, <2>2, <2>3 DEF FindingsAreStored
  <1>9. ASSUME NEW p \in Proc, Releases(p)
        PROVE  FindingsAreStored'
    <2>1. Released(p)
      BY <1>9, ReleasesDo
    <2>2. \A q \in Proc : pc'[q] \in {"prepared", "stored"} => q # p /\ pc[q] = pc'[q]
      BY <2>1 DEF Released, Types, ProcType
    <2>3. /\ UNCHANGED <<listed, unlisted>>
          /\ \A q \in Proc \ {p} : UNCHANGED <<doing[q], found[q], held[q]>>
      BY <2>1 DEF Released, Types, ProcType
    <2>4. \A q \in Proc \ {p} : pc[q] \in {"prepared", "stored"} =>
             (held'[q] = epoch' => held[q] = epoch)
      BY <2>1, <2>3 DEF Released
    <2> QED
      BY <2>2, <2>3, <2>4 DEF FindingsAreStored
  <1>10. ASSUME NEW p \in Proc, ClaimPending(p)
        PROVE  FindingsAreStored'
    BY <1>10 DEF ClaimPending, Holds, InHand, root, runs, items, graphs, invocation,
       FindingsAreStored
  <1>11. ASSUME NEW p \in Proc, CompleteEbookItem(p)
        PROVE  FindingsAreStored'
    <2>1. PICK i \in Item, result \in Ended :
            Recorded(p, i, result, 0)
      BY <1>11, EbookRecords
    <2>2. \A q \in Proc : pc'[q] \in {"prepared", "stored"} => q # p /\ pc[q] = pc'[q]
      BY <2>1 DEF Recorded, Types, ProcType
    <2>3. /\ UNCHANGED <<listed, unlisted>>
          /\ \A q \in Proc \ {p} : UNCHANGED <<doing[q], found[q], held[q]>>
      BY <2>1 DEF Recorded, Types, ProcType
    <2>4. \A q \in Proc \ {p} : pc[q] \in {"prepared", "stored"} =>
             (held'[q] = epoch' => held[q] = epoch)
      BY <2>1, <2>3 DEF Recorded
    <2> QED
      BY <2>2, <2>3, <2>4 DEF FindingsAreStored
  <1>12. ASSUME NEW p \in Proc, Prepare(p)
        PROVE  FindingsAreStored'
    <2>1. PICK i \in InHand(p), what \in {"REUSED", "LISTED", "UNLISTED", "ERROR"} :
            /\ what = "REUSED" => Cardinality(listed[i]) = 1
            /\ what \in {"LISTED", "UNLISTED"} => listed[i] = {}
            /\ doing' = [doing EXCEPT ![p] = i] /\ found' = [found EXCEPT ![p] = what]
      BY <1>12 DEF Prepare
    <2>2. UNCHANGED <<listed, unlisted, held, epoch>> /\ pc' = [pc EXCEPT ![p] = "prepared"]
      BY <1>12 DEF Prepare, root, graphs
    <2>3. doing'[p] = i /\ found'[p] = what /\ pc'[p] = "prepared"
      BY <2>1, <2>2 DEF Types, ProcType
    <2>4. \A q \in Proc \ {p} : UNCHANGED <<pc[q], doing[q], found[q]>>
      BY <2>1, <2>2 DEF Types, ProcType
    <2>5. what = "REUSED" => listed[i] # {}
      BY <2>1, FS_EmptySet
    <2> QED
      BY <2>1, <2>2, <2>3, <2>4, <2>5 DEF FindingsAreStored
  <1>13. ASSUME NEW p \in Proc, StoreGraph(p)
        PROVE  FindingsAreStored'
    <2>1. /\ pc[p] = "prepared" /\ held[p] = epoch /\ UNCHANGED <<held, epoch, doing, found>>
          /\ pc'[p] = "stored" /\ \A q \in Proc \ {p} : UNCHANGED pc[q]
          /\ doing[p] \in Item
      BY <1>13 DEF StoreGraph, Holds, root, Types, ProcType, InspectionsAreInHand
    <2>2. \A q \in Proc \ {p} : pc[q] \in {"prepared", "stored"} => held[q] # epoch
      BY <2>1 DEF TokensAreOwn, Working
    <2>3. /\ \A i \in Item : listed[i] \subseteq listed'[i] /\ unlisted[i] \subseteq unlisted'[i]
          /\ found[p] = "LISTED" => held[p] \in listed'[doing[p]]
          /\ found[p] = "UNLISTED" => held[p] \in unlisted'[doing[p]]
      BY <1>13, <2>1 DEF StoreGraph, Types, GraphsType
    <2>4. \A q \in Proc : pc[q] \in {"prepared", "stored"} => doing[q] \in Item
      BY DEF InspectionsAreInHand
    <2> QED
      BY <2>1, <2>2, <2>3, <2>4 DEF FindingsAreStored
  <1>14. ASSUME NEW p \in Proc, StoreFails(p)
        PROVE  FindingsAreStored'
    <2>1. /\ UNCHANGED <<listed, unlisted, held, epoch, pc, doing>> /\ pc[p] = "prepared"
          /\ found'[p] = "ERROR" /\ \A q \in Proc \ {p} : UNCHANGED found[q]
      BY <1>14 DEF StoreFails, root, graphs, Types, ProcType
    <2> QED
      BY <2>1 DEF FindingsAreStored
  <1>15. ASSUME NEW p \in Proc, CompleteArchiveItem(p)
        PROVE  FindingsAreStored'
    <2>1. PICK i \in Item, result \in Ended, graph \in 0..MaxEpoch :
            Recorded(p, i, result, graph)
      BY <1>15, ArchiveRecords
    <2>2. \A q \in Proc : pc'[q] \in {"prepared", "stored"} => q # p /\ pc[q] = pc'[q]
      BY <2>1 DEF Recorded, Types, ProcType
    <2>3. /\ UNCHANGED <<listed, unlisted>>
          /\ \A q \in Proc \ {p} : UNCHANGED <<doing[q], found[q], held[q]>>
      BY <2>1 DEF Recorded, Types, ProcType
    <2>4. \A q \in Proc \ {p} : pc[q] \in {"prepared", "stored"} =>
             (held'[q] = epoch' => held[q] = epoch)
      BY <2>1, <2>3 DEF Recorded
    <2> QED
      BY <2>2, <2>3, <2>4 DEF FindingsAreStored
  <1>16. CASE LeaseMoves
    BY <1>16 DEF LeaseMoves, root, runs, items, graphs, invocation, FindingsAreStored
  <1> QED
    BY NextIsOne, <1>1, <1>2, <1>3, <1>4, <1>5, <1>6, <1>7, <1>8, <1>9,
       <1>10, <1>11, <1>12, <1>13, <1>14, <1>15, <1>16

(* What an item ended with stays of its last attempt.                      *)
LEMMA ResultsStayOfTheLastAttempt ==
    ASSUME Types, InspectionsAreInHand, FindingsAreStored, HandsAreClaimed,
           ResultIsOfTheLastAttempt, Next
    PROVE  ResultIsOfTheLastAttempt'
  <1>1. ASSUME NEW p \in Proc, NEW r \in Run, StartEbook(p, r)
        PROVE  ResultIsOfTheLastAttempt'
    <2>1. \A i \in Item : item'[i] \in Ended =>
             /\ item[i] \in Ended
             /\ attempt'[i] = attempt[i] /\ resultOf'[i] = resultOf[i]
      BY <1>1 DEF StartEbook, Types, ItemsType, Ended
    <2> QED
      BY <2>1 DEF ResultIsOfTheLastAttempt
  <1>2. ASSUME NEW p \in Proc, NEW r \in Run, StartArchive(p, r)
        PROVE  ResultIsOfTheLastAttempt'
    BY <1>2 DEF StartArchive, Grant, root, runs, items, graphs, invocation,
       ResultIsOfTheLastAttempt
  <1>3. ASSUME NEW p \in Proc, NEW r \in Run, ReadRun(p, r)
        PROVE  ResultIsOfTheLastAttempt'
    BY <1>3 DEF ReadRun, root, runs, items, graphs, invocation, ResultIsOfTheLastAttempt
  <1>4. ASSUME NEW p \in Proc, Resume(p)
        PROVE  ResultIsOfTheLastAttempt'
    <2>1. \A i \in Item : item'[i] \in Ended =>
             /\ item[i] \in Ended
             /\ attempt'[i] = attempt[i] /\ resultOf'[i] = resultOf[i]
      BY <1>4 DEF Resume, Types, ItemsType, Ended
    <2> QED
      BY <2>1 DEF ResultIsOfTheLastAttempt
  <1>5. ASSUME NEW p \in Proc, Leaves(p)
        PROVE  ResultIsOfTheLastAttempt'
    BY <1>5 DEF Leaves, Leave, root, runs, items, graphs, invocation,
       ResultIsOfTheLastAttempt
  <1>6. ASSUME NEW p \in Proc, AppendPlanBatch(p)
        PROVE  ResultIsOfTheLastAttempt'
    <2>1. \A i \in Item : item'[i] \in Ended =>
             /\ item[i] \in Ended
             /\ attempt'[i] = attempt[i] /\ resultOf'[i] = resultOf[i]
      BY <1>6 DEF AppendPlanBatch, Types, ItemsType, Ended
    <2> QED
      BY <2>1 DEF ResultIsOfTheLastAttempt
  <1>7. ASSUME NEW p \in Proc, PlanDrifts(p)
        PROVE  ResultIsOfTheLastAttempt'
    BY <1>7 DEF PlanDrifts, Holds, root, runs, items, graphs, invocation,
       ResultIsOfTheLastAttempt
  <1>8. ASSUME NEW p \in Proc, SealPlan(p)
        PROVE  ResultIsOfTheLastAttempt'
    BY <1>8 DEF SealPlan, Holds, root, runs, items, graphs, invocation,
       ResultIsOfTheLastAttempt
  <1>9. ASSUME NEW p \in Proc, Releases(p)
        PROVE  ResultIsOfTheLastAttempt'
    BY <1>9 DEF Releases, Release, Leave, Holds, root, runs, items, graphs, invocation,
       ResultIsOfTheLastAttempt
  <1>10. ASSUME NEW p \in Proc, ClaimPending(p)
        PROVE  ResultIsOfTheLastAttempt'
    <2>1. \A i \in Item : item'[i] \in Ended =>
             /\ item[i] \in Ended
             /\ attempt'[i] = attempt[i] /\ resultOf'[i] = resultOf[i]
      BY <1>10 DEF ClaimPending, Types, ItemsType, Ended
    <2> QED
      BY <2>1 DEF ResultIsOfTheLastAttempt
  <1>11. ASSUME NEW p \in Proc, CompleteEbookItem(p)
        PROVE  ResultIsOfTheLastAttempt'
    <2>1. PICK i \in Item, result \in Ended :
            Recorded(p, i, result, 0)
      BY <1>11, EbookRecords
    <2>2. attempt' = attempt /\ attempt[i] = hand[p][i]
      BY <2>1 DEF Recorded, HandsAreClaimed
    <2>3. /\ item'[i] = result /\ resultOf'[i] = hand[p][i]
          /\ \A j \in Item \ {i} : item'[j] = item[j] /\ resultOf'[j] = resultOf[j]
      BY <2>1 DEF Recorded, Types, ItemsType
    <2> QED
      BY <2>2, <2>3 DEF ResultIsOfTheLastAttempt
  <1>12. ASSUME NEW p \in Proc, Prepare(p)
        PROVE  ResultIsOfTheLastAttempt'
    BY <1>12 DEF Prepare, root, runs, items, graphs, invocation,
       ResultIsOfTheLastAttempt
  <1>13. ASSUME NEW p \in Proc, StoreGraph(p)
        PROVE  ResultIsOfTheLastAttempt'
    BY <1>13 DEF StoreGraph, Holds, root, runs, items, graphs, invocation,
       ResultIsOfTheLastAttempt
  <1>14. ASSUME NEW p \in Proc, StoreFails(p)
        PROVE  ResultIsOfTheLastAttempt'
    BY <1>14 DEF StoreFails, root, runs, items, graphs, invocation,
       ResultIsOfTheLastAttempt
  <1>15. ASSUME NEW p \in Proc, CompleteArchiveItem(p)
        PROVE  ResultIsOfTheLastAttempt'
    <2>1. PICK i \in Item, result \in Ended, graph \in 0..MaxEpoch :
            Recorded(p, i, result, graph)
      BY <1>15, ArchiveRecords
    <2>2. attempt' = attempt /\ attempt[i] = hand[p][i]
      BY <2>1 DEF Recorded, HandsAreClaimed
    <2>3. /\ item'[i] = result /\ resultOf'[i] = hand[p][i]
          /\ \A j \in Item \ {i} : item'[j] = item[j] /\ resultOf'[j] = resultOf[j]
      BY <2>1 DEF Recorded, Types, ItemsType
    <2> QED
      BY <2>2, <2>3 DEF ResultIsOfTheLastAttempt
  <1>16. CASE LeaseMoves
    BY <1>16 DEF LeaseMoves, root, runs, items, graphs, invocation,
       ResultIsOfTheLastAttempt
  <1> QED
    BY NextIsOne, <1>1, <1>2, <1>3, <1>4, <1>5, <1>6, <1>7, <1>8, <1>9,
       <1>10, <1>11, <1>12, <1>13, <1>14, <1>15, <1>16

(* A finished item keeps its status, its attempts and its graph.           *)
LEMMA EndedItemsStay ==
    ASSUME Types, InspectionsAreInHand, FindingsAreStored, AbsentRunsAreBare, Next
    PROVE  \A i \in Item : item[i] \in Ended =>
               /\ item'[i] = item[i] /\ attempt'[i] = attempt[i] /\ bound'[i] = bound[i]
  <1> USE DEF Ended
  <1>1. ASSUME NEW p \in Proc, NEW r \in Run, StartEbook(p, r)
        PROVE  \A i \in Item : item[i] \in Ended =>
               /\ item'[i] = item[i] /\ attempt'[i] = attempt[i] /\ bound'[i] = bound[i]
    BY <1>1 DEF StartEbook, Grant, root, runs, items, graphs, invocation,
       AbsentRunsAreBare
  <1>2. ASSUME NEW p \in Proc, NEW r \in Run, StartArchive(p, r)
        PROVE  \A i \in Item : item[i] \in Ended =>
               /\ item'[i] = item[i] /\ attempt'[i] = attempt[i] /\ bound'[i] = bound[i]
    BY <1>2 DEF StartArchive, Grant, root, runs, items, graphs, invocation
  <1>3. ASSUME NEW p \in Proc, NEW r \in Run, ReadRun(p, r)
        PROVE  \A i \in Item : item[i] \in Ended =>
               /\ item'[i] = item[i] /\ attempt'[i] = attempt[i] /\ bound'[i] = bound[i]
    BY <1>3 DEF ReadRun, root, runs, items, graphs, invocation
  <1>4. ASSUME NEW p \in Proc, Resume(p)
        PROVE  \A i \in Item : item[i] \in Ended =>
               /\ item'[i] = item[i] /\ attempt'[i] = attempt[i] /\ bound'[i] = bound[i]
    BY <1>4 DEF Resume, Grant, Reopen, root, runs, items, graphs, invocation, Orphaned
  <1>5. ASSUME NEW p \in Proc, Leaves(p)
        PROVE  \A i \in Item : item[i] \in Ended =>
               /\ item'[i] = item[i] /\ attempt'[i] = attempt[i] /\ bound'[i] = bound[i]
    BY <1>5 DEF Leaves, Leave, root, runs, items, graphs, invocation
  <1>6. ASSUME NEW p \in Proc, AppendPlanBatch(p)
        PROVE  \A i \in Item : item[i] \in Ended =>
               /\ item'[i] = item[i] /\ attempt'[i] = attempt[i] /\ bound'[i] = bound[i]
    BY <1>6 DEF AppendPlanBatch, Holds, root, runs, items, graphs, invocation, Types,
       ItemsType
  <1>7. ASSUME NEW p \in Proc, PlanDrifts(p)
        PROVE  \A i \in Item : item[i] \in Ended =>
               /\ item'[i] = item[i] /\ attempt'[i] = attempt[i] /\ bound'[i] = bound[i]
    BY <1>7 DEF PlanDrifts, Holds, root, runs, items, graphs, invocation
  <1>8. ASSUME NEW p \in Proc, SealPlan(p)
        PROVE  \A i \in Item : item[i] \in Ended =>
               /\ item'[i] = item[i] /\ attempt'[i] = attempt[i] /\ bound'[i] = bound[i]
    BY <1>8 DEF SealPlan, Holds, root, runs, items, graphs, invocation
  <1>9. ASSUME NEW p \in Proc, Releases(p)
        PROVE  \A i \in Item : item[i] \in Ended =>
               /\ item'[i] = item[i] /\ attempt'[i] = attempt[i] /\ bound'[i] = bound[i]
    BY <1>9 DEF Releases, Release, Leave, Holds, root, runs, items, graphs, invocation
  <1>10. ASSUME NEW p \in Proc, ClaimPending(p)
        PROVE  \A i \in Item : item[i] \in Ended =>
               /\ item'[i] = item[i] /\ attempt'[i] = attempt[i] /\ bound'[i] = bound[i]
    BY <1>10 DEF ClaimPending, Holds, InHand, root, runs, items, graphs, invocation,
       Types, ItemsType
  <1>11. ASSUME NEW p \in Proc, CompleteEbookItem(p)
        PROVE  \A i \in Item : item[i] \in Ended =>
               /\ item'[i] = item[i] /\ attempt'[i] = attempt[i] /\ bound'[i] = bound[i]
    <2>1. PICK i \in Item, result \in Ended :
            Recorded(p, i, result, 0)
      BY <1>11, EbookRecords
    <2> QED
      BY <2>1 DEF Recorded, Types, ItemsType, Ended
  <1>12. ASSUME NEW p \in Proc, Prepare(p)
        PROVE  \A i \in Item : item[i] \in Ended =>
               /\ item'[i] = item[i] /\ attempt'[i] = attempt[i] /\ bound'[i] = bound[i]
    BY <1>12 DEF Prepare, root, runs, items, graphs, invocation
  <1>13. ASSUME NEW p \in Proc, StoreGraph(p)
        PROVE  \A i \in Item : item[i] \in Ended =>
               /\ item'[i] = item[i] /\ attempt'[i] = attempt[i] /\ bound'[i] = bound[i]
    BY <1>13 DEF StoreGraph, Holds, root, runs, items, graphs, invocation
  <1>14. ASSUME NEW p \in Proc, StoreFails(p)
        PROVE  \A i \in Item : item[i] \in Ended =>
               /\ item'[i] = item[i] /\ attempt'[i] = attempt[i] /\ bound'[i] = bound[i]
    BY <1>14 DEF StoreFails, root, runs, items, graphs, invocation
  <1>15. ASSUME NEW p \in Proc, CompleteArchiveItem(p)
        PROVE  \A i \in Item : item[i] \in Ended =>
               /\ item'[i] = item[i] /\ attempt'[i] = attempt[i] /\ bound'[i] = bound[i]
    <2>1. PICK i \in Item, result \in Ended, graph \in 0..MaxEpoch :
            Recorded(p, i, result, graph)
      BY <1>15, ArchiveRecords
    <2> QED
      BY <2>1 DEF Recorded, Types, ItemsType, Ended
  <1>16. CASE LeaseMoves
    BY <1>16 DEF LeaseMoves, root, runs, items, graphs, invocation
  <1> QED
    BY NextIsOne, <1>1, <1>2, <1>3, <1>4, <1>5, <1>6, <1>7, <1>8, <1>9,
       <1>10, <1>11, <1>12, <1>13, <1>14, <1>15, <1>16

(* A finished archive item stays backed by a stored graph.                 *)
LEMMA ResultsStayBacked ==
    ASSUME Types, InspectionsAreInHand, FindingsAreStored, HandsAreClaimed,
           ResultsAreBacked, Next
    PROVE  ResultsAreBacked'
  <1>1. ASSUME NEW p \in Proc, NEW r \in Run, StartEbook(p, r)
        PROVE  ResultsAreBacked'
    <2>1. UNCHANGED <<listed, unlisted, bound>>
      BY <1>1 DEF StartEbook, graphs
    <2>2. \A i \in Item : KindOf[PlanOf[i]] = "ARCHIVE" =>
             item'[i] = item[i] \/ {item[i], item'[i]} \cap {"SUCCEEDED", "FAILED"} = {}
      BY <1>1 DEF StartEbook, Types, ItemsType, Orphaned
    <2> QED
      BY <2>1, <2>2 DEF ResultsAreBacked
  <1>2. ASSUME NEW p \in Proc, NEW r \in Run, StartArchive(p, r)
        PROVE  ResultsAreBacked'
    BY <1>2 DEF StartArchive, Grant, root, runs, items, graphs, invocation,
       ResultsAreBacked
  <1>3. ASSUME NEW p \in Proc, NEW r \in Run, ReadRun(p, r)
        PROVE  ResultsAreBacked'
    BY <1>3 DEF ReadRun, root, runs, items, graphs, invocation, ResultsAreBacked
  <1>4. ASSUME NEW p \in Proc, Resume(p)
        PROVE  ResultsAreBacked'
    <2>1. UNCHANGED <<listed, unlisted, bound>>
      BY <1>4 DEF Resume, graphs
    <2>2. \A i \in Item : KindOf[PlanOf[i]] = "ARCHIVE" =>
             item'[i] = item[i] \/ {item[i], item'[i]} \cap {"SUCCEEDED", "FAILED"} = {}
      BY <1>4 DEF Resume, Types, ItemsType, Orphaned
    <2> QED
      BY <2>1, <2>2 DEF ResultsAreBacked
  <1>5. ASSUME NEW p \in Proc, Leaves(p)
        PROVE  ResultsAreBacked'
    BY <1>5 DEF Leaves, Leave, root, runs, items, graphs, invocation, ResultsAreBacked
  <1>6. ASSUME NEW p \in Proc, AppendPlanBatch(p)
        PROVE  ResultsAreBacked'
    <2>1. UNCHANGED <<listed, unlisted, bound>>
      BY <1>6 DEF AppendPlanBatch, graphs
    <2>2. \A i \in Item : KindOf[PlanOf[i]] = "ARCHIVE" =>
             item'[i] = item[i] \/ {item[i], item'[i]} \cap {"SUCCEEDED", "FAILED"} = {}
      BY <1>6 DEF AppendPlanBatch, Types, ItemsType, Orphaned
    <2> QED
      BY <2>1, <2>2 DEF ResultsAreBacked
  <1>7. ASSUME NEW p \in Proc, PlanDrifts(p)
        PROVE  ResultsAreBacked'
    BY <1>7 DEF PlanDrifts, Holds, root, runs, items, graphs, invocation,
       ResultsAreBacked
  <1>8. ASSUME NEW p \in Proc, SealPlan(p)
        PROVE  ResultsAreBacked'
    BY <1>8 DEF SealPlan, Holds, root, runs, items, graphs, invocation, ResultsAreBacked
  <1>9. ASSUME NEW p \in Proc, Releases(p)
        PROVE  ResultsAreBacked'
    BY <1>9 DEF Releases, Release, Leave, Holds, root, runs, items, graphs, invocation,
       ResultsAreBacked
  <1>10. ASSUME NEW p \in Proc, ClaimPending(p)
        PROVE  ResultsAreBacked'
    <2>1. UNCHANGED <<listed, unlisted, bound>>
      BY <1>10 DEF ClaimPending, graphs
    <2>2. \A i \in Item : KindOf[PlanOf[i]] = "ARCHIVE" =>
             item'[i] = item[i] \/ {item[i], item'[i]} \cap {"SUCCEEDED", "FAILED"} = {}
      BY <1>10 DEF ClaimPending, Types, ItemsType, Orphaned
    <2> QED
      BY <2>1, <2>2 DEF ResultsAreBacked
  <1>11. ASSUME NEW p \in Proc, CompleteEbookItem(p)
        PROVE  ResultsAreBacked'
    <2>1. PICK i \in Item, result \in Ended :
            Recorded(p, i, result, 0)
      BY <1>11, EbookRecords
    <2>2. KindOf[PlanOf[i]] = "EBOOK"
      <3>1. KindOf[of[p]] = "EBOOK"
        BY <1>11, EbookRecords
      <3>2. PlanOf[i] = of[p]
        BY <2>1 DEF Recorded, HandsAreClaimed
      <3> QED
        BY <3>1, <3>2
    <2>3. /\ UNCHANGED <<listed, unlisted>>
          /\ \A j \in Item \ {i} : item'[j] = item[j] /\ bound'[j] = bound[j]
      BY <2>1 DEF Recorded, Types, ItemsType
    <2> QED
      BY <2>2, <2>3 DEF ResultsAreBacked
  <1>12. ASSUME NEW p \in Proc, Prepare(p)
        PROVE  ResultsAreBacked'
    BY <1>12 DEF Prepare, root, runs, items, graphs, invocation, ResultsAreBacked
  <1>13. ASSUME NEW p \in Proc, StoreGraph(p)
        PROVE  ResultsAreBacked'
    <2>1. /\ UNCHANGED <<item, bound>>
          /\ \A i \in Item : listed[i] \subseteq listed'[i] /\ unlisted[i] \subseteq unlisted'[i]
      BY <1>13 DEF StoreGraph, items, Types, GraphsType
    <2> QED
      BY <2>1 DEF ResultsAreBacked
  <1>14. ASSUME NEW p \in Proc, StoreFails(p)
        PROVE  ResultsAreBacked'
    BY <1>14 DEF StoreFails, root, runs, items, graphs, invocation, ResultsAreBacked
  <1>15. ASSUME NEW p \in Proc, CompleteArchiveItem(p)
        PROVE  ResultsAreBacked'
    <2> DEFINE i == doing[p]
    <2>1. Recorded(p, i, ResultOf(p)[1], ResultOf(p)[2]) /\ i \in Item
      BY <1>15, ArchiveRecords
    <2>2. /\ item'[i] = ResultOf(p)[1] /\ bound'[i] = ResultOf(p)[2]
          /\ UNCHANGED <<listed, unlisted>>
          /\ \A j \in Item \ {i} : item'[j] = item[j] /\ bound'[j] = bound[j]
      BY <2>1 DEF Recorded, Types, ItemsType
    <2>3. /\ ResultOf(p)[1] \in Ended
          /\ ResultOf(p)[1] = "SUCCEEDED" => ResultOf(p)[2] \in listed[i]
          /\ ResultOf(p)[1] = "FAILED" => ResultOf(p)[2] \in unlisted[i]
          /\ ResultOf(p)[1] = "ERROR" => ResultOf(p)[2] = NoEpoch
      BY <1>15, ResultIsTyped
    <2> HIDE DEF i
    <2>4. ASSUME NEW j \in Item, KindOf[PlanOf[j]] = "ARCHIVE"
          PROVE  /\ item'[j] = "SUCCEEDED" => bound'[j] \in listed'[j]
                 /\ item'[j] = "FAILED" => bound'[j] \in unlisted'[j]
                 /\ item'[j] \notin {"SUCCEEDED", "FAILED"} => bound'[j] = NoEpoch
      <3>1. CASE j = i
        BY <2>2, <2>3, <3>1 DEF Ended
      <3>2. CASE j # i
        BY <2>2, <2>4, <3>2 DEF ResultsAreBacked
      <3> QED
        BY <3>1, <3>2
    <2> QED
      BY <2>4 DEF ResultsAreBacked
  <1>16. CASE LeaseMoves
    BY <1>16 DEF LeaseMoves, root, runs, items, graphs, invocation, ResultsAreBacked
  <1> QED
    BY NextIsOne, <1>1, <1>2, <1>3, <1>4, <1>5, <1>6, <1>7, <1>8, <1>9,
       <1>10, <1>11, <1>12, <1>13, <1>14, <1>15, <1>16

(* No archive gets a second listing.                                       *)
LEMMA ListingsStayOne ==
    ASSUME Types, InspectionsAreInHand, FindingsAreStored, OneListing, Next
    PROVE  OneListing'
  <1>1. ASSUME NEW p \in Proc, NEW r \in Run, StartEbook(p, r)
        PROVE  OneListing'
    BY <1>1 DEF StartEbook, Grant, root, runs, items, graphs, invocation, OneListing
  <1>2. ASSUME NEW p \in Proc, NEW r \in Run, StartArchive(p, r)
        PROVE  OneListing'
    BY <1>2 DEF StartArchive, Grant, root, runs, items, graphs, invocation, OneListing
  <1>3. ASSUME NEW p \in Proc, NEW r \in Run, ReadRun(p, r)
        PROVE  OneListing'
    BY <1>3 DEF ReadRun, root, runs, items, graphs, invocation, OneListing
  <1>4. ASSUME NEW p \in Proc, Resume(p)
        PROVE  OneListing'
    BY <1>4 DEF Resume, Grant, Reopen, root, runs, items, graphs, invocation, OneListing
  <1>5. ASSUME NEW p \in Proc, Leaves(p)
        PROVE  OneListing'
    BY <1>5 DEF Leaves, Leave, root, runs, items, graphs, invocation, OneListing
  <1>6. ASSUME NEW p \in Proc, AppendPlanBatch(p)
        PROVE  OneListing'
    BY <1>6 DEF AppendPlanBatch, Holds, root, runs, items, graphs, invocation,
       OneListing
  <1>7. ASSUME NEW p \in Proc, PlanDrifts(p)
        PROVE  OneListing'
    BY <1>7 DEF PlanDrifts, Holds, root, runs, items, graphs, invocation, OneListing
  <1>8. ASSUME NEW p \in Proc, SealPlan(p)
        PROVE  OneListing'
    BY <1>8 DEF SealPlan, Holds, root, runs, items, graphs, invocation, OneListing
  <1>9. ASSUME NEW p \in Proc, Releases(p)
        PROVE  OneListing'
    <2>1. listed' = listed
      BY <1>9 DEF Releases, graphs
    <2> QED
      BY <2>1 DEF OneListing
  <1>10. ASSUME NEW p \in Proc, ClaimPending(p)
        PROVE  OneListing'
    BY <1>10 DEF ClaimPending, Holds, InHand, root, runs, items, graphs, invocation,
       OneListing
  <1>11. ASSUME NEW p \in Proc, CompleteEbookItem(p)
        PROVE  OneListing'
    <2>1. listed' = listed
      BY <1>11 DEF CompleteEbookItem, graphs
    <2> QED
      BY <2>1 DEF OneListing
  <1>12. ASSUME NEW p \in Proc, Prepare(p)
        PROVE  OneListing'
    BY <1>12 DEF Prepare, root, runs, items, graphs, invocation, OneListing
  <1>13. ASSUME NEW p \in Proc, StoreGraph(p)
        PROVE  OneListing'
    <2>1. \/ listed' = listed
          \/ /\ found[p] = "LISTED"
             /\ listed' = [listed EXCEPT ![doing[p]] = listed[doing[p]] \cup {held[p]}]
      BY <1>13 DEF StoreGraph
    <2>2. found[p] = "LISTED" => listed[doing[p]] = {}
      BY <1>13 DEF StoreGraph, Holds, FindingsAreStored
    <2> QED
      BY <2>1, <2>2 DEF OneListing, Types, GraphsType
  <1>14. ASSUME NEW p \in Proc, StoreFails(p)
        PROVE  OneListing'
    BY <1>14 DEF StoreFails, root, runs, items, graphs, invocation, OneListing
  <1>15. ASSUME NEW p \in Proc, CompleteArchiveItem(p)
        PROVE  OneListing'
    <2>1. listed' = listed
      BY <1>15 DEF CompleteArchiveItem, graphs
    <2> QED
      BY <2>1 DEF OneListing
  <1>16. CASE LeaseMoves
    BY <1>16 DEF LeaseMoves, root, runs, items, graphs, invocation, OneListing
  <1> QED
    BY NextIsOne, <1>1, <1>2, <1>3, <1>4, <1>5, <1>6, <1>7, <1>8, <1>9,
       <1>10, <1>11, <1>12, <1>13, <1>14, <1>15, <1>16

(* A verdict on a run that has all its rows is true.                       *)
LEMMA VerdictIsTrue ==
    ASSUME Types, NEW r \in Run, Planned(r)
    PROVE  /\ Verdict(r) = "COMPLETED" => \A i \in ItemsOf(r) : item[i] = "SUCCEEDED"
           /\ Verdict(r) = "COMPLETED_WITH_FAILURES" =>
                 /\ \A i \in ItemsOf(r) : item[i] \in Ended
                 /\ \E i \in ItemsOf(r) : item[i] # "SUCCEEDED"
           /\ Verdict(r) = "INTERRUPTED" =>
                 \E i \in ItemsOf(r) : item[i] \in {"PENDING", "RUNNING"}
  <1>1. \A i \in ItemsOf(r) : item[i] \in {"PENDING", "RUNNING"} \cup Ended
    BY DEF Planned, ItemsOf, Types, ItemsType
  <1> QED
    BY <1>1 DEF Verdict, Ended

(* A run gets its final status by the verdict on its items.                *)
LEMMA RunsEndByVerdict ==
    ASSUME Types, TokensAreOwn, Next
    PROVE  \A r \in Run : status'[r] # status[r] =>
               \/ status'[r] \in {"RUNNING", "PLANNING", "FAILED"}
               \/ status'[r] = "INTERRUPTED" /\ KindOf[r] = "EBOOK"
               \/ status'[r] = Verdict(r) /\ status[r] = "RUNNING" /\ item' = item
  <1>1. ASSUME NEW p \in Proc, NEW r \in Run, StartEbook(p, r)
        PROVE  \A s \in Run : status'[s] # status[s] =>
               \/ status'[s] \in {"RUNNING", "PLANNING", "FAILED"}
               \/ status'[s] = "INTERRUPTED" /\ KindOf[s] = "EBOOK"
               \/ status'[s] = Verdict(s) /\ status[s] = "RUNNING" /\ item' = item
    BY <1>1 DEF StartEbook, Grant, root, runs, items, graphs, invocation, Types,
       RunsType
  <1>2. ASSUME NEW p \in Proc, NEW r \in Run, StartArchive(p, r)
        PROVE  \A s \in Run : status'[s] # status[s] =>
               \/ status'[s] \in {"RUNNING", "PLANNING", "FAILED"}
               \/ status'[s] = "INTERRUPTED" /\ KindOf[s] = "EBOOK"
               \/ status'[s] = Verdict(s) /\ status[s] = "RUNNING" /\ item' = item
    BY <1>2 DEF StartArchive, Grant, root, runs, items, graphs, invocation, Types,
       RunsType
  <1>3. ASSUME NEW p \in Proc, NEW r \in Run, ReadRun(p, r)
        PROVE  \A s \in Run : status'[s] # status[s] =>
               \/ status'[s] \in {"RUNNING", "PLANNING", "FAILED"}
               \/ status'[s] = "INTERRUPTED" /\ KindOf[s] = "EBOOK"
               \/ status'[s] = Verdict(s) /\ status[s] = "RUNNING" /\ item' = item
    BY <1>3 DEF ReadRun, root, runs, items, graphs, invocation
  <1>4. ASSUME NEW p \in Proc, Resume(p)
        PROVE  \A r \in Run : status'[r] # status[r] =>
               \/ status'[r] \in {"RUNNING", "PLANNING", "FAILED"}
               \/ status'[r] = "INTERRUPTED" /\ KindOf[r] = "EBOOK"
               \/ status'[r] = Verdict(r) /\ status[r] = "RUNNING" /\ item' = item
    BY <1>4 DEF Resume, Grant, Reopen, root, runs, items, graphs, invocation, Types,
       RunsType
  <1>5. ASSUME NEW p \in Proc, Leaves(p)
        PROVE  \A r \in Run : status'[r] # status[r] =>
               \/ status'[r] \in {"RUNNING", "PLANNING", "FAILED"}
               \/ status'[r] = "INTERRUPTED" /\ KindOf[r] = "EBOOK"
               \/ status'[r] = Verdict(r) /\ status[r] = "RUNNING" /\ item' = item
    BY <1>5 DEF Leaves, Leave, root, runs, items, graphs, invocation
  <1>6. ASSUME NEW p \in Proc, AppendPlanBatch(p)
        PROVE  \A r \in Run : status'[r] # status[r] =>
               \/ status'[r] \in {"RUNNING", "PLANNING", "FAILED"}
               \/ status'[r] = "INTERRUPTED" /\ KindOf[r] = "EBOOK"
               \/ status'[r] = Verdict(r) /\ status[r] = "RUNNING" /\ item' = item
    BY <1>6 DEF AppendPlanBatch, Holds, root, runs, items, graphs, invocation
  <1>7. ASSUME NEW p \in Proc, PlanDrifts(p)
        PROVE  \A r \in Run : status'[r] # status[r] =>
               \/ status'[r] \in {"RUNNING", "PLANNING", "FAILED"}
               \/ status'[r] = "INTERRUPTED" /\ KindOf[r] = "EBOOK"
               \/ status'[r] = Verdict(r) /\ status[r] = "RUNNING" /\ item' = item
    BY <1>7 DEF PlanDrifts, Holds, root, runs, items, graphs, invocation
  <1>8. ASSUME NEW p \in Proc, SealPlan(p)
        PROVE  \A r \in Run : status'[r] # status[r] =>
               \/ status'[r] \in {"RUNNING", "PLANNING", "FAILED"}
               \/ status'[r] = "INTERRUPTED" /\ KindOf[r] = "EBOOK"
               \/ status'[r] = Verdict(r) /\ status[r] = "RUNNING" /\ item' = item
    BY <1>8 DEF SealPlan, Holds, root, runs, items, graphs, invocation, Types, RunsType
  <1>9. ASSUME NEW p \in Proc, Releases(p)
        PROVE  \A r \in Run : status'[r] # status[r] =>
               \/ status'[r] \in {"RUNNING", "PLANNING", "FAILED"}
               \/ status'[r] = "INTERRUPTED" /\ KindOf[r] = "EBOOK"
               \/ status'[r] = Verdict(r) /\ status[r] = "RUNNING" /\ item' = item
    <2>1. of[p] \in Run /\ item' = item
      BY <1>9 DEF Releases, Holds, TokensAreOwn, items
    <2>2. \A r \in Run \ {of[p]} : status'[r] = status[r]
      BY <1>9 DEF Releases, Release, Types, RunsType
    <2>3. \/ status'[of[p]] \in {"PLANNING", "FAILED"}
          \/ status'[of[p]] = "INTERRUPTED" /\ KindOf[of[p]] = "EBOOK"
          \/ status'[of[p]] = Verdict(of[p]) /\ status[of[p]] = "RUNNING"
      BY <1>9, <2>1 DEF Releases, Release, Types, RunsType
    <2> QED
      BY <2>1, <2>2, <2>3
  <1>10. ASSUME NEW p \in Proc, ClaimPending(p)
        PROVE  \A r \in Run : status'[r] # status[r] =>
               \/ status'[r] \in {"RUNNING", "PLANNING", "FAILED"}
               \/ status'[r] = "INTERRUPTED" /\ KindOf[r] = "EBOOK"
               \/ status'[r] = Verdict(r) /\ status[r] = "RUNNING" /\ item' = item
    BY <1>10 DEF ClaimPending, Holds, InHand, root, runs, items, graphs, invocation
  <1>11. ASSUME NEW p \in Proc, CompleteEbookItem(p)
        PROVE  \A r \in Run : status'[r] # status[r] =>
               \/ status'[r] \in {"RUNNING", "PLANNING", "FAILED"}
               \/ status'[r] = "INTERRUPTED" /\ KindOf[r] = "EBOOK"
               \/ status'[r] = Verdict(r) /\ status[r] = "RUNNING" /\ item' = item
    <2>1. status' = status
      BY <1>11 DEF CompleteEbookItem, runs
    <2> QED
      BY <2>1
  <1>12. ASSUME NEW p \in Proc, Prepare(p)
        PROVE  \A r \in Run : status'[r] # status[r] =>
               \/ status'[r] \in {"RUNNING", "PLANNING", "FAILED"}
               \/ status'[r] = "INTERRUPTED" /\ KindOf[r] = "EBOOK"
               \/ status'[r] = Verdict(r) /\ status[r] = "RUNNING" /\ item' = item
    BY <1>12 DEF Prepare, root, runs, items, graphs, invocation
  <1>13. ASSUME NEW p \in Proc, StoreGraph(p)
        PROVE  \A r \in Run : status'[r] # status[r] =>
               \/ status'[r] \in {"RUNNING", "PLANNING", "FAILED"}
               \/ status'[r] = "INTERRUPTED" /\ KindOf[r] = "EBOOK"
               \/ status'[r] = Verdict(r) /\ status[r] = "RUNNING" /\ item' = item
    BY <1>13 DEF StoreGraph, Holds, root, runs, items, graphs, invocation
  <1>14. ASSUME NEW p \in Proc, StoreFails(p)
        PROVE  \A r \in Run : status'[r] # status[r] =>
               \/ status'[r] \in {"RUNNING", "PLANNING", "FAILED"}
               \/ status'[r] = "INTERRUPTED" /\ KindOf[r] = "EBOOK"
               \/ status'[r] = Verdict(r) /\ status[r] = "RUNNING" /\ item' = item
    BY <1>14 DEF StoreFails, root, runs, items, graphs, invocation
  <1>15. ASSUME NEW p \in Proc, CompleteArchiveItem(p)
        PROVE  \A r \in Run : status'[r] # status[r] =>
               \/ status'[r] \in {"RUNNING", "PLANNING", "FAILED"}
               \/ status'[r] = "INTERRUPTED" /\ KindOf[r] = "EBOOK"
               \/ status'[r] = Verdict(r) /\ status[r] = "RUNNING" /\ item' = item
    <2>1. status' = status
      BY <1>15 DEF CompleteArchiveItem, runs
    <2> QED
      BY <2>1
  <1>16. CASE LeaseMoves
    BY <1>16 DEF LeaseMoves, root, runs, items, graphs, invocation
  <1> QED
    BY NextIsOne, <1>1, <1>2, <1>3, <1>4, <1>5, <1>6, <1>7, <1>8, <1>9,
       <1>10, <1>11, <1>12, <1>13, <1>14, <1>15, <1>16

(* Nobody touches the items of an interrupted run.                         *)
LEMMA InterruptedRunsRest ==
    ASSUME Types, InspectionsAreInHand, FindingsAreStored, HandsAreClaimed, Next
    PROVE  \A r \in Run : status[r] = "INTERRUPTED" /\ status'[r] = "INTERRUPTED" =>
               \A i \in ItemsOf(r) : item'[i] = item[i]
  <1>1. ASSUME NEW p \in Proc, NEW r \in Run, StartEbook(p, r)
        PROVE  \A s \in Run : status[s] = "INTERRUPTED" /\ status'[s] = "INTERRUPTED" =>
               \A i \in ItemsOf(s) : item'[i] = item[i]
    <2>1. status'[r] = "RUNNING" /\ \A i \in Item : PlanOf[i] # r => item'[i] = item[i]
      BY <1>1 DEF StartEbook, Types, RunsType
    <2> QED
      BY <2>1 DEF ItemsOf
  <1>2. ASSUME NEW p \in Proc, NEW r \in Run, StartArchive(p, r)
        PROVE  \A s \in Run : status[s] = "INTERRUPTED" /\ status'[s] = "INTERRUPTED" =>
               \A i \in ItemsOf(s) : item'[i] = item[i]
    BY <1>2 DEF StartArchive, Grant, root, runs, items, graphs, invocation
  <1>3. ASSUME NEW p \in Proc, NEW r \in Run, ReadRun(p, r)
        PROVE  \A s \in Run : status[s] = "INTERRUPTED" /\ status'[s] = "INTERRUPTED" =>
               \A i \in ItemsOf(s) : item'[i] = item[i]
    BY <1>3 DEF ReadRun, root, runs, items, graphs, invocation
  <1>4. ASSUME NEW p \in Proc, Resume(p)
        PROVE  \A r \in Run : status[r] = "INTERRUPTED" /\ status'[r] = "INTERRUPTED" =>
               \A i \in ItemsOf(r) : item'[i] = item[i]
    <2>1. /\ of[p] \in Run => status'[of[p]] # "INTERRUPTED"
          /\ \A i \in Item : PlanOf[i] # of[p] => item'[i] = item[i]
      BY <1>4 DEF Resume, Reopen, Types, RunsType
    <2> QED
      BY <2>1 DEF ItemsOf
  <1>5. ASSUME NEW p \in Proc, Leaves(p)
        PROVE  \A r \in Run : status[r] = "INTERRUPTED" /\ status'[r] = "INTERRUPTED" =>
               \A i \in ItemsOf(r) : item'[i] = item[i]
    BY <1>5 DEF Leaves, Leave, root, runs, items, graphs, invocation
  <1>6. ASSUME NEW p \in Proc, AppendPlanBatch(p)
        PROVE  \A r \in Run : status[r] = "INTERRUPTED" /\ status'[r] = "INTERRUPTED" =>
               \A i \in ItemsOf(r) : item'[i] = item[i]
    <2>1. status[of[p]] = "PLANNING" /\ \A i \in Item : PlanOf[i] # of[p] => item'[i] = item[i]
      BY <1>6 DEF AppendPlanBatch, ItemsOf, Types, ItemsType
    <2> QED
      BY <2>1 DEF ItemsOf
  <1>7. ASSUME NEW p \in Proc, PlanDrifts(p)
        PROVE  \A r \in Run : status[r] = "INTERRUPTED" /\ status'[r] = "INTERRUPTED" =>
               \A i \in ItemsOf(r) : item'[i] = item[i]
    BY <1>7 DEF PlanDrifts, Holds, root, runs, items, graphs, invocation
  <1>8. ASSUME NEW p \in Proc, SealPlan(p)
        PROVE  \A r \in Run : status[r] = "INTERRUPTED" /\ status'[r] = "INTERRUPTED" =>
               \A i \in ItemsOf(r) : item'[i] = item[i]
    BY <1>8 DEF SealPlan, Holds, root, runs, items, graphs, invocation
  <1>9. ASSUME NEW p \in Proc, Releases(p)
        PROVE  \A r \in Run : status[r] = "INTERRUPTED" /\ status'[r] = "INTERRUPTED" =>
               \A i \in ItemsOf(r) : item'[i] = item[i]
    BY <1>9 DEF Releases, Release, Leave, Holds, root, runs, items, graphs, invocation
  <1>10. ASSUME NEW p \in Proc, ClaimPending(p)
        PROVE  \A r \in Run : status[r] = "INTERRUPTED" /\ status'[r] = "INTERRUPTED" =>
               \A i \in ItemsOf(r) : item'[i] = item[i]
    <2>1. status[of[p]] = "RUNNING" /\ \A i \in Item : PlanOf[i] # of[p] => item'[i] = item[i]
      BY <1>10 DEF ClaimPending, ItemsOf, Types, ItemsType
    <2> QED
      BY <2>1 DEF ItemsOf
  <1>11. ASSUME NEW p \in Proc, CompleteEbookItem(p)
        PROVE  \A r \in Run : status[r] = "INTERRUPTED" /\ status'[r] = "INTERRUPTED" =>
               \A i \in ItemsOf(r) : item'[i] = item[i]
    <2>1. PICK i \in Item, result \in Ended :
            Recorded(p, i, result, 0)
      BY <1>11, EbookRecords
    <2>2. status[PlanOf[i]] = "RUNNING" /\ status' = status
      BY <2>1 DEF Recorded, HandsAreClaimed
    <2>3. \A j \in Item \ {i} : item'[j] = item[j]
      BY <2>1 DEF Recorded, Types, ItemsType
    <2> QED
      BY <2>2, <2>3 DEF ItemsOf
  <1>12. ASSUME NEW p \in Proc, Prepare(p)
        PROVE  \A r \in Run : status[r] = "INTERRUPTED" /\ status'[r] = "INTERRUPTED" =>
               \A i \in ItemsOf(r) : item'[i] = item[i]
    BY <1>12 DEF Prepare, root, runs, items, graphs, invocation
  <1>13. ASSUME NEW p \in Proc, StoreGraph(p)
        PROVE  \A r \in Run : status[r] = "INTERRUPTED" /\ status'[r] = "INTERRUPTED" =>
               \A i \in ItemsOf(r) : item'[i] = item[i]
    BY <1>13 DEF StoreGraph, Holds, root, runs, items, graphs, invocation
  <1>14. ASSUME NEW p \in Proc, StoreFails(p)
        PROVE  \A r \in Run : status[r] = "INTERRUPTED" /\ status'[r] = "INTERRUPTED" =>
               \A i \in ItemsOf(r) : item'[i] = item[i]
    BY <1>14 DEF StoreFails, root, runs, items, graphs, invocation
  <1>15. ASSUME NEW p \in Proc, CompleteArchiveItem(p)
        PROVE  \A r \in Run : status[r] = "INTERRUPTED" /\ status'[r] = "INTERRUPTED" =>
               \A i \in ItemsOf(r) : item'[i] = item[i]
    <2>1. PICK i \in Item, result \in Ended, graph \in 0..MaxEpoch :
            Recorded(p, i, result, graph)
      BY <1>15, ArchiveRecords
    <2>2. status[PlanOf[i]] = "RUNNING" /\ status' = status
      BY <2>1 DEF Recorded, HandsAreClaimed
    <2>3. \A j \in Item \ {i} : item'[j] = item[j]
      BY <2>1 DEF Recorded, Types, ItemsType
    <2> QED
      BY <2>2, <2>3 DEF ItemsOf
  <1>16. CASE LeaseMoves
    BY <1>16 DEF LeaseMoves, root, runs, items, graphs, invocation
  <1> QED
    BY NextIsOne, <1>1, <1>2, <1>3, <1>4, <1>5, <1>6, <1>7, <1>8, <1>9,
       <1>10, <1>11, <1>12, <1>13, <1>14, <1>15, <1>16

(* The final status of a run stays true of its items.                      *)
LEMMA FinalStatusStaysTrue ==
    ASSUME Types, TokensAreOwn, InspectionsAreInHand, FindingsAreStored,
           HandsAreClaimed,
           AbsentRunsAreBare, SealedRunsAreWhole, FinalStatusIsTrue, Next
    PROVE  FinalStatusIsTrue'
  <1> DEFINE True(r) ==
        /\ status[r] = "COMPLETED" => \A i \in ItemsOf(r) : item[i] = "SUCCEEDED"
        /\ status[r] = "COMPLETED_WITH_FAILURES" =>
               /\ \A i \in ItemsOf(r) : item[i] \in Ended
               /\ \E i \in ItemsOf(r) : item[i] # "SUCCEEDED"
        /\ status[r] = "INTERRUPTED" /\ KindOf[r] = "ARCHIVE" =>
               \E i \in ItemsOf(r) : item[i] \in {"PENDING", "RUNNING"}
  <1>1. ASSUME NEW r \in Run
        PROVE  True(r)'
    <2>1. True(r)
      BY DEF FinalStatusIsTrue
    <2>2. CASE status'[r] = status[r]
      <3>1. \A i \in ItemsOf(r) : item[i] \in Ended => item'[i] = item[i]
        BY EndedItemsStay DEF ItemsOf
      <3>2. status[r] = "INTERRUPTED" => \A i \in ItemsOf(r) : item'[i] = item[i]
        BY <2>2, InterruptedRunsRest
      <3> QED
        BY <2>1, <2>2, <3>1, <3>2 DEF Ended, ItemsOf
    <2>3. CASE status'[r] \in {"RUNNING", "PLANNING", "FAILED"}
      BY <2>3
    <2>4. CASE status'[r] = "INTERRUPTED" /\ KindOf[r] = "EBOOK"
      BY <2>4
    <2>5. CASE status'[r] = Verdict(r) /\ status[r] = "RUNNING" /\ item' = item
      <3>1. Planned(r)
        BY <2>5 DEF SealedRunsAreWhole
      <3> QED
        BY <2>5, <3>1, VerdictIsTrue DEF ItemsOf
    <2> QED
      BY <2>2, <2>3, <2>4, <2>5, RunsEndByVerdict
  <1> QED
    BY <1>1 DEF FinalStatusIsTrue

(* At first nobody is at work, nothing is planned and nothing is stored.   *)
LEMMA InitIsGood ==
    ASSUME Init
    PROVE  Inv
  <1> USE CollectionAssumption DEF Init, NoEpoch
  <1>1. Types
    <2>1. RootType /\ RunsType
      <3>1. RootType
        <4>1. owner \in Run \cup {None} /\ epoch \in 0..MaxEpoch
          OBVIOUS
        <4>2. expired \in BOOLEAN
          BY Zenon
        <4> QED
          BY <4>1, <4>2 DEF RootType
      <3>2. status \in [Run -> {"ABSENT"} \cup Active \cup Final]
        OBVIOUS
      <3>3. sealed \in [Run -> BOOLEAN] /\ token \in [Run -> 0..MaxEpoch]
        OBVIOUS
      <3> QED
        BY <3>1, <3>2, <3>3 DEF RunsType
    <2>2. ItemsType /\ GraphsType
      BY DEF ItemsType, GraphsType, Epochs
    <2>3. ProcType
      BY DEF ProcType
    <2> QED
      BY <2>1, <2>2, <2>3 DEF Types
  <1>2. TokensAreOwn /\ RunAndLeaseAgree /\ AttemptsAreGranted
    BY DEF TokensAreOwn, Working, RunAndLeaseAgree, AttemptsAreGranted
  <1>3. PlansAreWhole
    BY DEF PlansAreWhole, AbsentRunsAreBare, SealedRunsAreWhole, ReadersSawTheRun
  <1>4. HandsAreClaimed /\ InspectionsAreInHand /\ FindingsAreStored
    BY DEF HandsAreClaimed, InspectionsAreInHand, FindingsAreStored
  <1>5. ResultIsOfTheLastAttempt /\ FinalStatusIsTrue /\ ResultsAreBacked /\ OneListing
    BY DEF ResultIsOfTheLastAttempt, FinalStatusIsTrue, ResultsAreBacked, OneListing,
       Ended
  <1> QED
    BY <1>1, <1>2, <1>3, <1>4, <1>5 DEF Inv, Inv1, Inv2, Inv3

(* A step that changes nothing keeps the whole.                            *)
LEMMA StutterKeeps ==
    ASSUME Inv, UNCHANGED vars
    PROVE  Inv'
  <1>1. /\ UNCHANGED <<owner, epoch, expired, status, sealed, token>>
        /\ UNCHANGED <<item, attempt, resultOf, bound, listed, unlisted>>
        /\ UNCHANGED <<pc, of, held, seen, hand, doing, found>>
    BY DEF vars, root, runs, items, graphs, invocation
  <1>2. Types'
    BY <1>1 DEF Inv, Types, RootType, RunsType, ItemsType, GraphsType, ProcType
  <1>3. Inv1'
    BY <1>1 DEF Inv, Inv1, TokensAreOwn, Working, RunAndLeaseAgree, AttemptsAreGranted,
                PlansAreWhole, AbsentRunsAreBare, SealedRunsAreWhole, ReadersSawTheRun,
                Planned, ItemsOf
  <1>4. Inv2'
    BY <1>1 DEF Inv, Inv2, HandsAreClaimed, InspectionsAreInHand, FindingsAreStored
  <1>5. Inv3'
    BY <1>1 DEF Inv, Inv3, ResultIsOfTheLastAttempt, FinalStatusIsTrue,
       ResultsAreBacked,
                OneListing, ItemsOf
  <1> QED
    BY <1>2, <1>3, <1>4, <1>5 DEF Inv

(* Every step keeps the whole.                                             *)
LEMMA NextKeeps ==
    ASSUME Inv, Next
    PROVE  Inv'
  <1>1. /\ Types /\ TokensAreOwn /\ RunAndLeaseAgree /\ AttemptsAreGranted /\ PlansAreWhole
        /\ AbsentRunsAreBare /\ SealedRunsAreWhole /\ ReadersSawTheRun
        /\ HandsAreClaimed /\ InspectionsAreInHand /\ FindingsAreStored
        /\ ResultIsOfTheLastAttempt /\ FinalStatusIsTrue /\ ResultsAreBacked /\ OneListing
    BY DEF Inv, Inv1, Inv2, Inv3, PlansAreWhole
  <1>2. Types'
    BY <1>1, RootStaysTyped, RunsStayTyped, ItemsStayTyped, GraphsStayTyped,
       ProcsStayTyped
       DEF Types
  <1>3. TokensAreOwn' /\ RunAndLeaseAgree' /\ AttemptsAreGranted'
    BY <1>1, TokensStayOwn, LeaseStaysTrue, AttemptsStayGranted
  <1>4. PlansAreWhole'
    <2>1. /\ \A r \in Run : Planned(r) => Planned(r)'
          /\ \A r \in Run : status[r] # "ABSENT" => status'[r] # "ABSENT"
      BY <1>1, RowsStay, RunsStay
    <2> QED
      BY <1>1, <2>1, AbsentRunsStayBare, SealedRunsStayWhole, ReadersSawTheRunStill
         DEF PlansAreWhole
  <1>5. HandsAreClaimed' /\ InspectionsAreInHand' /\ FindingsAreStored'
    BY <1>1, HandsStayClaimed, InspectionsStayInHand, FindingsStayStored
  <1>6. ResultIsOfTheLastAttempt' /\ FinalStatusIsTrue' /\ ResultsAreBacked' /\ OneListing'
    BY <1>1, ResultsStayOfTheLastAttempt, FinalStatusStaysTrue, ResultsStayBacked,
       ListingsStayOne
  <1> QED
    BY <1>2, <1>3, <1>4, <1>5, <1>6 DEF Inv, Inv1, Inv2, Inv3

(* In every state: the types, the tokens, the plans, what is in hand, and  *)
(* the properties that rest on them.                                       *)
THEOREM Inductive == Spec => []Inv
  <1>1. Inv /\ [Next]_vars => Inv'
    BY NextKeeps, StutterKeeps
  <1> QED
    BY InitIsGood, <1>1, PTL DEF Spec

(* Every variable keeps its type.                                          *)
THEOREM TypeCorrect == Spec => []TypeOK
  <1>1. Inv => TypeOK
    BY DEF Inv, TypeOK, Types, RootType, RunsType, ItemsType, GraphsType, ProcType
  <1> QED
    BY <1>1, Inductive, PTL

(* The root is held by the one run whose row carries the current token; a  *)
(* RUNNING run holds the root.                                             *)
THEOREM LeaseIsTrue == Spec => []RunAndLeaseAgree
  <1>1. Inv => RunAndLeaseAgree
    BY DEF Inv, Inv1
  <1> QED
    BY <1>1, Inductive, PTL

(* What an item ended with was computed in its last attempt, though a lapsed*)
(* invocation may still have it in hand.                                   *)
THEOREM ResultsAreOfTheLastAttempt == Spec => []ResultIsOfTheLastAttempt
  <1>1. Inv => ResultIsOfTheLastAttempt
    BY DEF Inv, Inv3
  <1> QED
    BY <1>1, Inductive, PTL

(* A run that ended has nothing open, and says truly whether all succeeded.*)
THEOREM FinalStatusesAreTrue == Spec => []FinalStatusIsTrue
  <1>1. Inv => FinalStatusIsTrue
    BY DEF Inv, Inv3
  <1> QED
    BY <1>1, Inductive, PTL

(* A finished archive item refers to a stored graph of its kind.           *)
THEOREM AllResultsAreBacked == Spec => []ResultsAreBacked
  <1>1. Inv => ResultsAreBacked
    BY DEF Inv, Inv3
  <1> QED
    BY <1>1, Inductive, PTL

(* An archive has at most one stored listing.                              *)
THEOREM ListingsAreUnique == Spec => []OneListing
  <1>1. Inv => OneListing
    BY DEF Inv, Inv3
  <1> QED
    BY <1>1, Inductive, PTL

(* A finished item is never worked on again.                               *)
THEOREM ItemsStayFinished == Spec => FinishedItemsStay
  <1> DEFINE Stay == \A i \in Item : item[i] \in Ended =>
                        /\ item'[i] = item[i] /\ attempt'[i] = attempt[i]
                        /\ bound'[i] = bound[i]
  <1>1. Inv /\ [Next]_vars => [Stay]_vars
    <2> SUFFICES ASSUME Inv, Next PROVE Stay
      OBVIOUS
    <2>1. Types /\ InspectionsAreInHand /\ FindingsAreStored /\ AbsentRunsAreBare
      BY DEF Inv, Inv1, Inv2, PlansAreWhole
    <2> QED
      BY <2>1, EndedItemsStay
  <1> QED
    BY <1>1, Inductive, PTL DEF Spec, FinishedItemsStay

==============================================================================
