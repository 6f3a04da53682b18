---------------------------- MODULE CollectionRuns ----------------------------
(***************************************************************************)
(* The resumable runs that analyse a whole collection: e-book runs         *)
(* (workflows/collection.py, persistence/ebook_collection.py; ADR-0021)    *)
(* and archive runs (workflows/archive_collection.py and                   *)
(* archive_collection_plan.py, persistence/archive_collection.py;          *)
(* ADR-0053).  A run has a plan of items; an invocation acquires the       *)
(* write lease of the ScanRoot for the run, claims pending items in        *)
(* waves, completes each of them, and gives the lease back.  A run whose   *)
(* invocation stopped is resumed by another one, with a new token.  Both   *)
(* kinds compete for the lease of one root.                                *)
(*                                                                         *)
(* Every write carries the token of its grant and first updates the lease  *)
(* row where token, epoch and owner still match and the lease ends after   *)
(* the caller's clock.  The clock is read before the transaction, so an    *)
(* owner's write may still commit after the lease has run out, but not     *)
(* after somebody else took it.  The driver opens a transaction at the     *)
(* first write: what acquire_resume reads of the run before that is a      *)
(* step of its own.                                                        *)
(*                                                                         *)
(* An archive item ends with a graph of what was found in the archive,     *)
(* stored before the item is completed.  A graph is named by the epoch of  *)
(* the lease it was written under.                                         *)
(***************************************************************************)
EXTENDS Integers, FiniteSets

CONSTANTS
    Run,          \* the runs that can be started on this root
    KindOf,       \* run -> "EBOOK" or "ARCHIVE"
    Item,         \* the items of their plans
    PlanOf,       \* item -> its run
    ClaimLimit,   \* items claimed at once, at most
    Proc,         \* processes, each with at most one invocation at a time
    MaxEpoch,     \* bound: grants of the lease
    None

ASSUME CollectionAssumption ==
    /\ KindOf \in [Run -> {"EBOOK", "ARCHIVE"}]
    /\ PlanOf \in [Item -> Run]
    /\ ClaimLimit \in Nat \ {0} /\ MaxEpoch \in Nat
    /\ None \notin Run \cup Item

VARIABLES
    owner,        \* scan_root_write_leases: the run that holds the root
    epoch,        \* its fence epoch; every grant has a token of its own
    expired,      \* its end has passed
    status,       \* run -> status of its row
    sealed,       \* run -> its plan is sealed (plan_content_hash)
    token,        \* run -> lease token of its row, named by its epoch
    item,         \* item -> status of its row
    attempt,      \* item -> attempt_count
    resultOf,     \* history: item -> attempt its result was computed in
    bound,        \* item -> graph its row refers to
    listed,       \* archive item -> stored graphs that list its archive
    unlisted,     \* archive item -> stored graphs of a failed listing
    pc,           \* process -> where its invocation is
    of,           \* process -> run of the invocation
    held,         \* process -> token it was given
    seen,         \* process -> sealed, as read before the resume's first write
    hand,         \* process -> attempts it claimed, by item
    doing,        \* process -> archive item under inspection
    found         \* process -> what was found

root == <<owner, epoch, expired>>
runs == <<status, sealed, token>>
items == <<item, attempt, resultOf, bound>>
graphs == <<listed, unlisted>>
invocation == <<pc, of, held, seen, hand, doing, found>>
vars == <<root, runs, items, graphs, invocation>>

Epochs == 1..MaxEpoch
NoEpoch == 0
ItemsOf(r) == {i \in Item : PlanOf[i] = r}
Ended == {"SUCCEEDED", "FAILED", "ERROR"}              \* of an item
Final == {"COMPLETED", "COMPLETED_WITH_FAILURES", "FAILED"}  \* of a run
Active == {"PLANNING", "RUNNING", "INTERRUPTED"}

Init ==
    /\ owner = None /\ epoch = 0 /\ expired = FALSE
    /\ status = [r \in Run |-> "ABSENT"]
    /\ sealed = [r \in Run |-> FALSE]
    /\ token = [r \in Run |-> NoEpoch]
    /\ item = [i \in Item |-> "UNPLANNED"]
    /\ attempt = [i \in Item |-> 0]
    /\ resultOf = [i \in Item |-> 0]
    /\ bound = [i \in Item |-> NoEpoch]
    /\ listed = [i \in Item |-> {}]
    /\ unlisted = [i \in Item |-> {}]
    /\ pc = [p \in Proc |-> "idle"]
    /\ of = [p \in Proc |-> None]
    /\ held = [p \in Proc |-> NoEpoch]
    /\ seen = [p \in Proc |-> FALSE]
    /\ hand = [p \in Proc |-> [i \in Item |-> 0]]
    /\ doing = [p \in Proc |-> None]
    /\ found = [p \in Proc |-> "NOTHING"]

-----------------------------------------------------------------------------
HoldsForRun(p) ==
    /\ pc[p] \in {"plan", "drifted", "work", "prepared", "stored"}
    /\ owner = of[p]

\* What the fence and the run's own row say of p's token.
Holds(p) ==
    /\ pc[p] \in {"plan", "drifted", "work", "prepared", "stored"}
    /\ owner = of[p] /\ epoch = held[p] /\ token[of[p]] = held[p]

InHand(p) == {i \in Item : hand[p][i] > 0}

\* At most one archive run of a root may be in these states (unique index).
NoOtherActive(r) ==
    KindOf[r] = "ARCHIVE" =>
        \A s \in Run \ {r} : KindOf[s] = "ARCHIVE" => status[s] \notin Active

\* Gives the lease to run r for process p, which goes on at `at`.
Grant(p, r, at) ==
    /\ epoch < MaxEpoch
    /\ owner' = r /\ epoch' = epoch + 1 /\ expired' = FALSE
    /\ token' = [token EXCEPT ![r] = epoch + 1]
    /\ pc' = [pc EXCEPT ![p] = at]
    /\ of' = [of EXCEPT ![p] = r]
    /\ held' = [held EXCEPT ![p] = epoch + 1]
    /\ UNCHANGED <<seen, hand, doing, found>>

\* Takes run r to `to` and gives the lease back.
Release(r, to) ==
    /\ status' = [status EXCEPT ![r] = to]
    /\ token' = [token EXCEPT ![r] = NoEpoch]
    /\ owner' = None /\ expired' = FALSE
    /\ UNCHANGED <<epoch, sealed>>

\* Ends the invocation of p, which forgets what it had.
Leave(p) ==
    /\ pc' = [pc EXCEPT ![p] = "idle"]
    /\ of' = [of EXCEPT ![p] = None]
    /\ held' = [held EXCEPT ![p] = NoEpoch]
    /\ seen' = [seen EXCEPT ![p] = FALSE]
    /\ hand' = [hand EXCEPT ![p] = [i \in Item |-> 0]]
    /\ doing' = [doing EXCEPT ![p] = None]
    /\ found' = [found EXCEPT ![p] = "NOTHING"]

-----------------------------------------------------------------------------
\* create_run: lease, run and whole plan of an e-book run in one transaction.
StartEbook(p, r) ==
    /\ pc[p] = "idle" /\ KindOf[r] = "EBOOK" /\ status[r] = "ABSENT"
    /\ owner = None
    /\ Grant(p, r, "work")
    /\ status' = [status EXCEPT ![r] = "RUNNING"]
    /\ sealed' = [sealed EXCEPT ![r] = TRUE]
    /\ item' = [i \in Item |-> IF PlanOf[i] = r THEN "PENDING" ELSE item[i]]
    /\ UNCHANGED <<attempt, resultOf, bound, graphs>>

\* create_planning_run: lease and run; the plan follows in batches.
StartArchive(p, r) ==
    /\ pc[p] = "idle" /\ KindOf[r] = "ARCHIVE" /\ status[r] = "ABSENT"
    /\ owner = None /\ NoOtherActive(r)
    /\ Grant(p, r, "plan")
    /\ status' = [status EXCEPT ![r] = "PLANNING"]
    /\ UNCHANGED <<sealed, items, graphs>>

\* acquire_resume up to its first write: the run is read and found open.
ReadRun(p, r) ==
    /\ pc[p] = "idle"
    /\ status[r] \notin Final \cup {"ABSENT"}
    /\ KindOf[r] = "EBOOK" /\ token[r] # NoEpoch => expired
    /\ pc' = [pc EXCEPT ![p] = "resuming"]
    /\ of' = [of EXCEPT ![p] = r]
    /\ seen' = [seen EXCEPT ![p] = sealed[r]]
    /\ UNCHANGED <<root, runs, items, graphs, held, hand, doing, found>>

\* An item that a resume puts back.
Orphaned(i) == item[i] = "RUNNING"

\* The row as it was read, opened again: what acquire_resume writes back.
Reopen(p, r) ==
    /\ status' = [status EXCEPT ![r] = IF seen[p] THEN "RUNNING" ELSE "PLANNING"]
    /\ sealed' = [sealed EXCEPT ![r] = seen[p]]

\* The rest of acquire_resume: takes a free lease or the run's own expired
\* one, puts its running items back and writes the run row.
Resume(p) ==
    LET r == of[p] IN
    /\ pc[p] = "resuming"
    /\ owner \in {None, r} /\ (owner = r => expired) /\ NoOtherActive(r)
    /\ Grant(p, r, IF seen[p] THEN "work" ELSE "plan")
    /\ Reopen(p, r)
    /\ item' = [i \in Item |->
                  IF PlanOf[i] = r /\ Orphaned(i) /\ seen[p]
                    THEN "PENDING" ELSE item[i]]
    /\ UNCHANGED <<attempt, resultOf, bound, graphs>>

\* acquire_resume fails: another writer owns the root, or the database does.
ResumeFails(p) ==
    /\ pc[p] = "resuming"
    /\ Leave(p)
    /\ UNCHANGED <<root, runs, items, graphs>>

-----------------------------------------------------------------------------
\* The plan enumerated again matches the rows that are there.
PlanMatches(r) ==
    \A i \in ItemsOf(r) :
        item[i] # "UNPLANNED" => item[i] = "PENDING" /\ attempt[i] = 0

\* append_plan_batch: batches of one item.
AppendPlanBatch(p) ==
    /\ pc[p] = "plan" /\ Holds(p) /\ status[of[p]] = "PLANNING"
    /\ PlanMatches(of[p])
    /\ \E i \in ItemsOf(of[p]) :
         /\ item[i] = "UNPLANNED"
         /\ item' = [item EXCEPT ![i] = "PENDING"]
    /\ UNCHANGED <<root, runs, attempt, resultOf, bound, graphs,
                   invocation>>

\* append_plan_batch finds a row that differs from the plan.
PlanDrifts(p) ==
    /\ pc[p] = "plan" /\ Holds(p)
    /\ ~PlanMatches(of[p])
    /\ pc' = [pc EXCEPT ![p] = "drifted"]
    /\ UNCHANGED <<root, runs, items, graphs, of, held, seen, hand, doing, found>>

\* seal_plan: all rows are there; the plan is executable from now on.
SealPlan(p) ==
    LET r == of[p] IN
    /\ pc[p] = "plan" /\ Holds(p) /\ status[r] = "PLANNING"
    /\ PlanMatches(r)
    /\ \A i \in ItemsOf(r) : item[i] # "UNPLANNED"
    /\ status' = [status EXCEPT ![r] = "RUNNING"]
    /\ sealed' = [sealed EXCEPT ![r] = TRUE]
    /\ pc' = [pc EXCEPT ![p] = "work"]
    /\ UNCHANGED <<root, token, items, graphs, of, held, seen, hand,
                   doing, found>>

\* fail_planning, after a drift.
FailPlanning(p) ==
    /\ pc[p] = "drifted" /\ Holds(p) /\ status[of[p]] = "PLANNING"
    /\ Release(of[p], "FAILED")
    /\ Leave(p)
    /\ UNCHANGED <<items, graphs>>

-----------------------------------------------------------------------------
\* claim_pending: a wave of pending items, each with its next attempt.
ClaimPending(p) ==
    LET r == of[p] IN
    /\ pc[p] = "work" /\ Holds(p) /\ status[r] = "RUNNING" /\ InHand(p) = {}
    /\ \E wave \in SUBSET {i \in ItemsOf(r) : item[i] = "PENDING"} :
         /\ wave # {} /\ Cardinality(wave) <= ClaimLimit
         /\ item' = [i \in Item |-> IF i \in wave THEN "RUNNING" ELSE item[i]]
         /\ attempt' = [i \in Item |-> attempt[i] + (IF i \in wave THEN 1 ELSE 0)]
         /\ hand' = [hand EXCEPT ![p] =
                       [i \in Item |-> IF i \in wave THEN attempt[i] + 1 ELSE 0]]
    /\ UNCHANGED <<root, runs, resultOf, bound, graphs, pc, of, held,
                   seen, doing, found>>

\* Writes the result of item i, which p claimed, and drops it from its hand.
Record(p, i, result, graph) ==
    /\ item[i] = "RUNNING"
    /\ item' = [item EXCEPT ![i] = result]
    /\ resultOf' = [resultOf EXCEPT ![i] = hand[p][i]]
    /\ bound' = [bound EXCEPT ![i] = graph]
    /\ hand' = [hand EXCEPT ![p][i] = 0]
    /\ UNCHANGED attempt

\* complete_item of an e-book run: the analyses of a wave run in threads and
\* end in any order; the row that is RUNNING now is the one completed.
CompleteEbookItem(p) ==
    /\ pc[p] = "work" /\ KindOf[of[p]] = "EBOOK"
    /\ Holds(p) /\ status[of[p]] = "RUNNING"
    /\ \E i \in InHand(p), result \in Ended : Record(p, i, result, NoEpoch)
    /\ UNCHANGED <<root, runs, graphs, pc, of, held, seen, doing, found>>

\* _prepare_item: looks for one stored listing of the archive, else inspects
\* it; a changed source, an ambiguous listing or a failed adapter is an ERROR.
Prepare(p) ==
    /\ pc[p] = "work" /\ KindOf[of[p]] = "ARCHIVE"
    /\ \E i \in InHand(p), what \in {"REUSED", "LISTED", "UNLISTED", "ERROR"} :
         /\ what = "REUSED" => Cardinality(listed[i]) = 1
         /\ what \in {"LISTED", "UNLISTED"} => listed[i] = {}
         /\ doing' = [doing EXCEPT ![p] = i]
         /\ found' = [found EXCEPT ![p] = what]
    /\ pc' = [pc EXCEPT ![p] = "prepared"]
    /\ UNCHANGED <<root, runs, items, graphs, of, held, seen, hand>>

\* owned_write_lease and create_or_get: stores the graph of an inspection.
StoreGraph(p) ==
    LET i == doing[p] IN
    /\ pc[p] = "prepared" /\ Holds(p)
    /\ \/ /\ found[p] = "LISTED"
          /\ listed' = [listed EXCEPT ![i] = @ \cup {held[p]}]
          /\ UNCHANGED unlisted
       \/ /\ found[p] = "UNLISTED"
          /\ unlisted' = [unlisted EXCEPT ![i] = @ \cup {held[p]}]
          /\ UNCHANGED listed
    /\ pc' = [pc EXCEPT ![p] = "stored"]
    /\ UNCHANGED <<root, runs, items, of, held, seen, hand, doing, found>>

\* create_or_get fails: the item is to be completed with PERSISTENCE_ERROR.
StoreFails(p) ==
    /\ pc[p] = "prepared" /\ found[p] \in {"LISTED", "UNLISTED"}
    /\ found' = [found EXCEPT ![p] = "ERROR"]
    /\ UNCHANGED <<root, runs, items, graphs, pc, of, held, seen, hand, doing>>

ResultUnderOwnToken(p) ==
    CASE found[p] = "ERROR"              -> <<"ERROR", NoEpoch>>
      [] found[p] \in {"REUSED", "LISTED"} -> <<"SUCCEEDED", held[p]>>
      [] found[p] = "UNLISTED"           -> <<"FAILED", held[p]>>

\* What a prepared item is completed with: status and graph.
ResultOf(p) ==
    CASE found[p] = "ERROR"    -> <<"ERROR", NoEpoch>>
      [] found[p] = "REUSED"   -> <<"SUCCEEDED", CHOOSE g \in listed[doing[p]] : TRUE>>
      [] found[p] = "LISTED"   -> <<"SUCCEEDED", held[p]>>
      [] found[p] = "UNLISTED" -> <<"FAILED", held[p]>>

\* complete_item of an archive run: only the very attempt that was claimed.
CompleteArchiveItem(p) ==
    LET i == doing[p] IN
    /\ \/ pc[p] = "prepared" /\ found[p] \in {"REUSED", "ERROR"}
       \/ pc[p] = "stored"
    /\ Holds(p) /\ status[of[p]] = "RUNNING"
    /\ attempt[i] = hand[p][i]
    /\ Record(p, i, ResultOf(p)[1], ResultOf(p)[2])
    /\ pc' = [pc EXCEPT ![p] = "work"]
    /\ doing' = [doing EXCEPT ![p] = None]
    /\ found' = [found EXCEPT ![p] = "NOTHING"]
    /\ UNCHANGED <<root, runs, graphs, of, held, seen>>

-----------------------------------------------------------------------------
VerdictWithoutErrors(r) ==
    LET are == {item[i] : i \in ItemsOf(r)}
    IN  IF are \cap {"PENDING", "RUNNING"} # {} THEN "INTERRUPTED"
        ELSE IF "FAILED" \in are THEN "COMPLETED_WITH_FAILURES"
        ELSE "COMPLETED"

\* What finish_invocation makes of a run: open items leave it resumable.
Verdict(r) ==
    LET are == {item[i] : i \in ItemsOf(r)}
    IN  IF are \cap {"PENDING", "RUNNING"} # {} THEN "INTERRUPTED"
        ELSE IF are \cap {"FAILED", "ERROR"} # {} THEN "COMPLETED_WITH_FAILURES"
        ELSE "COMPLETED"

\* finish_invocation: after the last wave, at the limit of items, or, for an
\* archive run, when it was cancelled with items in hand.
FinishInvocation(p) ==
    LET r == of[p] IN
    /\ pc[p] = "work" /\ Holds(p) /\ status[r] = "RUNNING"
    /\ KindOf[r] = "EBOOK" => InHand(p) = {}
    /\ Release(r, Verdict(r))
    /\ Leave(p)
    /\ UNCHANGED <<items, graphs>>

\* finish_invocation of a run that is still being planned.
FinishPlanning(p) ==
    /\ pc[p] = "plan" /\ Holds(p) /\ status[of[p]] = "PLANNING"
    /\ Release(of[p], "PLANNING")
    /\ Leave(p)
    /\ UNCHANGED <<items, graphs>>

\* fail_invocation: an e-book invocation was interrupted or failed.
FailInvocation(p) ==
    LET r == of[p] IN
    /\ pc[p] = "work" /\ KindOf[r] = "EBOOK" /\ Holds(p) /\ status[r] = "RUNNING"
    /\ Release(r, "INTERRUPTED")
    /\ Leave(p)
    /\ UNCHANGED <<items, graphs>>

RefusedWhenOver(p) ==
    /\ Holds(p) /\ expired
    /\ Leave(p)
    /\ UNCHANGED <<root, runs, items, graphs>>

\* A write is refused because the lease is lost or over: the invocation ends
\* and leaves everything as it is.
Refused(p) ==
    /\ pc[p] \notin {"idle", "resuming"}
    /\ ~Holds(p) \/ expired
    /\ Leave(p)
    /\ UNCHANGED <<root, runs, items, graphs>>

\* The process is killed, or a database error ends an archive invocation.
Stops(p) ==
    /\ pc[p] # "idle"
    /\ Leave(p)
    /\ UNCHANGED <<root, runs, items, graphs>>

\* heartbeat, of the e-book keeper thread or between archive steps.
Heartbeat(p) ==
    /\ Holds(p) /\ expired
    /\ expired' = FALSE
    /\ UNCHANGED <<owner, epoch, runs, items, graphs, invocation>>

LeaseExpires ==
    /\ owner # None /\ ~expired
    /\ expired' = TRUE
    /\ UNCHANGED <<owner, epoch, runs, items, graphs, invocation>>

\* What an invocation does by itself, once it was started.
Step(p) ==
    \/ Resume(p) \/ ResumeFails(p)
    \/ AppendPlanBatch(p) \/ PlanDrifts(p) \/ SealPlan(p) \/ FailPlanning(p)
    \/ ClaimPending(p) \/ CompleteEbookItem(p)
    \/ Prepare(p) \/ StoreGraph(p) \/ StoreFails(p) \/ CompleteArchiveItem(p)
    \/ FinishInvocation(p) \/ FinishPlanning(p) \/ Refused(p)

Next ==
    \/ \E p \in Proc, r \in Run : StartEbook(p, r) \/ StartArchive(p, r) \/ ReadRun(p, r)
    \/ \E p \in Proc : Step(p) \/ FailInvocation(p) \/ Stops(p) \/ Heartbeat(p)
    \/ LeaseExpires

Spec == Init /\ [][Next]_vars

\* Nobody has to start or resume a run; an invocation that is under way and
\* not killed goes on.
FairSpec == Spec /\ \A p \in Proc : WF_vars(Step(p))

-----------------------------------------------------------------------------
TypeOK ==
    /\ owner \in Run \cup {None} /\ epoch \in 0..MaxEpoch /\ expired \in BOOLEAN
    /\ status \in [Run -> {"ABSENT"} \cup Active \cup Final]
    /\ sealed \in [Run -> BOOLEAN]
    /\ token \in [Run -> 0..MaxEpoch]
    /\ item \in [Item -> {"UNPLANNED", "PENDING", "RUNNING"} \cup Ended]
    /\ attempt \in [Item -> 0..MaxEpoch] /\ resultOf \in [Item -> 0..MaxEpoch]
    /\ bound \in [Item -> 0..MaxEpoch]
    /\ listed \in [Item -> SUBSET Epochs] /\ unlisted \in [Item -> SUBSET Epochs]
    /\ pc \in [Proc -> {"idle", "resuming", "plan", "drifted", "work", "prepared",
                        "stored"}]
    /\ of \in [Proc -> Run \cup {None}]
    /\ held \in [Proc -> 0..MaxEpoch]
    /\ seen \in [Proc -> BOOLEAN]
    /\ hand \in [Proc -> [Item -> 0..MaxEpoch]]
    /\ doing \in [Proc -> Item \cup {None}]
    /\ found \in [Proc -> {"NOTHING", "REUSED", "LISTED", "UNLISTED", "ERROR"}]

\* The lease row and the run rows tell the same story: the root is held by
\* the one run whose row carries the current token, that run is being worked
\* on, and a RUNNING run holds the root.
RunAndLeaseAgree ==
    \A r \in Run :
        /\ owner = r <=> token[r] # NoEpoch
        /\ owner = r => token[r] = epoch /\ status[r] \in {"PLANNING", "RUNNING"}
        /\ status[r] = "RUNNING" => owner = r

\* No result of an invocation that lost its lease reaches an item which a
\* later invocation is working on, or finished: what an item ended with was
\* computed in its last attempt.
ResultIsOfTheLastAttempt ==
    \A i \in Item : item[i] \in Ended => resultOf[i] = attempt[i]

\* A run ends only when nothing is open, and says truly whether everything
\* succeeded, also when its items were done by several invocations.
FinalStatusIsTrue ==
    \A r \in Run :
        /\ status[r] = "COMPLETED" => \A i \in ItemsOf(r) : item[i] = "SUCCEEDED"
        /\ status[r] = "COMPLETED_WITH_FAILURES" =>
               /\ \A i \in ItemsOf(r) : item[i] \in Ended
               /\ \E i \in ItemsOf(r) : item[i] # "SUCCEEDED"
        /\ status[r] = "INTERRUPTED" /\ KindOf[r] = "ARCHIVE" =>
               \E i \in ItemsOf(r) : item[i] \in {"PENDING", "RUNNING"}

\* An archive item refers to a stored graph of the kind its status claims,
\* whatever happened between storing the graph and completing the item.
ResultsAreBacked ==
    \A i \in Item :
        KindOf[PlanOf[i]] = "ARCHIVE" =>
            /\ item[i] = "SUCCEEDED" => bound[i] \in listed[i]
            /\ item[i] = "FAILED" => bound[i] \in unlisted[i]
            /\ item[i] \notin {"SUCCEEDED", "FAILED"} => bound[i] = NoEpoch

\* An archive has at most one stored listing, so the search for one to reuse
\* is never ambiguous: a listing left by a killed invocation is found again,
\* and one of an invocation that lost its lease is not stored.
OneListing == \A i \in Item : \A g, h \in listed[i] : g = h

\* A finished item is never worked on again, neither by a resume nor by an
\* invocation that claimed it before.
FinishedItemsStay ==
    [][\A i \in Item :
          item[i] \in Ended =>
              /\ item'[i] = item[i] /\ attempt'[i] = attempt[i]
              /\ bound'[i] = bound[i]]_vars

\* Every invocation comes to an end, also one that lost its lease while it
\* was at work.
EveryInvocationEnds == \A p \in Proc : pc[p] # "idle" ~> pc[p] = "idle"

=============================================================================
