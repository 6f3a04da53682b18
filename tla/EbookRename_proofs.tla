-------------------------- MODULE EbookRename_proofs --------------------------
(***************************************************************************)
(* For any number of processes, faults and foreign scans: the types and    *)
(* the length of the journal (TypeCorrect); the journal tells where the    *)
(* book is (JournalIsTrue), the index agrees with a verdict                *)
(* (VerdictIsIndexed) and a terminal run moves nothing (TerminalIsFinal)    *)
(* if nobody is suspended between its last check and its rename for longer *)
(* than the mutation window; the rename succeeds once (RenamedOnce) and    *)
(* the index waits for the verdict (IndexWaits) if in addition no          *)
(* transaction fails for another reason than the fence.                    *)
(*                                                                         *)
(* First every action is summarised by its effect: the steps that only     *)
(* move a call on (Paces), the steps that take, give back or lose the      *)
(* lease, and the steps of the scans.  Each part of the invariant is then  *)
(* proved once per effect.  The argument is about the lease: whoever is    *)
(* about to rename has it, fresh, so that nobody else journals meanwhile;  *)
(* an expired lease means an expired authorization, so that whoever takes  *)
(* the run over can only go back.                                          *)
(***************************************************************************)
EXTENDS EbookRename, TLAPS

(* The type of every variable.                                             *)
Types ==
    /\ place \in [Name -> Content]
    /\ rec \in [Name -> FileRecord]
    /\ planned \in BOOLEAN /\ authorized \in BOOLEAN
    /\ lease \in Lease
    /\ events \in Seq(Status)
    /\ job \in [Proc -> Job]
    /\ scan \in Scan
    /\ scans \subseteq Seen
    /\ forwards \in Nat
    /\ faults \in 0..MaxFaults /\ meddles \in 0..MaxMeddles
    /\ foreign \in 0..MaxForeign

(* A process goes to a step of its own call.                               *)
Becomes(p, step, then) ==
    /\ job' \in [Proc -> Job]
    /\ job'[p].pc = step
    /\ job'[p].then = then
    /\ job'[p].known = job[p].known
    /\ \A q \in Proc \ {p} : job'[q] = job[q]

(* What Goto does to the calls.                                            *)
LEMMA GotoEffect ==
  ASSUME job \in [Proc -> Job], NEW p \in Proc, NEW step \in Step, Goto(p, step)
  PROVE  Becomes(p, step, job[p].then)
  BY DEF Goto, Becomes, Job

(* What CloseThen does to the calls.                                       *)
LEMMA CloseEffect ==
  ASSUME job \in [Proc -> Job], NEW p \in Proc, NEW step \in {"idle", "reconcile"},
         CloseThen(p, step)
  PROVE  Becomes(p, "closing", step)
  BY DEF CloseThen, Becomes, Job, Step

(* What Dispatch does to the calls.                                        *)
LEMMA AttemptEffect ==
  ASSUME job \in [Proc -> Job], NEW p \in Proc, NEW step \in Step, NEW a \in BOOLEAN,
         job' = [job EXCEPT ![p].attempt = a, ![p].pc = step]
  PROVE  Becomes(p, step, job[p].then)
  <1> DEFINE one == [job EXCEPT ![p].attempt = a]
  <1>1. /\ one \in [Proc -> Job]
        /\ one[p].then = job[p].then /\ one[p].known = job[p].known
        /\ \A q \in Proc \ {p} : one[q] = job[q]
    BY DEF Job
  <1>2. job' = [one EXCEPT ![p].pc = step]
    OBVIOUS
  <1> HIDE DEF one
  <1>3. one[p] \in Job /\ [one[p] EXCEPT !.pc = step] \in Job
    BY <1>1 DEF Job
  <1>4. job' = [one EXCEPT ![p] = [one[p] EXCEPT !.pc = step]]
    BY <1>2
  <1>5. job' \in [Proc -> Job] /\ job'[p] = [one[p] EXCEPT !.pc = step]
    BY <1>1, <1>3, <1>4
  <1>6. job'[p].pc = step /\ job'[p].then = one[p].then /\ job'[p].known = one[p].known
    BY <1>3, <1>5 DEF Job
  <1>7. \A q \in Proc \ {p} : job'[q] = one[q]
    BY <1>1, <1>4
  <1> QED
    BY <1>1, <1>5, <1>6, <1>7 DEF Becomes

(* The latest status is one, and legal successors are statuses.            *)
LEMMA StatusFacts ==
  ASSUME events \in Seq(Status)
  PROVE  /\ Latest \in Status \cup {"none"}
         /\ events = <<>> <=> Latest = "none"
         /\ \A s \in Status : Transitions[s] \subseteq Status
         /\ "none" \notin Status
         /\ Len(events) \in Nat
  BY DEF Latest, Status, Transitions

(* What an appended event does to the journal.                             *)
LEMMA AppendEffect ==
  ASSUME events \in Seq(Status), NEW s \in Status, events' = Append(events, s)
  PROVE  /\ events' \in Seq(Status)
         /\ Latest' = s
         /\ Len(events') = Len(events) + 1
         /\ \A x : Journaled(x)' <=> Journaled(x) \/ x = s
  <1>1. /\ events' \in Seq(Status)
        /\ Len(events') = Len(events) + 1
        /\ events'[Len(events) + 1] = s
        /\ \A i \in 1..Len(events) : events'[i] = events[i]
        /\ Len(events) \in Nat
    OBVIOUS
  <1>2. Latest' = s
    BY <1>1 DEF Latest
  <1>3. \A x : Journaled(x)' <=> Journaled(x) \/ x = s
    BY <1>1 DEF Journaled
  <1> QED
    BY <1>1, <1>2, <1>3

(* The journal says what it said.                                          *)
LEMMA JournalSame ==
  ASSUME events' = events
  PROVE  Latest' = Latest /\ Forward' = Forward /\ \A x : Journaled(x)' = Journaled(x)
  BY DEF Latest, Forward, Journaled

(* Steps of a call between two of its transactions or system calls.        *)
Working == {"ready", "gate", "armed", "moved", "relocated", "salvage", "recover",
            "reverseArmed", "reversed", "reverseJournaled", "manual", "handoff",
            "confirm"}
(* Steps after the rename that lead to RECOVERY_RELOCATED or MANUAL.       *)
Aftermath == {"moved", "salvage", "reverseArmed", "reversed", "manual"}
Undecided == {"PREPARED", "RELOCATED"}
Late == {"SCAN_HANDOFF", "VERIFIED", "RECOVERED", "MANUAL"}

(* Where a step of a call goes, and what it has seen on the way.           *)
Course(p, from, to) ==
    /\ \/ from \in {"start", "reconcile", "evidence"} /\ to = "idle"
       \/ from = "leased" /\ to = "closing"
       \/ from \in Working /\ to \in (Working \ {"ready", "confirm"}) \cup {"closing"}
    /\ to = "gate" => from = "ready" /\ Latest = "PREPARED" /\ authorized
    /\ to = "armed" => from = "gate" /\ GateOpen(p) /\ AtSource
    /\ to = "reverseArmed" => CanWrite(p) /\ Reversible
    /\ to = "reversed" => /\ from = "reverseArmed" /\ AtTarget
                           /\ place' = Moved("target", "source")
    /\ to \in {"gate", "armed", "reverseArmed", "reversed"} => events' = events
    /\ to = "armed" \/ to = "reverseArmed" => place' = place
    /\ "db" \notin Faults /\ CanWrite(p) =>
          /\ to = "closing" => from \in {"leased", "gate", "confirm"}
                               \/ Latest' \notin Undecided
          /\ from \in Aftermath /\ Latest' = "PREPARED" => to \in Aftermath

(* A step of a call that takes nothing: neither lease nor scan.            *)
Walks(p) ==
    /\ UNCHANGED <<rec, lease, scan, scans, planned, authorized, meddles, foreign>>
    /\ faults' \in 0..MaxFaults
    /\ job' \in [Proc -> Job]
    /\ job'[p].known = job[p].known
    /\ \A q \in Proc \ {p} : job'[q] = job[q]
    /\ Course(p, job[p].pc, job'[p].pc)
    /\ job'[p].then = "reconcile" => \/ job[p].then = "reconcile"
                                     \/ Latest' \in Late /\ job[p].pc \in Working

(* What has been seen of the files before a status is journaled.           *)
Evidence(p, s) ==
    /\ s = "IMMEDIATE_VERIFIED" => AtTarget
    /\ s = "RECOVERY_RELOCATED" => Pc(p) = "reversed"
    /\ s \in {"RECOVERY_VERIFIED", "CANCELLED"} => AtSource
    /\ s = "VERIFIED" => Forward /\ AtTarget /\ \E seen \in scans : Proves(seen)
    /\ s = "RECOVERED" => ~Forward /\ AtSource /\ \E seen \in scans : Proves(seen)

Appends(p, s) ==
    /\ Pc(p) \in Working
    /\ CanWrite(p) /\ s \in Transitions[Latest]
    /\ events' = Append(events, s)
    /\ UNCHANGED <<place, forwards>>
    /\ Evidence(p, s)

(* What a step does to the journal and to the two names.                   *)
Writes(p) == events' = events \/ \E s \in Status : Appends(p, s)

MovesForward(p) ==
    /\ Pc(p) = "armed" /\ Movable("source", "target")
    /\ place' = Moved("source", "target") /\ forwards' = forwards + 1
    /\ job'[p].pc \in {"moved", "salvage"} /\ events' = events

MovesBack(p) ==
    /\ Pc(p) = "reverseArmed" /\ AtTarget
    /\ place' = Moved("target", "source") /\ forwards' = forwards
    /\ job'[p].pc \in {"reversed", "manual"} /\ events' = events

Moves(p) == UNCHANGED <<place, forwards>> \/ MovesForward(p) \/ MovesBack(p)

Paces(p) == Walks(p) /\ Writes(p) /\ Moves(p)

(* The steps of the operator that are of this kind.                        *)
Pace(p) ==
    \/ Dispatch(p) \/ OperatorFails(p) \/ Gate(p) \/ GateFails(p)
    \/ RenameForward(p) \/ RenameForwardFails(p)
    \/ JournalRelocated(p) \/ VerifyForward(p)
    \/ Recover(p) \/ RecoverFencedOut(p) \/ RecoverFails(p)
    \/ RenameReverse(p) \/ RenameReverseFails(p)
    \/ JournalReversed(p) \/ VerifyReverse(p) \/ JournalManual(p)
    \/ HandOff(p) \/ Confirm(p)

(* Every one of them is such a step.                                       *)
LEMMA PaceEffect ==
  ASSUME Types, NEW p \in Proc, Pace(p)
  PROVE  Paces(p)
  <1> USE RenameAssumption DEF Types, env, Paces, Becomes
  <1>1. ASSUME Dispatch(p)
        PROVE  Paces(p)
    <2> USE <1>1, GotoEffect, CloseEffect, JournalSame
            DEF Dispatch, Return, Step, Pc
    <2>1. Walks(p)
      <3>1. /\ UNCHANGED <<place, rec, lease, events, scan, scans, forwards, env>>
            /\ Pc(p) = "ready" /\ Latest' = Latest
        BY JournalSame
      <3>2. CASE Latest \in {"PREPARED", "RELOCATED", "RECOVERY_RELOCATED"}
        <4>1. PICK attempt \in BOOLEAN :
                /\ attempt = (Latest = "PREPARED" /\ job[p].op = "execute" /\ authorized)
                /\ job' = [job EXCEPT ![p].attempt = attempt,
                                      ![p].pc = IF attempt THEN "gate" ELSE "recover"]
          BY <3>2
        <4>2. CASE attempt
          <5>1. Becomes(p, "gate", job[p].then)
            BY <4>1, <4>2, AttemptEffect
          <5> QED
            BY <3>1, <4>1, <4>2, <5>1
               DEF Walks, Course, Working, Aftermath, Undecided, Late,
                   Reversible
        <4>3. CASE ~attempt
          <5>1. Becomes(p, "recover", job[p].then)
            BY <4>1, <4>3, AttemptEffect
          <5> QED
            BY <3>1, <5>1
               DEF Walks, Course, Working, Aftermath, Undecided, Late,
                   Reversible
        <4> QED
          BY <4>2, <4>3
      <3>3. CASE Latest \notin {"PREPARED", "RELOCATED", "RECOVERY_RELOCATED"}
        BY <3>1, <3>3
           DEF Walks, Course, Working, Aftermath, Undecided, Late, Reversible
      <3> QED
        BY <3>2, <3>3
    <2>2. Writes(p)
      BY DEF Writes, Appends, Evidence, Working, Status, Restored, Cancellable
    <2>3. Moves(p)
      BY DEF Moves, MovesForward, MovesBack
    <2> QED
      BY <2>1, <2>2, <2>3
  <1>2. ASSUME OperatorFails(p)
        PROVE  Paces(p)
    <2> USE <1>2, GotoEffect, CloseEffect, JournalSame
            DEF OperatorFails, Fault, Step, Pc
    <2>1. Walks(p)
      <3>1. CASE Pc(p) \in {"leased", "ready", "confirm"} /\ CloseThen(p, "idle")
        BY <3>1
           DEF Walks, Course, Working, Aftermath, Undecided, Late, Reversible
      <3>2. CASE Pc(p) \in {"start", "reconcile", "evidence"} /\ Goto(p, "idle")
        BY <3>2
           DEF Walks, Course, Working, Aftermath, Undecided, Late, Reversible
      <3> QED
        BY <3>1, <3>2
    <2>2. Writes(p)
      BY DEF Writes, Appends, Evidence, Working, Status, Restored, Cancellable
    <2>3. Moves(p)
      BY DEF Moves, MovesForward, MovesBack
    <2> QED
      BY <2>1, <2>2, <2>3
  <1>3. ASSUME Gate(p)
        PROVE  Paces(p)
    <2> USE <1>3, GotoEffect, CloseEffect, JournalSame DEF Gate, Step, Pc
    <2>1. Walks(p)
      BY DEF Walks, Course, Working, Aftermath, Undecided, Late, Reversible
    <2>2. Writes(p)
      BY DEF Writes, Appends, Evidence, Working, Status, Restored, Cancellable
    <2>3. Moves(p)
      BY DEF Moves, MovesForward, MovesBack
    <2> QED
      BY <2>1, <2>2, <2>3
  <1>4. ASSUME GateFails(p)
        PROVE  Paces(p)
    <2> USE <1>4, GotoEffect, CloseEffect, JournalSame
            DEF GateFails, Fault, Step, Pc
    <2>1. Walks(p)
      BY DEF Walks, Course, Working, Aftermath, Undecided, Late, Reversible
    <2>2. Writes(p)
      BY DEF Writes, Appends, Evidence, Working, Status, Restored, Cancellable
    <2>3. Moves(p)
      BY DEF Moves, MovesForward, MovesBack
    <2> QED
      BY <2>1, <2>2, <2>3
  <1>5. ASSUME RenameForward(p)
        PROVE  Paces(p)
    <2> USE <1>5, GotoEffect, JournalSame DEF RenameForward, Step, Pc
    <2>1. Walks(p)
      BY DEF Walks, Course, Working, Aftermath, Undecided, Late, Reversible
    <2>2. Writes(p)
      BY DEF Writes, Appends, Evidence, Working, Status, Restored, Cancellable
    <2>3. Moves(p)
      BY DEF Moves, MovesForward, MovesBack
    <2> QED
      BY <2>1, <2>2, <2>3
  <1>6. ASSUME RenameForwardFails(p)
        PROVE  Paces(p)
    <2> USE <1>6, GotoEffect, JournalSame
            DEF RenameForwardFails, Fault, Step, Pc
    <2>1. Walks(p)
      BY DEF Walks, Course, Working, Aftermath, Undecided, Late, Reversible
    <2>2. Writes(p)
      BY DEF Writes, Appends, Evidence, Working, Status, Restored, Cancellable
    <2>3. Moves(p)
      BY DEF Moves, MovesForward, MovesBack
    <2> QED
      BY <2>1, <2>2, <2>3
  <1>7. ASSUME JournalRelocated(p)
        PROVE  Paces(p)
    <2> USE <1>7, GotoEffect, CloseEffect
            DEF JournalRelocated, WriteThen, FencedOut, DbFault, AppendEvent,
                Fault, Step, Pc
    <2>1. Walks(p)
      <3>1. CASE events' = events
        BY <3>1, JournalSame
           DEF Walks, Course, Working, Aftermath, Undecided, Late, Reversible
      <3>2. CASE events' = Append(events, "RELOCATED")
        <4>1. Latest' = "RELOCATED"
          BY <3>2, AppendEffect DEF Status
        <4> QED
          BY <3>2, <4>1
             DEF Walks, Course, Working, Aftermath, Undecided, Late, Reversible
      <3> QED
        BY <3>1, <3>2
    <2>2. Writes(p)
      BY DEF Writes, Appends, Evidence, Working, Status, Restored, Cancellable
    <2>3. Moves(p)
      BY DEF Moves, MovesForward, MovesBack
    <2> QED
      BY <2>1, <2>2, <2>3
  <1>8. ASSUME VerifyForward(p)
        PROVE  Paces(p)
    <2> USE <1>8, GotoEffect, CloseEffect
            DEF VerifyForward, WriteThen, FencedOut, DbFault, AppendEvent,
                Fault, Step, Pc
    <2>1. Walks(p)
      <3>1. CASE events' = events
        BY <3>1, JournalSame
           DEF Walks, Course, Working, Aftermath, Undecided, Late, Reversible
      <3>2. CASE events' = Append(events, "IMMEDIATE_VERIFIED")
        <4>1. Latest' = "IMMEDIATE_VERIFIED"
          BY <3>2, AppendEffect DEF Status
        <4> QED
          BY <3>2, <4>1
             DEF Walks, Course, Working, Aftermath, Undecided, Late, Reversible
      <3> QED
        BY <3>1, <3>2
    <2>2. Writes(p)
      BY DEF Writes, Appends, Evidence, Working, Status, Restored, Cancellable
    <2>3. Moves(p)
      BY DEF Moves, MovesForward, MovesBack
    <2> QED
      BY <2>1, <2>2, <2>3
  <1>9. ASSUME Recover(p)
        PROVE  Paces(p)
    <2> USE <1>9, GotoEffect, CloseEffect
            DEF Recover, Return, Cancellable, Restored, Reversible, Settled,
                Terminal, WriteThen, FencedOut, DbFault, AppendEvent, Fault,
                Step, Pc
    <2>1. Walks(p)
      <3>1. CASE events' = events
        BY <3>1, JournalSame
           DEF Walks, Course, Working, Aftermath, Undecided, Late, Reversible
      <3>2. CASE events' = Append(events, "CANCELLED")
        <4>1. Latest' = "CANCELLED"
          BY <3>2, AppendEffect DEF Status
        <4> QED
          BY <3>2, <4>1
             DEF Walks, Course, Working, Aftermath, Undecided, Late, Reversible
      <3>3. CASE events' = Append(events, "RECOVERY_VERIFIED")
        <4>1. Latest' = "RECOVERY_VERIFIED"
          BY <3>3, AppendEffect DEF Status
        <4> QED
          BY <3>3, <4>1
             DEF Walks, Course, Working, Aftermath, Undecided, Late, Reversible
      <3>4. CASE events' = Append(events, "MANUAL")
        <4>1. Latest' = "MANUAL"
          BY <3>4, AppendEffect DEF Status
        <4> QED
          BY <3>4, <4>1
             DEF Walks, Course, Working, Aftermath, Undecided, Late, Reversible
      <3> QED
        BY <3>1, <3>2, <3>3, <3>4
    <2>2. Writes(p)
      BY DEF Writes, Appends, Evidence, Working, Status, Restored, Cancellable
    <2>3. Moves(p)
      BY DEF Moves, MovesForward, MovesBack
    <2> QED
      BY <2>1, <2>2, <2>3
  <1>10. ASSUME RecoverFencedOut(p)
        PROVE  Paces(p)
    <2> USE <1>10, GotoEffect, CloseEffect, JournalSame
            DEF RecoverFencedOut, FencedOut, Step, Pc
    <2>1. Walks(p)
      BY DEF Walks, Course, Working, Aftermath, Undecided, Late, Reversible
    <2>2. Writes(p)
      BY DEF Writes, Appends, Evidence, Working, Status, Restored, Cancellable
    <2>3. Moves(p)
      BY DEF Moves, MovesForward, MovesBack
    <2> QED
      BY <2>1, <2>2, <2>3
  <1>11. ASSUME RecoverFails(p)
        PROVE  Paces(p)
    <2> USE <1>11, GotoEffect, CloseEffect, JournalSame
            DEF RecoverFails, Fault, Step, Pc
    <2>1. Walks(p)
      BY DEF Walks, Course, Working, Aftermath, Undecided, Late, Reversible
    <2>2. Writes(p)
      BY DEF Writes, Appends, Evidence, Working, Status, Restored, Cancellable
    <2>3. Moves(p)
      BY DEF Moves, MovesForward, MovesBack
    <2> QED
      BY <2>1, <2>2, <2>3
  <1>12. ASSUME RenameReverse(p)
        PROVE  Paces(p)
    <2> USE <1>12, GotoEffect, JournalSame DEF RenameReverse, Step, Pc
    <2>1. Walks(p)
      BY DEF Walks, Course, Working, Aftermath, Undecided, Late, Reversible
    <2>2. Writes(p)
      BY DEF Writes, Appends, Evidence, Working, Status, Restored, Cancellable
    <2>3. Moves(p)
      BY DEF Moves, MovesForward, MovesBack
    <2> QED
      BY <2>1, <2>2, <2>3
  <1>13. ASSUME RenameReverseFails(p)
        PROVE  Paces(p)
    <2> USE <1>13, GotoEffect, JournalSame
            DEF RenameReverseFails, Fault, Step, Pc
    <2>1. Walks(p)
      BY DEF Walks, Course, Working, Aftermath, Undecided, Late, Reversible
    <2>2. Writes(p)
      BY DEF Writes, Appends, Evidence, Working, Status, Restored, Cancellable
    <2>3. Moves(p)
      BY DEF Moves, MovesForward, MovesBack
    <2> QED
      BY <2>1, <2>2, <2>3
  <1>14. ASSUME JournalReversed(p)
        PROVE  Paces(p)
    <2> USE <1>14, GotoEffect, CloseEffect
            DEF JournalReversed, WriteThen, FencedOut, DbFault, AppendEvent,
                Fault, Step, Pc
    <2>1. Walks(p)
      <3>1. CASE events' = events
        BY <3>1, JournalSame
           DEF Walks, Course, Working, Aftermath, Undecided, Late, Reversible
      <3>2. CASE events' = Append(events, "RECOVERY_RELOCATED")
        <4>1. Latest' = "RECOVERY_RELOCATED"
          BY <3>2, AppendEffect DEF Status
        <4> QED
          BY <3>2, <4>1
             DEF Walks, Course, Working, Aftermath, Undecided, Late, Reversible
      <3> QED
        BY <3>1, <3>2
    <2>2. Writes(p)
      BY DEF Writes, Appends, Evidence, Working, Status, Restored, Cancellable
    <2>3. Moves(p)
      BY DEF Moves, MovesForward, MovesBack
    <2> QED
      BY <2>1, <2>2, <2>3
  <1>15. ASSUME VerifyReverse(p)
        PROVE  Paces(p)
    <2> USE <1>15, GotoEffect, CloseEffect
            DEF VerifyReverse, Return, WriteThen, FencedOut, DbFault,
                AppendEvent, Fault, Step, Pc
    <2>1. Walks(p)
      <3>1. CASE events' = events
        BY <3>1, JournalSame
           DEF Walks, Course, Working, Aftermath, Undecided, Late, Reversible
      <3>2. CASE events' = Append(events, "RECOVERY_VERIFIED")
        <4>1. Latest' = "RECOVERY_VERIFIED"
          BY <3>2, AppendEffect DEF Status
        <4> QED
          BY <3>2, <4>1
             DEF Walks, Course, Working, Aftermath, Undecided, Late, Reversible
      <3> QED
        BY <3>1, <3>2
    <2>2. Writes(p)
      BY DEF Writes, Appends, Evidence, Working, Status, Restored, Cancellable
    <2>3. Moves(p)
      BY DEF Moves, MovesForward, MovesBack
    <2> QED
      BY <2>1, <2>2, <2>3
  <1>16. ASSUME JournalManual(p)
        PROVE  Paces(p)
    <2> USE <1>16, GotoEffect, CloseEffect
            DEF JournalManual, Terminal, WriteThen, FencedOut, DbFault,
                AppendEvent, Fault, Step, Pc
    <2>1. Walks(p)
      <3>1. CASE events' = events
        BY <3>1, JournalSame
           DEF Walks, Course, Working, Aftermath, Undecided, Late, Reversible
      <3>2. CASE events' = Append(events, "MANUAL")
        <4>1. Latest' = "MANUAL"
          BY <3>2, AppendEffect DEF Status
        <4> QED
          BY <3>2, <4>1
             DEF Walks, Course, Working, Aftermath, Undecided, Late, Reversible
      <3> QED
        BY <3>1, <3>2
    <2>2. Writes(p)
      BY DEF Writes, Appends, Evidence, Working, Status, Restored, Cancellable
    <2>3. Moves(p)
      BY DEF Moves, MovesForward, MovesBack
    <2> QED
      BY <2>1, <2>2, <2>3
  <1>17. ASSUME HandOff(p)
        PROVE  Paces(p)
    <2> USE <1>17, GotoEffect, CloseEffect
            DEF HandOff, WriteThen, FencedOut, DbFault, AppendEvent, Fault,
                Step, Pc
    <2>1. Walks(p)
      <3>1. CASE events' = events
        BY <3>1, JournalSame
           DEF Walks, Course, Working, Aftermath, Undecided, Late, Reversible
      <3>2. CASE events' = Append(events, "SCAN_HANDOFF")
        <4>1. Latest' = "SCAN_HANDOFF"
          BY <3>2, AppendEffect DEF Status
        <4> QED
          BY <3>2, <4>1
             DEF Walks, Course, Working, Aftermath, Undecided, Late, Reversible
      <3> QED
        BY <3>1, <3>2
    <2>2. Writes(p)
      BY DEF Writes, Appends, Evidence, Working, Status, Restored, Cancellable
    <2>3. Moves(p)
      BY DEF Moves, MovesForward, MovesBack
    <2> QED
      BY <2>1, <2>2, <2>3
  <1>18. ASSUME Confirm(p)
        PROVE  Paces(p)
    <2> USE <1>18, CloseEffect, AppendEffect, JournalSame DEF Confirm, Step, Pc
    <2>1. Walks(p)
      BY DEF Walks, Course, Working, Aftermath, Undecided, Late, Reversible
    <2>2. Writes(p)
      <3>1. {"VERIFIED", "RECOVERED"} \subseteq Transitions["SCAN_HANDOFF"]
        BY DEF Transitions, Status
      <3>2. CASE events' = events
        BY <3>2 DEF Writes
      <3>3. CASE events' # events
        <4>1. PICK s \in {"VERIFIED", "RECOVERED"} :
                /\ events' = Append(events, s)
                /\ s = IF Forward THEN "VERIFIED" ELSE "RECOVERED"
          BY <3>3
        <4>2. Appends(p, s)
          BY <3>1, <3>3, <4>1 DEF Appends, Evidence, Working
        <4> QED
          BY <4>1, <4>2 DEF Writes, Status
      <3> QED
        BY <3>2, <3>3
    <2>3. Moves(p)
      BY DEF Moves, MovesForward, MovesBack
    <2> QED
      BY <2>1, <2>2, <2>3
  <1> QED
    BY <1>1, <1>2, <1>3, <1>4, <1>5, <1>6, <1>7, <1>8, <1>9, <1>10, <1>11,
       <1>12, <1>13, <1>14, <1>15, <1>16, <1>17, <1>18
       DEF Pace

(* The steps that take, give back or lose the lease, and what they do to   *)
(* the calls, the lease and the scan.                                      *)
NoJobFor(p) ==
    /\ job' \in [Proc -> Job]
    /\ job'[p] = NoJob
    /\ \A q \in Proc \ {p} : job'[q] = job[q]

Kept == UNCHANGED <<place, rec, events, scans, forwards>>

Begins(p) ==
    /\ Kept /\ UNCHANGED <<lease, scan, env>>
    /\ Pc(p) = "idle"
    /\ job' \in [Proc -> Job]
    /\ job'[p].pc = "start" /\ job'[p].then = "idle"
    /\ job'[p].known = (Latest # "none")
    /\ \A q \in Proc \ {p} : job'[q] = job[q]

(* A call begins.                                                          *)
LEMMA BeginEffect ==
  ASSUME Types, NEW p \in Proc, NEW op \in {"execute", "recover"}, Begin(p, op)
  PROVE  Begins(p)
  BY StatusFacts DEF Types, Begin, Begins, Kept, NoJob, Job, Step

Takes(p) ==
    /\ Kept /\ UNCHANGED <<scan, env>>
    /\ Pc(p) \in {"start", "evidence"}
    /\ Acquirable(p)
    /\ lease' \in Lease
    /\ lease'.holder = p /\ lease'.fresh
    /\ lease'.owner = IF job[p].known THEN "run" ELSE "attempt"
    /\ Becomes(p, CASE Pc(p) = "evidence" -> "confirm"
                    [] Pc(p) = "start" /\ job[p].known -> "ready"
                    [] OTHER -> "leased", job[p].then)

(* The lease is taken, or the call ends without one.                       *)
LEMMA AcquireEffect ==
  ASSUME Types, NEW p \in Proc, AcquireRunLease(p)
  PROVE  Takes(p) \/ Paces(p)
  <1> USE DEF Types
  <1>0. /\ Kept /\ UNCHANGED <<scan, env>>
        /\ Pc(p) \in {"start", "evidence"}
    BY DEF AcquireRunLease, Kept
  <1>1. CASE Acquirable(p)
    <2>0. lease' = [owner |-> IF job[p].known THEN "run" ELSE "attempt",
                    holder |-> p, fresh |-> TRUE]
      BY <1>1 DEF AcquireRunLease
    <2>1. [owner |-> IF job[p].known THEN "run" ELSE "attempt",
           holder |-> p, fresh |-> TRUE] \in Lease
      BY DEF Lease
    <2>2. PICK step \in Step :
            /\ step = CASE Pc(p) = "evidence" -> "confirm"
                       [] Pc(p) = "start" /\ job[p].known -> "ready"
                       [] OTHER -> "leased"
            /\ Goto(p, step)
      BY <1>1 DEF AcquireRunLease, Step
    <2>3. Becomes(p, step, job[p].then)
      BY <2>2, GotoEffect
    <2> QED
      BY <1>0, <1>1, <2>0, <2>1, <2>2, <2>3 DEF Takes
  <1>2. CASE ~Acquirable(p)
    <2>1. UNCHANGED lease /\ Becomes(p, "idle", job[p].then) /\ Latest' = Latest
      BY <1>0, <1>2, GotoEffect, JournalSame DEF AcquireRunLease, Step, Kept
    <2>2. Course(p, job[p].pc, job'[p].pc)
      BY <1>0, <2>1 DEF Course, Kept, Becomes, Pc, Aftermath
    <2>3. Walks(p)
      BY <1>0, <2>1, <2>2 DEF Walks, Kept, env, Becomes
    <2> QED
      BY <1>0, <2>3 DEF Paces, Writes, Moves, Kept
  <1> QED
    BY <1>1, <1>2

Creates(p) ==
    /\ UNCHANGED <<place, rec, scan, scans, forwards, env>>
    /\ Pc(p) = "leased"
    /\ CanWrite(p) /\ Latest = "none"
    /\ events' = Append(events, "PREPARED")
    /\ lease' = [lease EXCEPT !.owner = "run"] /\ lease' \in Lease
    /\ job' \in [Proc -> Job]
    /\ job'[p].pc = "ready" /\ job'[p].then = job[p].then /\ job'[p].known = TRUE
    /\ \A q \in Proc \ {p} : job'[q] = job[q]

(* The run is created, or the call ends without one.                       *)
LEMMA CreateEffect ==
  ASSUME Types, NEW p \in Proc, CreateRun(p)
  PROVE  Creates(p) \/ Paces(p)
  <1> USE DEF Types, CreateRun
  <1>1. CASE CanWrite(p) /\ authorized /\ events = <<>>
    <2>1. [lease EXCEPT !.owner = "run"] \in Lease
      BY DEF Lease
    <2>2. events' = Append(events, "PREPARED")
      BY <1>1
    <2>3. PICK j \in Job : /\ j.pc = "ready" /\ j.then = job[p].then /\ j.known = TRUE
                           /\ job' = [job EXCEPT ![p] = j]
      <3> DEFINE j == [[job[p] EXCEPT !.pc = "ready"] EXCEPT !.known = TRUE]
      <3>1. j \in Job /\ j.pc = "ready" /\ j.then = job[p].then /\ j.known = TRUE
        BY DEF Job, Step
      <3>2. job' = [job EXCEPT ![p] = j]
        BY <1>1
      <3> QED
        BY <3>1, <3>2
    <2> QED
      BY <1>1, <2>1, <2>2, <2>3, StatusFacts DEF Creates
  <1>2. CASE ~(CanWrite(p) /\ authorized /\ events = <<>>)
    <2>1. /\ UNCHANGED <<place, rec, lease, events, scan, scans, forwards, env>>
          /\ Pc(p) = "leased" /\ Becomes(p, "closing", "idle") /\ Latest' = Latest
      BY <1>2, CloseEffect, JournalSame
    <2> QED
      BY <2>1
         DEF Paces, Walks, Writes, Moves, Course, env, Becomes, Pc, Aftermath
  <1> QED
    BY <1>1, <1>2

Frees(p) ==
    /\ Kept /\ UNCHANGED <<scan, planned, authorized, meddles, foreign>>
    /\ faults' \in 0..MaxFaults
    /\ Pc(p) = "closing"
    /\ lease' \in Lease
    /\ \/ lease' = NoLease /\ CanWrite(p)
       \/ lease' = Unheld(p)
    /\ job' \in [Proc -> Job]
    /\ job'[p].pc \in {"idle", job[p].then} /\ job'[p].then = "idle"
    /\ job'[p].pc = "idle" \/ job'[p].known = job[p].known
    /\ job'[p].known => job[p].known
    /\ \A q \in Proc \ {p} : job'[q] = job[q]

(* Nobody holds the lease any more.                                        *)
LEMMA UnheldIsLease ==
  ASSUME lease \in Lease, NEW p \in Proc
  PROVE  /\ Unheld(p) \in Lease /\ NoLease \in Lease
         /\ Unheld(p).owner = lease.owner /\ Unheld(p).fresh = lease.fresh
         /\ Unheld(p).holder = IF lease.holder = p THEN None ELSE lease.holder
  BY DEF Lease, Unheld, NoLease

(* The finally block.                                                      *)
LEMMA FreeEffect ==
  ASSUME Types, NEW p \in Proc, Close(p)
  PROVE  Frees(p)
  <1> USE RenameAssumption DEF Types, env
  <1>0. /\ Pc(p) = "closing"
        /\ UNCHANGED <<place, rec, events, scan, scans, forwards>>
    BY DEF Close
  <1>1. CASE /\ job' = [job EXCEPT ![p].pc = job[p].then, ![p].then = "idle",
                                   ![p].attempt = FALSE]
             /\ lease' = IF CanWrite(p) THEN NoLease ELSE Unheld(p)
             /\ UNCHANGED env
    <2> DEFINE j == [[[job[p] EXCEPT !.pc = job[p].then] EXCEPT !.then = "idle"]
                        EXCEPT !.attempt = FALSE]
    <2>1. /\ j \in Job /\ j.pc = job[p].then /\ j.then = "idle"
          /\ j.known = job[p].known
      BY DEF Job, Step
    <2>2. job' = [job EXCEPT ![p] = j]
      BY <1>1
    <2> HIDE DEF j
    <2>3. /\ Kept /\ UNCHANGED <<scan, planned, authorized, meddles, foreign>>
          /\ faults' \in 0..MaxFaults
      BY <1>0, <1>1 DEF Kept
    <2>4. /\ lease' \in Lease
          /\ \/ lease' = NoLease /\ CanWrite(p)
             \/ lease' = Unheld(p)
      BY <1>1, UnheldIsLease
    <2>5. job' \in [Proc -> Job] /\ job'[p] = j /\ \A q \in Proc \ {p} : job'[q] = job[q]
      BY <2>1, <2>2
    <2> QED
      BY <1>0, <2>1, <2>3, <2>4, <2>5 DEF Frees
  <1>2. CASE /\ job' = [job EXCEPT ![p] = NoJob]
             /\ lease' = Unheld(p)
             /\ Fault("db")
    <2>1. NoJob \in Job
      BY DEF NoJob, Job, Step
    <2>2. /\ Kept /\ UNCHANGED <<scan, planned, authorized, meddles, foreign>>
          /\ faults' \in 0..MaxFaults
      BY <1>0, <1>2 DEF Kept, Fault
    <2>3. job' \in [Proc -> Job] /\ job'[p] = NoJob /\ \A q \in Proc \ {p} : job'[q] = job[q]
      BY <1>2, <2>1
    <2> QED
      BY <1>0, <1>2, <2>2, <2>3, UnheldIsLease DEF Frees, NoJob
  <1> QED
    BY <1>1, <1>2 DEF Close

Falls(p) ==
    /\ Kept /\ UNCHANGED <<scan, planned, authorized, meddles, foreign>>
    /\ faults' \in 0..MaxFaults
    /\ NoJobFor(p)
    /\ lease' = Unheld(p) /\ lease' \in Lease

(* A process dies.                                                         *)
LEMMA CrashEffect ==
  ASSUME Types, NEW p \in Proc, Crash(p)
  PROVE  Falls(p)
  <1>1. NoJob \in Job
    BY DEF NoJob, Job, Step
  <1> QED
    BY <1>1, UnheldIsLease, RenameAssumption
       DEF Types, Crash, Fault, Falls, Kept, NoJobFor

Opens(who) ==
    /\ Kept /\ UNCHANGED <<planned, authorized, faults, meddles>>
    /\ lease.owner = None
    /\ lease' = [owner |-> "scan", holder |-> who, fresh |-> TRUE] /\ lease' \in Lease
    /\ scan' \in Scan /\ scan'.by = who /\ scan'.phase = "open"

(* A scan is a scan.                                                       *)
LEMMA NoScanIsScan == NoScan \in Scan /\ NoScan.phase = "none"
  <1>1. NothingSeen \in Seen
    BY DEF NothingSeen, Seen, Name, Change, Content
  <1> QED
    BY <1>1 DEF NoScan, Scan, ScanModes

(* A scan opens.                                                           *)
LEMMA OpenEffect ==
  ASSUME Types, NEW who \in Proc \cup {Cli}, NEW mode \in ScanModes, OpenedBy(who, mode)
  PROVE  /\ lease.owner = None
         /\ lease' = [owner |-> "scan", holder |-> who, fresh |-> TRUE] /\ lease' \in Lease
         /\ scan' \in Scan /\ scan'.by = who /\ scan'.phase = "open"
  <1>1. Journaled("SCAN_HANDOFF") \in BOOLEAN
    BY DEF Journaled
  <1> QED
    BY <1>1, NoScanIsScan DEF OpenedBy, Lease, Scan, NoScan

Scans(p) ==
    /\ Pc(p) = "reconcile"
    /\ \/ Opens(p) /\ UNCHANGED foreign /\ Becomes(p, "scanning", job[p].then)
       \/ /\ Kept /\ UNCHANGED <<lease, scan, env>>
          /\ \E step \in {"idle", "evidence"} : Becomes(p, step, job[p].then)

(* The reconciliation finds a scan, starts one or gives up.                *)
LEMMA ReconcileEffect ==
  ASSUME Types, NEW p \in Proc, Reconcile(p)
  PROVE  Scans(p)
  <1>1. CASE OpenedBy(p, "full") /\ Goto(p, "scanning")
    <2>1. "full" \in ScanModes
      BY DEF ScanModes
    <2> QED
      BY <1>1, <2>1, OpenEffect, GotoEffect
         DEF Types, Reconcile, Scans, Opens, Kept, env, Step
  <1>2. CASE Goto(p, "evidence") /\ UNCHANGED <<lease, scan>>
    BY <1>2, GotoEffect DEF Types, Reconcile, Scans, Kept, env, Step
  <1>3. CASE Goto(p, "idle") /\ UNCHANGED <<lease, scan>>
    BY <1>3, GotoEffect DEF Types, Reconcile, Scans, Kept, env, Step
  <1> QED
    BY <1>1, <1>2, <1>3 DEF Reconcile

Resumes(step) ==
    /\ job' \in [Proc -> Job]
    /\ \A p \in Proc :
          /\ p = scan.by => job'[p].pc = step /\ job'[p].then = job[p].then
                            /\ job'[p].known = job[p].known
          /\ p # scan.by => job'[p] = job[p]

(* A call goes on after its scan.                                          *)
LEMMA ResumeEffect ==
  ASSUME job \in [Proc -> Job], NEW step \in Step, Resume(step)
  PROVE  Resumes(step)
  <1>1. \A p \in Proc : LET j == [job[p] EXCEPT !.pc = step]
                        IN j \in Job /\ j.pc = step /\ j.then = job[p].then
                           /\ j.known = job[p].known
    BY DEF Job
  <1> QED
    BY <1>1 DEF Resume, Resumes

Ends ==
    /\ UNCHANGED <<place, rec, events, forwards, authorized, meddles, foreign>>
    /\ planned' \in BOOLEAN /\ faults' \in 0..MaxFaults
    /\ scans' \subseteq Seen
    /\ scan.phase # "none" /\ lease.holder = scan.by
    /\ lease' = NoLease /\ scan' = NoScan
    /\ Resumes("evidence") \/ Resumes("idle")

(* A scan ends, completed or failed.                                       *)
LEMMA EndEffect ==
  ASSUME Types, FinishScan \/ FailScan
  PROVE  Ends
  <1> USE RenameAssumption DEF Types, env
  <1>1. CASE FinishScan
    <2>1. scan.seen \in Seen /\ scan.phase # "none" /\ lease.holder = scan.by
      BY <1>1 DEF FinishScan, Running, Scan
    <2>2. Resumes("evidence") \/ Resumes("idle")
      BY <1>1, ResumeEffect DEF FinishScan, Step
    <2> QED
      BY <1>1, <2>1, <2>2 DEF FinishScan, Ends
  <1>2. CASE FailScan
    <2>1. Resumes("idle")
      BY <1>2, ResumeEffect DEF FailScan, Step
    <2> QED
      BY <1>2, <2>1 DEF FailScan, Ends, Fault
  <1> QED
    BY <1>1, <1>2

Dies ==
    /\ Kept /\ UNCHANGED <<scan, planned, authorized, meddles, foreign>>
    /\ faults' \in 0..MaxFaults
    /\ scan.by = Cli /\ lease.holder = Cli
    /\ lease' \in Lease /\ lease'.holder = None
    /\ lease'.owner = lease.owner /\ lease'.fresh = lease.fresh
    /\ UNCHANGED job

(* The scan command dies.                                                  *)
LEMMA KillEffect ==
  ASSUME Types, KillScan
  PROVE  Dies
  BY RenameAssumption DEF Types, KillScan, Fault, Dies, Kept, Lease

Lists ==
    /\ UNCHANGED <<place, lease, events, job, scans, forwards, planned, authorized,
                   meddles, foreign>>
    /\ faults' \in 0..MaxFaults
    /\ scan.phase = "open" /\ lease.holder = scan.by
    /\ rec' \in [Name -> FileRecord]
    /\ \A n \in Name : rec'[n] = IF Listed(n) THEN Present(place[n]) ELSE rec[n]
    /\ scan' \in Scan /\ scan'.phase = "listed" /\ scan'.by = scan.by
    /\ scan'.mode = scan.mode
    /\ \A n \in Name : scan'.seen.change[n] = Observed(n)

(* A scan lists the files.                                                 *)
LEMMA ListEffect ==
  ASSUME Types, ListFiles
  PROVE  Lists
  <1> USE RenameAssumption DEF Types, env
  <1>1. /\ UNCHANGED <<place, lease, events, job, scans, forwards, planned, authorized,
                       meddles, foreign>>
        /\ faults' \in 0..MaxFaults
        /\ scan.phase = "open" /\ lease.holder = scan.by
        /\ rec' = [n \in Name |-> IF Listed(n) THEN Present(place[n]) ELSE rec[n]]
    BY DEF ListFiles, Fault, Running
  <1>2. PICK read \in SUBSET Name :
          scan' = [scan EXCEPT
                !.phase = "listed",
                !.seen = [change |-> [n \in Name |-> Observed(n)],
                          hash |-> [n \in Name |-> IF scan.mode = "full" /\ n \in read
                                                    THEN place[n] ELSE "absent"]]]
    BY DEF ListFiles
  <1>3. \A n \in Name : Observed(n) \in Change
    BY DEF Observed, Change
  <1>4. [change |-> [n \in Name |-> Observed(n)],
         hash |-> [n \in Name |-> IF scan.mode = "full" /\ n \in read
                                   THEN place[n] ELSE "absent"]] \in Seen
    BY <1>3 DEF Seen, Content
  <1>5. /\ scan' \in Scan /\ scan'.phase = "listed" /\ scan'.by = scan.by
        /\ scan'.mode = scan.mode
        /\ scan'.seen.change = [n \in Name |-> Observed(n)]
    BY <1>2, <1>4 DEF Scan
  <1>6. \A n \in Name : Present(place[n]) \in FileRecord
    BY DEF Present, FileRecord, Presence
  <1>7. rec' \in [Name -> FileRecord]
    BY <1>1, <1>6
  <1> QED
    BY <1>1, <1>5, <1>7 DEF Lists

Marks ==
    /\ UNCHANGED <<place, lease, events, job, scans, forwards, env>>
    /\ scan.phase = "listed" /\ lease.holder = scan.by
    /\ rec' \in [Name -> FileRecord]
    /\ \A n \in Name : /\ ~Lost(n) => rec'[n] = rec[n]
                       /\ Lost(n) => /\ rec'[n].presence = "MISSING"
                                     /\ rec'[n].skipped = (scan.mode = "narrow")
                       /\ rec'[n].what = rec[n].what
    /\ scan' \in Scan /\ scan'.phase = "complete" /\ scan'.by = scan.by

(* A scan marks what it has not found.                                     *)
LEMMA MarkEffect ==
  ASSUME Types, MarkMissing
  PROVE  Marks
  <1> USE DEF Types
  <1>1. /\ UNCHANGED <<place, lease, events, job, scans, forwards, env>>
        /\ scan.phase = "listed" /\ lease.holder = scan.by
        /\ rec' = [n \in Name |->
                     IF Lost(n) THEN [rec[n] EXCEPT !.presence = "MISSING",
                                                    !.skipped = (scan.mode = "narrow")]
                     ELSE rec[n]]
    BY DEF MarkMissing, Running
  <1>2. scan' = [scan EXCEPT
                !.phase = "complete",
                !.seen.change = [n \in Name |-> IF Lost(n) THEN "MISSING" ELSE @[n]]]
    BY DEF MarkMissing
  <1>3. \A n \in Name : LET r == [rec[n] EXCEPT !.presence = "MISSING",
                                               !.skipped = (scan.mode = "narrow")]
                        IN /\ r \in FileRecord
                           /\ r.presence = "MISSING" /\ r.what = rec[n].what
                           /\ r.skipped = (scan.mode = "narrow")
    BY DEF FileRecord, Presence
  <1>4. scan' \in Scan /\ scan'.phase = "complete" /\ scan'.by = scan.by
    <2> DEFINE s == [scan.seen EXCEPT
                        !.change = [n \in Name |-> IF Lost(n) THEN "MISSING" ELSE @[n]]]
    <2>1. s \in Seen
      BY DEF Scan, Seen, Change
    <2>2. scan' = [scan EXCEPT !.phase = "complete", !.seen = s]
      BY <1>2
    <2> HIDE DEF s
    <2> QED
      BY <2>1, <2>2 DEF Scan
  <1> QED
    BY <1>1, <1>3, <1>4 DEF Marks

Expires ==
    /\ Kept /\ UNCHANGED <<scan, job, planned, authorized, meddles, foreign>>
    /\ faults' \in 0..MaxFaults
    /\ lease.owner # None /\ lease.fresh
    /\ lease.owner # "scan" => ~authorized
    /\ \/ lease.holder = None
       \/ /\ lease.holder \in Proc /\ lease.owner # "scan"
          /\ Punctual => ~Mutating(lease.holder)
    /\ lease' \in Lease
    /\ lease'.owner = lease.owner /\ lease'.holder = lease.holder
    /\ lease'.fresh = FALSE

(* A lease expires.                                                        *)
LEMMA ExpireEffect ==
  ASSUME Types, ExpireLease
  PROVE  Expires
  <1> USE RenameAssumption DEF Types
  <1>1. /\ lease' \in Lease /\ lease'.fresh = FALSE
        /\ lease'.owner = lease.owner /\ lease'.holder = lease.holder
    BY DEF ExpireLease, Lease
  <1>2. faults' \in 0..MaxFaults
    BY DEF ExpireLease, env, Fault
  <1>3. UNCHANGED <<planned, authorized, meddles, foreign>>
    BY DEF ExpireLease, env, Fault
  <1> QED
    BY <1>1, <1>2, <1>3 DEF ExpireLease, Expires, Kept, env, Fault

(* Every step is one of these.                                             *)
LEMMA NextEffect ==
  ASSUME Types, [Next]_vars
  PROVE  \/ \E p \in Proc :
              \/ Paces(p) \/ Begins(p) \/ Takes(p) \/ Creates(p) \/ Frees(p)
              \/ Falls(p) \/ Scans(p)
         \/ Opens(Cli) /\ UNCHANGED job /\ foreign' \in 0..MaxForeign
         \/ Ends \/ Dies \/ Lists \/ Marks \/ Expires
         \/ RecoverStaleScan \/ ExpireAuthorization
         \/ \E n \in Name : Meddle(n)
         \/ UNCHANGED vars
  <1>1. ASSUME NEW p \in Proc, OperatorStep(p)
        PROVE  \/ Paces(p) \/ Takes(p) \/ Creates(p) \/ Frees(p) \/ Scans(p)
    <2>1. Pace(p) \/ AcquireRunLease(p) \/ CreateRun(p) \/ Close(p) \/ Reconcile(p)
      BY <1>1 DEF OperatorStep, Pace
    <2> QED
      BY <2>1, PaceEffect, AcquireEffect, CreateEffect, FreeEffect,
         ReconcileEffect
  <1>2. ASSUME NEW mode \in ForeignModes, ForeignScan(mode)
        PROVE  Opens(Cli) /\ UNCHANGED job /\ foreign' \in 0..MaxForeign
    BY <1>2, OpenEffect, RenameAssumption DEF ForeignScan, Opens, Kept, Types
  <1> QED
    BY <1>1, <1>2, BeginEffect, CrashEffect, EndEffect, KillEffect, ListEffect,
       MarkEffect, ExpireEffect DEF Next, ScanStep

-----------------------------------------------------------------------------
(* The lease: a scan holds it exactly while there is one, whoever has it    *)
(* for the run knows the run.                                              *)
LeaseInv ==
    /\ lease.owner = None => lease.holder = None /\ ~lease.fresh
    /\ (lease.owner = "scan") <=> (scan.phase # "none")
    /\ lease.owner = "scan" => /\ lease.holder \in {scan.by, None}
                               /\ lease.holder # None => lease.fresh
    /\ lease.owner \in {"attempt", "run"} => lease.holder \in Proc \cup {None}
    /\ lease.owner = "run" => Latest # "none"

(* The calls: where a call has the lease, and what it knows of the run.    *)
CallInv(p) ==
    /\ Pc(p) \in {"idle", "start", "reconcile", "evidence"} => lease.holder # p
    /\ (Pc(p) = "scanning") <=> (lease.owner = "scan" /\ lease.holder = p)
    /\ lease.holder = p /\ Pc(p) = "leased" => lease.owner = "attempt"
    /\ lease.holder = p /\ Pc(p) \in Working => lease.owner = "run"
    /\ job[p].known => Latest # "none"
    /\ Pc(p) \in Working \cup {"reconcile", "scanning", "evidence"} => job[p].known
    /\ job[p].then = "reconcile" => job[p].known
    /\ (Pc(p) \in {"reconcile", "scanning", "evidence", "confirm"}
          \/ job[p].then = "reconcile") => Latest \in Late

JobInv == \A p \in Proc : CallInv(p)

(* The journal grows along _TRANSITIONS, and never forgets.                *)
Turned == {"RECOVERY_RELOCATED", "RECOVERY_VERIFIED", "RECOVERED", "CANCELLED"}
Rank(s) ==
    CASE s = "none" -> 0
      [] s = "PREPARED" -> 1
      [] s = "RELOCATED" -> 2
      [] s \in {"IMMEDIATE_VERIFIED", "RECOVERY_RELOCATED"} -> 3
      [] s = "RECOVERY_VERIFIED" -> 4
      [] s = "SCAN_HANDOFF" -> 5
      [] OTHER -> 6

JournalInv ==
    /\ Len(events) <= Rank(Latest)
    /\ Latest = "none" => forwards = 0
    /\ Latest \in {"none", "PREPARED", "RELOCATED"} \cup Turned => ~Forward
    /\ Latest \in {"IMMEDIATE_VERIFIED", "VERIFIED"} => Forward

(* Nobody is between the last check and the rename without the lease.      *)
MutationInv == \A p \in Proc :
    /\ Pc(p) = "armed" => CanWrite(p) /\ Latest = "PREPARED"
    /\ Pc(p) = "reverseArmed" => CanWrite(p) /\ Latest \in Undecided

(* Every transition leads to a greater rank.                               *)
LEMMA RankGrows ==
  ASSUME NEW a \in Status, NEW s \in Transitions[a]
  PROVE  Rank(s) \in Nat /\ Rank(a) \in Nat /\ Rank(a) + 1 <= Rank(s) /\ Rank(s) <= 6
  BY DEF Rank, Transitions, Status

(* A run is not forgotten, and after the handoff it does not go back.       *)
LEMMA JournalGrows ==
  ASSUME Types, NEW p \in Proc, Writes(p)
  PROVE  /\ Latest # "none" => Latest' # "none"
         /\ Latest \in Late => Latest' \in Late
  <1>1. CASE events' = events
    BY <1>1, JournalSame
  <1>2. ASSUME NEW s \in Status, Appends(p, s)
        PROVE  Latest' # "none" /\ (Latest \in Late => Latest' \in Late)
    BY <1>2, AppendEffect DEF Types, Appends, Late, Transitions, Status
  <1> QED
    BY <1>1, <1>2 DEF Writes

(* Without a step of a call the journal is what it was.                    *)
LEMMA KeptJournal ==
  ASSUME events' = events
  PROVE  /\ Latest' = Latest /\ Forward' = Forward
         /\ Len(events') = Len(events) /\ Rank(Latest)' = Rank(Latest)
  BY JournalSame

(* With two names and no one else the book has one of them; who has turned *)
(* back and still has the lease finds it at its source.                    *)
PlaceInv == meddles = 0 =>
    /\ AtSource \/ AtTarget
    /\ forwards = 0 => AtSource
    /\ \A p \in Proc : Pc(p) = "reversed" /\ CanWrite(p) => AtSource

(* The index knows no other content, and a scan that has listed all files   *)
(* has seen what is there still.                                           *)
RecInv == meddles = 0 =>
    /\ \A n \in Name : rec[n].presence # "none" => rec[n].what = "book"
    /\ scan.phase = "listed" /\ scan.mode # "narrow" =>
          \A n \in Name : (scan.seen.change[n] = "none") <=> (place[n] = "absent")

(* Before the rename nothing was renamed, and after one the lease stays     *)
(* until it is journaled or nobody is authorized any more.                 *)
AttemptInv == \A p \in Proc :
    (Pc(p) = "armed" \/ (Pc(p) = "gate" /\ CanWrite(p))) => forwards = 0

SecondChance ==
    /\ lease.owner = "run" /\ lease.fresh
    /\ \A p \in Proc : lease.holder = p => Pc(p) \in Aftermath

RepeatInv == forwards = 0 \/ Latest # "PREPARED" \/ ~authorized \/ SecondChance

(* The lease is not given back while the book is away and no status tells.  *)
UndecidedInv == meddles = 0 /\ Latest \in Undecided /\ ~AtSource =>
    /\ lease.owner = "run"
    /\ \A p \in Proc : Pc(p) = "closing" => ~CanWrite(p)

WhereInv == PlaceInv /\ JournalTellsWhereTheBookIs

(* An appended event changes the journal.                                  *)
LEMMA JournalChanges ==
  ASSUME Types, NEW p \in Proc, NEW s \in Status, Appends(p, s)
  PROVE  events' # events
  BY AppendEffect, StatusFacts DEF Types, Appends

(* Every step keeps the types.                                             *)
LEMMA NextTypes ==
  ASSUME Types, [Next]_vars
  PROVE  Types'
  <1> USE RenameAssumption DEF Types
  <1>1. ASSUME NEW p \in Proc, Paces(p)
        PROVE  Types'
    BY <1>1, AppendEffect, NoScanIsScan
       DEF Paces, Walks, Writes, Moves, MovesForward, MovesBack, Appends,
           Moved, Movable, AtTarget, Name, Content
  <1>2. ASSUME NEW p \in Proc, Begins(p)
        PROVE  Types'
    BY <1>2, AppendEffect, NoScanIsScan DEF Begins, Kept, env
  <1>3. ASSUME NEW p \in Proc, Takes(p)
        PROVE  Types'
    BY <1>3, AppendEffect, NoScanIsScan DEF Takes, Kept, env, Becomes
  <1>4. ASSUME NEW p \in Proc, Creates(p)
        PROVE  Types'
    BY <1>4, AppendEffect, NoScanIsScan DEF Creates, env, Status
  <1>5. ASSUME NEW p \in Proc, Frees(p)
        PROVE  Types'
    BY <1>5, AppendEffect, NoScanIsScan DEF Frees, Kept
  <1>6. ASSUME NEW p \in Proc, Falls(p)
        PROVE  Types'
    BY <1>6, AppendEffect, NoScanIsScan DEF Falls, Kept, NoJobFor
  <1>7. ASSUME NEW p \in Proc, Scans(p)
        PROVE  Types'
    BY <1>7, AppendEffect, NoScanIsScan DEF Scans, Kept, Opens, env, Becomes
  <1>8. CASE Opens(Cli) /\ UNCHANGED job /\ foreign' \in 0..MaxForeign
    BY <1>8, AppendEffect, NoScanIsScan DEF Opens, Kept
  <1>9. CASE Ends
    BY <1>9, AppendEffect, NoScanIsScan DEF Ends, Resumes, NoLease, Lease
  <1>10. CASE Dies
    BY <1>10, AppendEffect, NoScanIsScan DEF Dies, Kept
  <1>11. CASE Lists
    BY <1>11, AppendEffect, NoScanIsScan DEF Lists
  <1>12. CASE Marks
    BY <1>12, AppendEffect, NoScanIsScan DEF Marks, env
  <1>13. CASE Expires
    BY <1>13, AppendEffect, NoScanIsScan DEF Expires, Kept
  <1>14. CASE RecoverStaleScan
    BY <1>14, AppendEffect, NoScanIsScan
       DEF RecoverStaleScan, env, NoLease, Lease
  <1>15. CASE ExpireAuthorization
    BY <1>15, AppendEffect, NoScanIsScan DEF ExpireAuthorization
  <1>16. ASSUME NEW n \in Name, Meddle(n)
        PROVE  Types'
    BY <1>16, AppendEffect, NoScanIsScan DEF Meddle, Name, Content
  <1>17. CASE UNCHANGED vars
    BY <1>17, AppendEffect, NoScanIsScan DEF vars, env
  <1> QED
    BY NextEffect, <1>1, <1>2, <1>3, <1>4, <1>5, <1>6, <1>7, <1>8, <1>9, <1>10,
       <1>11, <1>12, <1>13, <1>14, <1>15, <1>16, <1>17

(* Every step keeps what holds of the lease and of the calls.               *)
LEMMA NextControl ==
  ASSUME Types, LeaseInv, JobInv, [Next]_vars
  PROVE  LeaseInv' /\ JobInv'
  <1> USE RenameAssumption DEF Types, LeaseInv, JobInv, CallInv, Pc
  <1>1. ASSUME NEW p \in Proc, Paces(p)
        PROVE  LeaseInv' /\ JobInv'
    <2>0. /\ UNCHANGED <<lease, scan>> /\ Course(p, job[p].pc, job'[p].pc)
          /\ job'[p].known = job[p].known
          /\ job'[p].then = "reconcile" => \/ job[p].then = "reconcile"
                                           \/ Latest' \in Late /\ job[p].pc \in Working
          /\ \A q \in Proc \ {p} : job'[q] = job[q]
          /\ Latest # "none" => Latest' # "none"
          /\ Latest \in Late => Latest' \in Late
      BY <1>1, JournalGrows DEF Paces, Walks
    <2>1. LeaseInv'
      BY <2>0
    <2>2. CallInv(p)'
      <3>1. Latest' \in Late => Latest' # "none"
        BY DEF Late
      <3>2. CASE job[p].pc \in {"start", "reconcile", "evidence"} /\ job'[p].pc = "idle"
        BY <2>0, <3>1, <3>2 DEF Working
      <3>3. CASE job[p].pc = "leased" /\ job'[p].pc = "closing"
        BY <2>0, <3>1, <3>3 DEF Working
      <3>4. CASE /\ job[p].pc \in Working
                 /\ job'[p].pc \in (Working \ {"ready", "confirm"}) \cup {"closing"}
        BY <2>0, <3>1, <3>4 DEF Working
      <3> QED
        BY <2>0, <3>2, <3>3, <3>4 DEF Course
    <2>3. ASSUME NEW q \in Proc \ {p}
          PROVE  CallInv(q)'
      BY <2>0
    <2> QED
      BY <2>1, <2>2, <2>3
  <1>2. ASSUME NEW p \in Proc, Begins(p)
        PROVE  LeaseInv' /\ JobInv'
    <2>1. LeaseInv'
      BY <1>2, KeptJournal DEF Begins, Kept, Working, Late
    <2>2. CallInv(p)'
      BY <1>2, KeptJournal DEF Begins, Kept, Working, Late
    <2>3. ASSUME NEW q \in Proc \ {p}
          PROVE  CallInv(q)'
      BY <1>2, KeptJournal DEF Begins, Kept, Working, Late
    <2> QED
      BY <2>1, <2>2, <2>3
  <1>3. ASSUME NEW p \in Proc, Takes(p)
        PROVE  LeaseInv' /\ JobInv'
    BY <1>3, KeptJournal, AppendEffect, NoScanIsScan, UnheldIsLease
       DEF Takes, Kept, Becomes, Acquirable, Working, Late, NoLease
  <1>4. ASSUME NEW p \in Proc, Creates(p)
        PROVE  LeaseInv' /\ JobInv'
    BY <1>4, KeptJournal, AppendEffect, NoScanIsScan, UnheldIsLease
       DEF Creates, Status, Working, Late, CanWrite
  <1>5. ASSUME NEW p \in Proc, Frees(p)
        PROVE  LeaseInv' /\ JobInv'
    <2>0. /\ Kept /\ UNCHANGED scan /\ Latest' = Latest
          /\ job[p].pc = "closing"
          /\ job'[p].pc \in {"idle", job[p].then} /\ job'[p].then = "idle"
          /\ job'[p].pc = "idle" \/ job'[p].known = job[p].known
          /\ job'[p].known => job[p].known
          /\ job[p].then \in {"idle", "reconcile"}
          /\ \A q \in Proc \ {p} : job'[q] = job[q]
      BY <1>5, KeptJournal DEF Frees, Kept, Job
    <2>1. CASE lease' = NoLease /\ CanWrite(p)
      <3>1. /\ lease'.owner = None /\ lease'.holder = None /\ ~lease'.fresh
            /\ lease.holder = p /\ lease.owner # "scan"
        BY <2>0, <2>1 DEF NoLease, CanWrite
      <3>2. LeaseInv'
        BY <2>0, <3>1 DEF Kept
      <3>3. JobInv'
        BY <2>0, <3>1 DEF Kept, Working, Late
      <3> QED
        BY <3>2, <3>3
    <2>2. CASE lease' = Unheld(p)
      <3>1. /\ lease'.owner = lease.owner /\ lease'.fresh = lease.fresh
            /\ lease'.holder = IF lease.holder = p THEN None ELSE lease.holder
        BY <2>2, UnheldIsLease
      <3>2. LeaseInv'
        BY <2>0, <3>1 DEF Kept
      <3>3. JobInv'
        BY <2>0, <3>1 DEF Kept, Working, Late
      <3> QED
        BY <3>2, <3>3
    <2> QED
      BY <1>5, <2>1, <2>2 DEF Frees
  <1>6. ASSUME NEW p \in Proc, Falls(p)
        PROVE  LeaseInv' /\ JobInv'
    <2>1. LeaseInv'
      BY <1>6, KeptJournal, UnheldIsLease
         DEF Falls, Kept, NoJobFor, NoJob, Working, Late, NoLease
    <2>2. CallInv(p)'
      BY <1>6, KeptJournal, UnheldIsLease
         DEF Falls, Kept, NoJobFor, NoJob, Working, Late, NoLease
    <2>3. ASSUME NEW q \in Proc \ {p}
          PROVE  CallInv(q)'
      BY <1>6, KeptJournal, UnheldIsLease
         DEF Falls, Kept, NoJobFor, NoJob, Working, Late, NoLease
    <2> QED
      BY <2>1, <2>2, <2>3
  <1>7. ASSUME NEW p \in Proc, Scans(p)
        PROVE  LeaseInv' /\ JobInv'
    BY <1>7, KeptJournal, AppendEffect, NoScanIsScan, UnheldIsLease
       DEF Scans, Kept, Opens, Becomes, Working, Late, NoLease
  <1>8. CASE Opens(Cli) /\ UNCHANGED job /\ foreign' \in 0..MaxForeign
    BY <1>8, KeptJournal, AppendEffect, NoScanIsScan, UnheldIsLease
       DEF Opens, Kept, Working, Late, NoLease
  <1>9. CASE Ends
    BY <1>9, KeptJournal, AppendEffect, NoScanIsScan, UnheldIsLease
       DEF Ends, Resumes, NoLease, Lease, Working, Late
  <1>10. CASE Dies
    BY <1>10, KeptJournal, AppendEffect, NoScanIsScan, UnheldIsLease
       DEF Dies, Kept, Working, Late
  <1>11. CASE Lists
    BY <1>11, KeptJournal, AppendEffect, NoScanIsScan, UnheldIsLease
       DEF Lists, Working, Late
  <1>12. CASE Marks
    BY <1>12, KeptJournal, AppendEffect, NoScanIsScan, UnheldIsLease
       DEF Marks, Working, Late
  <1>13. CASE Expires
    BY <1>13, KeptJournal, AppendEffect, NoScanIsScan, UnheldIsLease
       DEF Expires, Kept, Working, Late, NoLease
  <1>14. CASE RecoverStaleScan
    BY <1>14, KeptJournal, AppendEffect, NoScanIsScan, UnheldIsLease
       DEF RecoverStaleScan, NoLease, Working, Late
  <1>15. CASE ExpireAuthorization
    BY <1>15, KeptJournal, AppendEffect, NoScanIsScan, UnheldIsLease
       DEF ExpireAuthorization
  <1>16. ASSUME NEW n \in Name, Meddle(n)
        PROVE  LeaseInv' /\ JobInv'
    BY <1>16, KeptJournal, AppendEffect, NoScanIsScan, UnheldIsLease DEF Meddle
  <1>17. CASE UNCHANGED vars
    BY <1>17, KeptJournal, AppendEffect, NoScanIsScan, UnheldIsLease DEF vars
  <1> QED
    BY NextEffect, <1>1, <1>2, <1>3, <1>4, <1>5, <1>6, <1>7, <1>8, <1>9, <1>10,
       <1>11, <1>12, <1>13, <1>14, <1>15, <1>16, <1>17

(* Every step keeps what holds of the journal.                             *)
LEMMA NextJournal ==
  ASSUME Types, JobInv, JournalInv, [Next]_vars
  PROVE  JournalInv'
  <1> USE DEF Types, JobInv, CallInv, JournalInv, Pc
  <1>1. ASSUME NEW p \in Proc, Paces(p)
        PROVE  JournalInv'
    <2>1. CASE events' = events
      <3>1. Latest = "none" => forwards' = forwards
        BY <1>1 DEF Paces, Moves, MovesForward, MovesBack, Working
      <3> QED
        BY <2>1, <3>1, KeptJournal
    <2>2. ASSUME NEW s \in Status, Appends(p, s)
          PROVE  JournalInv'
      <3>1. Latest # "none"
        BY <2>2 DEF Appends
      <3>2. /\ Latest \in Status /\ s \in Transitions[Latest]
            /\ Latest' = s /\ Len(events') = Len(events) + 1
            /\ Forward' <=> Forward \/ s = "IMMEDIATE_VERIFIED"
        BY <2>2, <3>1, AppendEffect, StatusFacts DEF Appends, Forward
      <3>3. Rank(Latest) + 1 <= Rank(s) /\ Rank(s) \in Nat /\ Rank(Latest) \in Nat
        BY <3>2, RankGrows
      <3>4. Len(events') <= Rank(Latest)'
        BY <3>2, <3>3, StatusFacts DEF Rank
      <3>5. s \in {"PREPARED", "RELOCATED"} \cup Turned => ~Forward'
        BY <2>2, <3>2 DEF Transitions, Turned, Status, Appends, Evidence
      <3>6. s \in {"IMMEDIATE_VERIFIED", "VERIFIED"} => Forward'
        BY <2>2, <3>2 DEF Transitions, Turned, Status, Appends, Evidence
      <3> QED
        BY <3>2, <3>4, <3>5, <3>6 DEF Status
    <2> QED
      BY <1>1, <2>1, <2>2 DEF Paces, Writes
  <1>2. ASSUME NEW p \in Proc, Begins(p)
        PROVE  JournalInv'
    BY <1>2, KeptJournal DEF Begins, Kept
  <1>3. ASSUME NEW p \in Proc, Takes(p)
        PROVE  JournalInv'
    BY <1>3, KeptJournal DEF Takes, Kept
  <1>4. ASSUME NEW p \in Proc, Creates(p)
        PROVE  JournalInv'
    <2>1. /\ Latest = "none" /\ Latest' = "PREPARED" /\ Len(events') = Len(events) + 1
          /\ Forward' <=> Forward
      BY <1>4, AppendEffect DEF Creates, Forward, Status
    <2> QED
      BY <2>1, <1>4, StatusFacts DEF Creates, Rank, Turned
  <1>5. ASSUME NEW p \in Proc, Frees(p)
        PROVE  JournalInv'
    BY <1>5, KeptJournal DEF Frees, Kept
  <1>6. ASSUME NEW p \in Proc, Falls(p)
        PROVE  JournalInv'
    BY <1>6, KeptJournal DEF Falls, Kept
  <1>7. ASSUME NEW p \in Proc, Scans(p)
        PROVE  JournalInv'
    BY <1>7, KeptJournal DEF Scans, Kept, Opens
  <1>8. CASE Opens(Cli) /\ UNCHANGED job /\ foreign' \in 0..MaxForeign
    BY <1>8, KeptJournal DEF Opens, Kept
  <1>9. CASE Ends
    BY <1>9, KeptJournal DEF Ends
  <1>10. CASE Dies
    BY <1>10, KeptJournal DEF Dies, Kept
  <1>11. CASE Lists
    BY <1>11, KeptJournal DEF Lists
  <1>12. CASE Marks
    BY <1>12, KeptJournal DEF Marks
  <1>13. CASE Expires
    BY <1>13, KeptJournal DEF Expires, Kept
  <1>14. CASE RecoverStaleScan
    BY <1>14, KeptJournal DEF RecoverStaleScan
  <1>15. CASE ExpireAuthorization
    BY <1>15, KeptJournal DEF ExpireAuthorization
  <1>16. ASSUME NEW n \in Name, Meddle(n)
        PROVE  JournalInv'
    BY <1>16, KeptJournal DEF Meddle
  <1>17. CASE UNCHANGED vars
    BY <1>17, KeptJournal DEF vars
  <1> QED
    BY NextEffect, <1>1, <1>2, <1>3, <1>4, <1>5, <1>6, <1>7, <1>8, <1>9, <1>10,
       <1>11, <1>12, <1>13, <1>14, <1>15, <1>16, <1>17

(* Every step keeps the lease with whoever is about to rename.             *)
LEMMA NextMutation ==
  ASSUME Types, LeaseInv, JobInv, MutationInv, Punctual, [Next]_vars
  PROVE  MutationInv'
  <1> USE RenameAssumption DEF Types, LeaseInv, JobInv, CallInv, MutationInv, Pc
  <1>1. ASSUME NEW p \in Proc, Paces(p)
        PROVE  MutationInv'
    <2>1. lease' = lease /\ Course(p, job[p].pc, job'[p].pc)
          /\ \A q \in Proc \ {p} : job'[q] = job[q]
      BY <1>1 DEF Paces, Walks
    <2>2. job'[p].pc = "armed" => CanWrite(p)' /\ Latest' = "PREPARED"
      BY <2>1, JournalSame DEF Course, GateOpen, CanWrite
    <2>3. job'[p].pc = "reverseArmed" => CanWrite(p)' /\ Latest' \in Undecided
      BY <2>1, JournalSame DEF Course, Reversible, CanWrite, Undecided
    <2>4. ASSUME NEW q \in Proc \ {p}, Pc(q) \in {"armed", "reverseArmed"}
          PROVE  CanWrite(q)' /\ Latest' = Latest
      <3>1. ~CanWrite(p)
        BY <2>4 DEF CanWrite
      <3> QED
        BY <1>1, <2>1, <2>4, <3>1, JournalSame
           DEF Paces, Writes, Appends, CanWrite
    <2> QED
      BY <2>1, <2>2, <2>3, <2>4
  <1>2. ASSUME NEW p \in Proc, Begins(p)
        PROVE  MutationInv'
    BY <1>2, KeptJournal, UnheldIsLease DEF Begins, Kept, CanWrite
  <1>3. ASSUME NEW p \in Proc, Takes(p)
        PROVE  MutationInv'
    BY <1>3, KeptJournal, UnheldIsLease
       DEF Takes, Kept, CanWrite, Acquirable, Becomes, Working
  <1>4. ASSUME NEW p \in Proc, Creates(p)
        PROVE  MutationInv'
    BY <1>4, KeptJournal, UnheldIsLease DEF Creates, CanWrite, Undecided
  <1>5. ASSUME NEW p \in Proc, Frees(p)
        PROVE  MutationInv'
    BY <1>5, KeptJournal, UnheldIsLease DEF Frees, Kept, CanWrite, NoLease, Job
  <1>6. ASSUME NEW p \in Proc, Falls(p)
        PROVE  MutationInv'
    BY <1>6, KeptJournal, UnheldIsLease
       DEF Falls, Kept, NoJobFor, NoJob, CanWrite
  <1>7. ASSUME NEW p \in Proc, Scans(p)
        PROVE  MutationInv'
    BY <1>7, KeptJournal, UnheldIsLease
       DEF Scans, Kept, Opens, Becomes, CanWrite
  <1>8. CASE Opens(Cli) /\ UNCHANGED job /\ foreign' \in 0..MaxForeign
    BY <1>8, KeptJournal, UnheldIsLease DEF Opens, Kept, CanWrite
  <1>9. CASE Ends
    BY <1>9, KeptJournal, UnheldIsLease DEF Ends, Resumes, CanWrite
  <1>10. CASE Dies
    BY <1>10, KeptJournal, UnheldIsLease DEF Dies, Kept, CanWrite
  <1>11. CASE Lists
    BY <1>11, KeptJournal, UnheldIsLease DEF Lists, CanWrite
  <1>12. CASE Marks
    BY <1>12, KeptJournal, UnheldIsLease DEF Marks, CanWrite
  <1>13. CASE Expires
    BY <1>13, KeptJournal, UnheldIsLease DEF Expires, Kept, CanWrite, Mutating
  <1>14. CASE RecoverStaleScan
    BY <1>14, KeptJournal, UnheldIsLease DEF RecoverStaleScan, CanWrite
  <1>15. CASE ExpireAuthorization
    BY <1>15, KeptJournal, UnheldIsLease DEF ExpireAuthorization, CanWrite
  <1>16. ASSUME NEW n \in Name, Meddle(n)
        PROVE  MutationInv'
    BY <1>16, KeptJournal, UnheldIsLease DEF Meddle, CanWrite
  <1>17. CASE UNCHANGED vars
    BY <1>17, KeptJournal, UnheldIsLease DEF vars, CanWrite
  <1> QED
    BY NextEffect, <1>1, <1>2, <1>3, <1>4, <1>5, <1>6, <1>7, <1>8, <1>9, <1>10,
       <1>11, <1>12, <1>13, <1>14, <1>15, <1>16, <1>17

(* Every step keeps the journal and the two names in agreement.            *)
LEMMA NextWhere ==
  ASSUME Types, LeaseInv, JobInv, JournalInv, MutationInv, WhereInv, [Next]_vars
  PROVE  WhereInv'
  <1> USE RenameAssumption
          DEF Types, LeaseInv, JobInv, CallInv, JournalInv, MutationInv,
              WhereInv,
          PlaceInv, JournalTellsWhereTheBookIs, Pc
  <1>1. ASSUME NEW p \in Proc, Paces(p)
        PROVE  WhereInv'
    <2>0. /\ lease' = lease /\ meddles' = meddles
          /\ \A q \in Proc \ {p} : job'[q] = job[q]
          /\ Course(p, job[p].pc, job'[p].pc)
      BY <1>1 DEF Paces, Walks
    <2>1. CASE UNCHANGED <<place, forwards>> /\ events' = events
      <3>1. job'[p].pc # "reversed" \/ meddles # 0
        BY <2>0, <2>1 DEF Course, Moved, AtTarget, Name, Content
      <3> QED
        BY <2>0, <2>1, <3>1, KeptJournal DEF CanWrite, AtSource, AtTarget
    <2>2. ASSUME NEW s \in Status, Appends(p, s)
          PROVE  WhereInv'
      <3>1. /\ Latest \in Status /\ s \in Transitions[Latest] /\ Latest' = s
            /\ Forward' <=> (Forward \/ s = "IMMEDIATE_VERIFIED")
        BY <2>2, AppendEffect, StatusFacts DEF Appends, Forward
      <3>2. UNCHANGED <<place, forwards>> /\ CanWrite(p)
        BY <2>2 DEF Appends
      <3>3. PlaceInv'
        <4>1. job'[p].pc # "reversed"
          BY <2>0, <2>2, JournalChanges DEF Course
        <4> QED
          BY <2>0, <3>2, <4>1 DEF CanWrite, AtSource, AtTarget
      <3>4. JournalTellsWhereTheBookIs'
        <4> SUFFICES ASSUME meddles = 0
                     PROVE  /\ s \in {"IMMEDIATE_VERIFIED", "VERIFIED"} => AtTarget
                            /\ s \in {"RECOVERY_RELOCATED", "RECOVERY_VERIFIED", "RECOVERED",
                                     "CANCELLED"} => AtSource
                            /\ s = "SCAN_HANDOFF" => IF Forward THEN AtTarget ELSE AtSource
          BY <2>0, <3>1, <3>2 DEF AtSource, AtTarget
        <4>1. s = "RECOVERY_RELOCATED" => AtSource
          BY <2>2 DEF Appends, Evidence
        <4>2. s = "SCAN_HANDOFF" => Latest \in {"IMMEDIATE_VERIFIED", "RECOVERY_VERIFIED"}
          BY <3>1 DEF Transitions, Status
        <4>3. s = "SCAN_HANDOFF" => IF Forward THEN AtTarget ELSE AtSource
          BY <4>2 DEF Turned
        <4> QED
          BY <2>2, <4>1, <4>3 DEF Appends, Evidence
      <3> QED
        BY <3>3, <3>4
    <2>3. CASE MovesForward(p)
      <3>1. CanWrite(p) /\ Latest = "PREPARED" /\ Latest' = "PREPARED"
        BY <2>3, JournalSame DEF MovesForward
      <3>2. meddles = 0 => AtSource /\ AtTarget'
        BY <2>3
           DEF MovesForward, Movable, Moved, AtSource, AtTarget, Name, Content
      <3>3. forwards' # 0
        BY <2>3 DEF MovesForward
      <3> QED
        BY <2>0, <2>3, <3>1, <3>2, <3>3 DEF MovesForward, CanWrite
    <2>4. CASE MovesBack(p)
      <3>1. CanWrite(p) /\ Latest \in Undecided /\ Latest' = Latest
        BY <2>4, JournalSame DEF MovesBack
      <3>2. AtSource'
        BY <2>4 DEF MovesBack, Moved, AtSource, AtTarget, Name, Content
      <3> QED
        BY <2>0, <2>4, <3>1, <3>2 DEF MovesBack, CanWrite, Undecided
    <2> QED
      BY <1>1, <2>1, <2>2, <2>3, <2>4
         DEF Paces, Writes, Moves, MovesForward, MovesBack
  <1>2. ASSUME NEW p \in Proc, Begins(p)
        PROVE  WhereInv'
    BY <1>2, KeptJournal, UnheldIsLease
       DEF Begins, Kept, CanWrite, AtSource, AtTarget, env
  <1>3. ASSUME NEW p \in Proc, Takes(p)
        PROVE  WhereInv'
    BY <1>3, KeptJournal, UnheldIsLease
       DEF Takes, Kept, Becomes, CanWrite, AtSource, AtTarget, env
  <1>4. ASSUME NEW p \in Proc, Creates(p)
        PROVE  WhereInv'
    <2>1. Latest' = "PREPARED" /\ CanWrite(p)
      BY <1>4, AppendEffect DEF Creates, Status
    <2> QED
      BY <2>1, <1>4 DEF Creates, CanWrite, AtSource, AtTarget, env
  <1>5. ASSUME NEW p \in Proc, Frees(p)
        PROVE  WhereInv'
    BY <1>5, KeptJournal, UnheldIsLease
       DEF Frees, Kept, NoLease, Job, CanWrite, AtSource, AtTarget, env
  <1>6. ASSUME NEW p \in Proc, Falls(p)
        PROVE  WhereInv'
    BY <1>6, KeptJournal, UnheldIsLease
       DEF Falls, Kept, NoJobFor, NoJob, CanWrite, AtSource, AtTarget, env
  <1>7. ASSUME NEW p \in Proc, Scans(p)
        PROVE  WhereInv'
    BY <1>7, KeptJournal, UnheldIsLease
       DEF Scans, Kept, Opens, Becomes, CanWrite, AtSource, AtTarget, env
  <1>8. CASE Opens(Cli) /\ UNCHANGED job /\ foreign' \in 0..MaxForeign
    BY <1>8, KeptJournal, UnheldIsLease
       DEF Opens, Kept, CanWrite, AtSource, AtTarget, env
  <1>9. CASE Ends
    BY <1>9, KeptJournal, UnheldIsLease
       DEF Ends, Resumes, NoLease, CanWrite, AtSource, AtTarget, env
  <1>10. CASE Dies
    BY <1>10, KeptJournal, UnheldIsLease
       DEF Dies, Kept, CanWrite, AtSource, AtTarget, env
  <1>11. CASE Lists
    BY <1>11, KeptJournal, UnheldIsLease
       DEF Lists, CanWrite, AtSource, AtTarget, env
  <1>12. CASE Marks
    BY <1>12, KeptJournal, UnheldIsLease
       DEF Marks, CanWrite, AtSource, AtTarget, env
  <1>13. CASE Expires
    BY <1>13, KeptJournal, UnheldIsLease
       DEF Expires, Kept, CanWrite, AtSource, AtTarget, env
  <1>14. CASE RecoverStaleScan
    BY <1>14, KeptJournal, UnheldIsLease
       DEF RecoverStaleScan, NoLease, CanWrite, AtSource, AtTarget, env
  <1>15. CASE ExpireAuthorization
    BY <1>15, KeptJournal, UnheldIsLease
       DEF ExpireAuthorization, CanWrite, AtSource, AtTarget, env
  <1>16. ASSUME NEW n \in Name, Meddle(n)
        PROVE  WhereInv'
    BY <1>16, KeptJournal, UnheldIsLease
       DEF Meddle, CanWrite, AtSource, AtTarget, env
  <1>17. CASE UNCHANGED vars
    BY <1>17, KeptJournal, UnheldIsLease
       DEF vars, CanWrite, AtSource, AtTarget, env
  <1> QED
    BY NextEffect, <1>1, <1>2, <1>3, <1>4, <1>5, <1>6, <1>7, <1>8, <1>9, <1>10,
       <1>11, <1>12, <1>13, <1>14, <1>15, <1>16, <1>17

(* Every step keeps what the index may know.                               *)
LEMMA NextRec ==
  ASSUME Types, LeaseInv, JobInv, MutationInv, PlaceInv, RecInv, [Next]_vars
  PROVE  RecInv'
  <1> USE
          DEF Types, LeaseInv, JobInv, CallInv, MutationInv, PlaceInv, RecInv,
              Pc
  <1>1. ASSUME NEW p \in Proc, Paces(p)
        PROVE  RecInv'
    <2>0. UNCHANGED <<rec, lease, scan, scans, meddles>>
      BY <1>1 DEF Paces, Walks
    <2>1. CASE UNCHANGED place
      BY <2>0, <2>1
    <2>2. CASE place' # place
      <3>1. Pc(p) \in {"armed", "reverseArmed"}
        BY <1>1, <2>2 DEF Paces, Moves, MovesForward, MovesBack
      <3>2. lease.owner = "run"
        BY <3>1 DEF CanWrite, Working
      <3> QED
        BY <2>0, <3>2
    <2> QED
      BY <2>1, <2>2
  <1>2. ASSUME NEW p \in Proc, Begins(p)
        PROVE  RecInv'
    BY <1>2, NoScanIsScan DEF Begins, Kept, env
  <1>3. ASSUME NEW p \in Proc, Takes(p)
        PROVE  RecInv'
    BY <1>3, NoScanIsScan DEF Takes, Kept, env
  <1>4. ASSUME NEW p \in Proc, Creates(p)
        PROVE  RecInv'
    BY <1>4, NoScanIsScan DEF Creates, env
  <1>5. ASSUME NEW p \in Proc, Frees(p)
        PROVE  RecInv'
    BY <1>5, NoScanIsScan DEF Frees, Kept
  <1>6. ASSUME NEW p \in Proc, Falls(p)
        PROVE  RecInv'
    BY <1>6, NoScanIsScan DEF Falls, Kept
  <1>7. ASSUME NEW p \in Proc, Scans(p)
        PROVE  RecInv'
    BY <1>7, NoScanIsScan DEF Scans, Kept, Opens, env
  <1>8. CASE Opens(Cli) /\ UNCHANGED job /\ foreign' \in 0..MaxForeign
    BY <1>8, NoScanIsScan DEF Opens, Kept
  <1>9. CASE Ends
    BY <1>9, NoScanIsScan DEF Ends
  <1>10. CASE Dies
    BY <1>10, NoScanIsScan DEF Dies, Kept
  <1>11. CASE Lists
    <2>1. scan.mode # "narrow" =>
            \A n \in Name : (Observed(n) = "none") <=> (place[n] = "absent")
      BY DEF Observed, Listed
    <2>2. meddles = 0 => \A n \in Name : place[n] \in {"book", "absent"}
      BY DEF AtSource, AtTarget, Name
    <2>3. /\ UNCHANGED <<place, meddles>> /\ scan'.phase = "listed"
          /\ \A n \in Name : scan'.seen.change[n] = Observed(n)
          /\ scan'.mode = scan.mode
          /\ \A n \in Name : ~Listed(n) => rec'[n] = rec[n]
          /\ \A n \in Name : Listed(n) => /\ place[n] # "absent"
                                          /\ rec'[n].what = place[n]
      BY <1>11 DEF Lists, Listed, Present
    <2> QED
      BY <2>1, <2>2, <2>3
  <1>12. CASE Marks
    BY <1>12, NoScanIsScan DEF Marks, Lost, env
  <1>13. CASE Expires
    BY <1>13, NoScanIsScan DEF Expires, Kept
  <1>14. CASE RecoverStaleScan
    BY <1>14, NoScanIsScan DEF RecoverStaleScan, env
  <1>15. CASE ExpireAuthorization
    BY <1>15, NoScanIsScan DEF ExpireAuthorization
  <1>16. ASSUME NEW n \in Name, Meddle(n)
        PROVE  RecInv'
    BY <1>16, NoScanIsScan DEF Meddle
  <1>17. CASE UNCHANGED vars
    BY <1>17, NoScanIsScan DEF vars, env
  <1> QED
    BY NextEffect, <1>1, <1>2, <1>3, <1>4, <1>5, <1>6, <1>7, <1>8, <1>9, <1>10,
       <1>11, <1>12, <1>13, <1>14, <1>15, <1>16, <1>17

(* Every step keeps the index in agreement with the verdict.               *)
LEMMA NextVerdict ==
  ASSUME Types, WhereInv, RecInv, IndexAgreesWithVerdict, [Next]_vars
  PROVE  IndexAgreesWithVerdict'
  <1> USE
          DEF Types, WhereInv, PlaceInv, JournalTellsWhereTheBookIs, RecInv,
              IndexAgreesWithVerdict, Found, Pc
  <1>1. ASSUME NEW p \in Proc, Paces(p)
        PROVE  IndexAgreesWithVerdict'
    <2>0. UNCHANGED <<rec, lease, scan, scans, meddles>>
      BY <1>1 DEF Paces, Walks
    <2>1. CASE events' = events
      BY <2>0, <2>1, KeptJournal
    <2>2. ASSUME NEW s \in Status, Appends(p, s)
          PROVE  IndexAgreesWithVerdict'
      <3>1. Latest' = s
        BY <2>2, AppendEffect DEF Appends
      <3>2. CASE s = "VERIFIED"
        BY <2>0, <2>2, <3>1, <3>2 DEF Appends, Evidence, Proves, Indexed, Name
      <3>3. CASE s = "RECOVERED"
        BY <2>0, <2>2, <3>1, <3>3 DEF Appends, Evidence, Proves, Indexed, Name
      <3> QED
        BY <3>1, <3>2, <3>3
    <2> QED
      BY <1>1, <2>1, <2>2 DEF Paces, Writes
  <1>2. ASSUME NEW p \in Proc, Begins(p)
        PROVE  IndexAgreesWithVerdict'
    BY <1>2, KeptJournal DEF Begins, Kept, env
  <1>3. ASSUME NEW p \in Proc, Takes(p)
        PROVE  IndexAgreesWithVerdict'
    BY <1>3, KeptJournal DEF Takes, Kept, env
  <1>4. ASSUME NEW p \in Proc, Creates(p)
        PROVE  IndexAgreesWithVerdict'
    <2>1. Latest' = "PREPARED"
      BY <1>4, AppendEffect DEF Creates, Status
    <2> QED
      BY <2>1
  <1>5. ASSUME NEW p \in Proc, Frees(p)
        PROVE  IndexAgreesWithVerdict'
    BY <1>5, KeptJournal DEF Frees, Kept
  <1>6. ASSUME NEW p \in Proc, Falls(p)
        PROVE  IndexAgreesWithVerdict'
    BY <1>6, KeptJournal DEF Falls, Kept
  <1>7. ASSUME NEW p \in Proc, Scans(p)
        PROVE  IndexAgreesWithVerdict'
    BY <1>7, KeptJournal DEF Scans, Kept, Opens, env
  <1>8. CASE Opens(Cli) /\ UNCHANGED job /\ foreign' \in 0..MaxForeign
    BY <1>8, KeptJournal DEF Opens, Kept
  <1>9. CASE Ends
    BY <1>9, KeptJournal DEF Ends
  <1>10. CASE Dies
    BY <1>10, KeptJournal DEF Dies, Kept
  <1>11. CASE Lists
    BY <1>11, KeptJournal
       DEF Lists, Listed, Present, AtSource, AtTarget, Name
  <1>12. CASE Marks
    BY <1>12, KeptJournal DEF Marks, Lost, AtSource, AtTarget, Name, env
  <1>13. CASE Expires
    BY <1>13, KeptJournal DEF Expires, Kept
  <1>14. CASE RecoverStaleScan
    BY <1>14, KeptJournal DEF RecoverStaleScan, env
  <1>15. CASE ExpireAuthorization
    BY <1>15, KeptJournal DEF ExpireAuthorization
  <1>16. ASSUME NEW n \in Name, Meddle(n)
        PROVE  IndexAgreesWithVerdict'
    BY <1>16, KeptJournal DEF Meddle
  <1>17. CASE UNCHANGED vars
    BY <1>17, KeptJournal DEF vars, env
  <1> QED
    BY NextEffect, <1>1, <1>2, <1>3, <1>4, <1>5, <1>6, <1>7, <1>8, <1>9, <1>10,
       <1>11, <1>12, <1>13, <1>14, <1>15, <1>16, <1>17

(* Every step keeps the rename from being repeated, and the lease with it.   *)
LEMMA NextAttempt ==
  ASSUME Types, LeaseInv, JobInv, JournalInv, MutationInv, PlaceInv,
         AttemptInv, RepeatInv, UndecidedInv, "db" \notin Faults, [Next]_vars
  PROVE  AttemptInv' /\ RepeatInv' /\ UndecidedInv'
  <1> USE RenameAssumption
          DEF Types, LeaseInv, JobInv, CallInv, JournalInv, MutationInv,
          PlaceInv, AttemptInv, RepeatInv, UndecidedInv, Pc
  <1>1. ASSUME NEW p \in Proc, Paces(p)
        PROVE  AttemptInv' /\ RepeatInv' /\ UndecidedInv'
    <2>0. /\ lease' = lease /\ meddles' = meddles /\ authorized' = authorized
          /\ \A q \in Proc \ {p} : job'[q] = job[q]
          /\ Course(p, job[p].pc, job'[p].pc)
      BY <1>1 DEF Paces, Walks
    <2>1. AttemptInv'
      <3>1. job'[p].pc = "armed" => forwards = 0
        BY <2>0 DEF Course, GateOpen
      <3>2. job'[p].pc = "gate" /\ CanWrite(p) => forwards = 0
        BY <2>0 DEF Course, SecondChance, CanWrite, Aftermath
      <3>3. CASE UNCHANGED forwards
        BY <2>0, <3>1, <3>2, <3>3 DEF CanWrite
      <3>4. CASE MovesForward(p)
        BY <2>0, <3>4 DEF MovesForward, CanWrite
      <3> QED
        BY <1>1, <3>3, <3>4 DEF Paces, Moves, MovesBack
    <2>2. RepeatInv'
      <3>1. CASE MovesForward(p)
        <4>1. lease.owner = "run" /\ CanWrite(p)
          BY <3>1 DEF MovesForward, CanWrite, Working
        <4> QED
          BY <2>0, <3>1, <4>1
             DEF MovesForward, SecondChance, CanWrite, Aftermath
      <3>2. CASE MovesBack(p)
        <4>1. lease.owner = "run" /\ CanWrite(p) /\ Latest' = Latest
          BY <3>2, JournalSame DEF MovesBack, CanWrite, Working
        <4> QED
          BY <2>0, <3>2, <4>1 DEF MovesBack, SecondChance, CanWrite, Aftermath
      <3>3. CASE UNCHANGED <<place, forwards>>
        <4>1. Latest' = "PREPARED" => Latest = "PREPARED"
          <5>1. CASE events' = events
            BY <5>1, JournalSame
          <5>2. ASSUME NEW s \in Status, Appends(p, s)
                PROVE  Latest' # "PREPARED"
            BY <5>2, AppendEffect, StatusFacts DEF Appends, Transitions, Status
          <5> QED
            BY <1>1, <5>1, <5>2 DEF Paces, Writes
        <4>2. SecondChance /\ Latest' = "PREPARED" => SecondChance'
          BY <2>0 DEF SecondChance, Course, CanWrite
        <4> QED
          BY <2>0, <3>3, <4>1, <4>2
      <3> QED
        BY <1>1, <3>1, <3>2, <3>3 DEF Paces, Moves
    <2>3. UndecidedInv'
      <3>1. CASE MovesForward(p)
        <4>1. lease.owner = "run" /\ CanWrite(p)
          BY <3>1 DEF MovesForward, CanWrite, Working
        <4> QED
          BY <2>0, <3>1, <4>1 DEF MovesForward, CanWrite
      <3>2. CASE MovesBack(p)
        <4>1. AtSource'
          BY <3>2 DEF MovesBack, Moved, AtSource, AtTarget, Name, Content
        <4> QED
          BY <4>1
      <3>3. CASE UNCHANGED <<place, forwards>>
        <4> SUFFICES ASSUME meddles = 0, Latest' \in Undecided, ~AtSource
                     PROVE  /\ lease.owner = "run"
                            /\ \A q \in Proc : job'[q].pc = "closing" => ~CanWrite(q)
          BY <2>0, <3>3 DEF CanWrite, AtSource
        <4>1. Latest \in Undecided
          <5>1. CASE events' = events
            BY <5>1, JournalSame
          <5>2. ASSUME NEW s \in Status, Appends(p, s)
                PROVE  Latest \in Undecided
            BY <5>2, AppendEffect, StatusFacts
               DEF Appends, Transitions, Status, Undecided
          <5> QED
            BY <1>1, <5>1, <5>2 DEF Paces, Writes
        <4>2. job'[p].pc = "closing" => ~CanWrite(p)
          <5>1. SUFFICES ASSUME job'[p].pc = "closing", CanWrite(p)
                         PROVE  FALSE
            OBVIOUS
          <5>2. Pc(p) \in {"leased", "gate", "confirm"}
            BY <2>0, <5>1 DEF Course
          <5>3. Pc(p) # "leased"
            BY <4>1, <5>1 DEF CanWrite
          <5>4. Pc(p) # "gate"
            BY <5>1
          <5>5. Pc(p) # "confirm"
            BY <4>1 DEF Late, Undecided
          <5> QED
            BY <5>2, <5>3, <5>4, <5>5
        <4> QED
          BY <2>0, <4>1, <4>2
      <3> QED
        BY <1>1, <3>1, <3>2, <3>3 DEF Paces, Moves
    <2> QED
      BY <2>1, <2>2, <2>3
  <1>2. ASSUME NEW p \in Proc, Begins(p)
        PROVE  AttemptInv' /\ RepeatInv' /\ UndecidedInv'
    BY <1>2, KeptJournal, UnheldIsLease
       DEF Begins, Kept, CanWrite, SecondChance, AtSource, env, Aftermath
  <1>3. ASSUME NEW p \in Proc, Takes(p)
        PROVE  AttemptInv' /\ RepeatInv' /\ UndecidedInv'
    BY <1>3, KeptJournal, UnheldIsLease
       DEF Takes, Kept, Becomes, Acquirable, CanWrite, SecondChance, AtSource,
           env, Aftermath
  <1>4. ASSUME NEW p \in Proc, Creates(p)
        PROVE  AttemptInv' /\ RepeatInv' /\ UndecidedInv'
    <2>1. Latest' = "PREPARED" /\ forwards = 0 /\ forwards' = 0 /\ meddles' = meddles
      BY <1>4, AppendEffect DEF Creates, Status, env
    <2>2. meddles = 0 => AtSource'
      BY <2>1, <1>4 DEF Creates, AtSource
    <2> QED
      BY <2>1, <2>2, <1>4 DEF Creates
  <1>5. ASSUME NEW p \in Proc, Frees(p)
        PROVE  AttemptInv' /\ RepeatInv' /\ UndecidedInv'
    <2>0. Kept /\ Latest' = Latest /\ meddles' = meddles /\ authorized' = authorized
      BY <1>5, KeptJournal DEF Frees, Kept
    <2>1. AttemptInv'
      BY <1>5, <2>0, UnheldIsLease DEF Frees, Kept, NoLease, Job, CanWrite
    <2>2. RepeatInv'
      BY <1>5, <2>0, UnheldIsLease
         DEF Frees, Kept, NoLease, Job, CanWrite, SecondChance, Aftermath, AtSource
    <2>3. UndecidedInv'
      BY <1>5, <2>0, UnheldIsLease
         DEF Frees, Kept, NoLease, Job, CanWrite, AtSource
    <2> QED
      BY <2>1, <2>2, <2>3
  <1>6. ASSUME NEW p \in Proc, Falls(p)
        PROVE  AttemptInv' /\ RepeatInv' /\ UndecidedInv'
    BY <1>6, KeptJournal, UnheldIsLease
       DEF Falls, Kept, NoJobFor, NoJob, CanWrite, SecondChance, AtSource, env,
           Aftermath
  <1>7. ASSUME NEW p \in Proc, Scans(p)
        PROVE  AttemptInv' /\ RepeatInv' /\ UndecidedInv'
    BY <1>7, KeptJournal, UnheldIsLease
       DEF Scans, Kept, Opens, Becomes, CanWrite, SecondChance, AtSource, env,
           Aftermath
  <1>8. CASE Opens(Cli) /\ UNCHANGED job /\ foreign' \in 0..MaxForeign
    BY <1>8, KeptJournal, UnheldIsLease
       DEF Opens, Kept, CanWrite, SecondChance, AtSource, env, Aftermath
  <1>9. CASE Ends
    BY <1>9, KeptJournal, UnheldIsLease
       DEF Ends, Resumes, NoLease, CanWrite, SecondChance, AtSource, env,
           Aftermath
  <1>10. CASE Dies
    BY <1>10, KeptJournal, UnheldIsLease
       DEF Dies, Kept, CanWrite, SecondChance, AtSource, env,
           Aftermath
  <1>11. CASE Lists
    BY <1>11, KeptJournal, UnheldIsLease
       DEF Lists, CanWrite, SecondChance, AtSource, env, Aftermath
  <1>12. CASE Marks
    BY <1>12, KeptJournal, UnheldIsLease
       DEF Marks, CanWrite, SecondChance, AtSource, env, Aftermath
  <1>13. CASE Expires
    BY <1>13, KeptJournal, UnheldIsLease
       DEF Expires, Kept, CanWrite, SecondChance, AtSource, env, Aftermath
  <1>14. CASE RecoverStaleScan
    BY <1>14, KeptJournal, UnheldIsLease
       DEF RecoverStaleScan, NoLease, CanWrite, SecondChance, AtSource, env,
           Aftermath
  <1>15. CASE ExpireAuthorization
    BY <1>15, KeptJournal, UnheldIsLease
       DEF ExpireAuthorization, CanWrite, SecondChance, AtSource, env,
           Aftermath
  <1>16. ASSUME NEW n \in Name, Meddle(n)
        PROVE  AttemptInv' /\ RepeatInv' /\ UndecidedInv'
    BY <1>16, KeptJournal, UnheldIsLease
       DEF Meddle, CanWrite, SecondChance, AtSource, env, Aftermath
  <1>17. CASE UNCHANGED vars
    BY <1>17, KeptJournal, UnheldIsLease
       DEF vars, CanWrite, SecondChance, AtSource, env, Aftermath
  <1> QED
    BY NextEffect, <1>1, <1>2, <1>3, <1>4, <1>5, <1>6, <1>7, <1>8, <1>9, <1>10,
       <1>11, <1>12, <1>13, <1>14, <1>15, <1>16, <1>17

(* Every step keeps an undecided rename out of the index.                   *)
LEMMA NextIndex ==
  ASSUME Types, LeaseInv, JournalInv, WhereInv, UndecidedInv,
         IndexNeverSeesAnUndecidedRename, [Next]_vars
  PROVE  IndexNeverSeesAnUndecidedRename'
  <1> USE
          DEF Types, LeaseInv, JournalInv, WhereInv, PlaceInv,
              JournalTellsWhereTheBookIs,
          UndecidedInv, IndexNeverSeesAnUndecidedRename, Pc
  <1>1. ASSUME NEW p \in Proc, Paces(p)
        PROVE  IndexNeverSeesAnUndecidedRename'
    <2>0. UNCHANGED <<rec, meddles>>
      BY <1>1 DEF Paces, Walks
    <2>1. CASE events' = events
      BY <2>0, <2>1, KeptJournal
    <2>2. ASSUME NEW s \in Status, Appends(p, s)
          PROVE  IndexNeverSeesAnUndecidedRename'
      <3>1. Latest # "MANUAL" /\ (Forward => Forward')
        BY <2>2, AppendEffect DEF Appends, Transitions, Status, Forward
      <3> QED
        BY <2>0, <3>1
    <2> QED
      BY <1>1, <2>1, <2>2 DEF Paces, Writes
  <1>2. ASSUME NEW p \in Proc, Begins(p)
        PROVE  IndexNeverSeesAnUndecidedRename'
    BY <1>2, KeptJournal DEF Begins, Kept, env
  <1>3. ASSUME NEW p \in Proc, Takes(p)
        PROVE  IndexNeverSeesAnUndecidedRename'
    BY <1>3, KeptJournal DEF Takes, Kept, env
  <1>4. ASSUME NEW p \in Proc, Creates(p)
        PROVE  IndexNeverSeesAnUndecidedRename'
    <2>1. Latest = "none" /\ (Forward => Forward') /\ UNCHANGED <<rec, meddles>>
      BY <1>4, AppendEffect DEF Creates, Forward, Status, env
    <2> QED
      BY <2>1
  <1>5. ASSUME NEW p \in Proc, Frees(p)
        PROVE  IndexNeverSeesAnUndecidedRename'
    BY <1>5, KeptJournal DEF Frees, Kept
  <1>6. ASSUME NEW p \in Proc, Falls(p)
        PROVE  IndexNeverSeesAnUndecidedRename'
    BY <1>6, KeptJournal DEF Falls, Kept
  <1>7. ASSUME NEW p \in Proc, Scans(p)
        PROVE  IndexNeverSeesAnUndecidedRename'
    BY <1>7, KeptJournal DEF Scans, Kept, Opens, env
  <1>8. CASE Opens(Cli) /\ UNCHANGED job /\ foreign' \in 0..MaxForeign
    BY <1>8, KeptJournal DEF Opens, Kept
  <1>9. CASE Ends
    BY <1>9, KeptJournal DEF Ends
  <1>10. CASE Dies
    BY <1>10, KeptJournal DEF Dies, Kept
  <1>11. CASE Lists
    <2>1. lease.owner = "scan" /\ UNCHANGED <<place, meddles>> /\ events' = events
      BY <1>11 DEF Lists
    <2>2. CASE place["target"] = "absent" \/ meddles # 0
      BY <1>11, <2>1, <2>2, KeptJournal DEF Lists, Listed, Name
    <2>3. CASE place["target"] # "absent" /\ meddles = 0
      <3>1. ~AtSource
        BY <2>3 DEF AtSource
      <3>2. Latest \notin Undecided /\ Latest # "none"
        BY <2>1, <2>3, <3>1
      <3>3. Forward \/ Latest = "MANUAL"
        BY <2>3, <3>1, <3>2, StatusFacts DEF Undecided, Status
      <3> QED
        BY <2>1, <3>3, KeptJournal
    <2> QED
      BY <2>2, <2>3
  <1>12. CASE Marks
    BY <1>12, KeptJournal DEF Marks, Lost, env, Name
  <1>13. CASE Expires
    BY <1>13, KeptJournal DEF Expires, Kept
  <1>14. CASE RecoverStaleScan
    BY <1>14, KeptJournal DEF RecoverStaleScan, env
  <1>15. CASE ExpireAuthorization
    BY <1>15, KeptJournal DEF ExpireAuthorization
  <1>16. ASSUME NEW n \in Name, Meddle(n)
        PROVE  IndexNeverSeesAnUndecidedRename'
    BY <1>16, KeptJournal DEF Meddle
  <1>17. CASE UNCHANGED vars
    BY <1>17, KeptJournal DEF vars, env
  <1> QED
    BY NextEffect, <1>1, <1>2, <1>3, <1>4, <1>5, <1>6, <1>7, <1>8, <1>9, <1>10,
       <1>11, <1>12, <1>13, <1>14, <1>15, <1>16, <1>17


-----------------------------------------------------------------------------
(* What holds of every execution, whatever the faults.                     *)
Bookkeeping == Types /\ LeaseInv /\ JobInv /\ JournalInv

(* What holds if nobody is suspended for longer than the mutation window.  *)
Positions == MutationInv /\ WhereInv /\ RecInv /\ IndexAgreesWithVerdict

(* What holds if in addition no transaction fails.                         *)
Attempts == /\ AttemptInv /\ RepeatInv /\ UndecidedInv
            /\ IndexNeverSeesAnUndecidedRename /\ OneForwardRename

(* They hold before the first call.                                        *)
LEMMA InitAll == Init => Bookkeeping /\ Positions /\ Attempts
  <1> SUFFICES ASSUME Init
               PROVE  Bookkeeping /\ Positions /\ Attempts
    OBVIOUS
  <1> USE RenameAssumption
  <1>1. /\ Latest = "none" /\ ~Forward /\ Len(events) = 0
        /\ \A p \in Proc : job[p] = NoJob
        /\ lease.owner = None /\ lease.holder = None /\ ~lease.fresh
        /\ AtSource /\ scan.phase = "none"
    BY NoScanIsScan DEF Init, Latest, Forward, Journaled, NoLease, AtSource
  <1>2. NoJob \in Job /\ NoJob.pc = "idle" /\ NoJob.then = "idle" /\ ~NoJob.known
    BY DEF NoJob, Job, Step
  <1>3. Types
    <2>1. /\ Present("book") \in FileRecord
          /\ [presence |-> "none", what |-> "absent", skipped |-> FALSE] \in FileRecord
      BY DEF Present, FileRecord, Presence, Content
    <2>2. rec \in [Name -> FileRecord]
      <3>1. ASSUME NEW a \in FileRecord, NEW b \in FileRecord
            PROVE  [source |-> a, target |-> b] \in [Name -> FileRecord]
        BY DEF Name
      <3> QED
        BY <2>1, <3>1 DEF Init
    <2>3. place \in [Name -> Content] /\ lease \in Lease /\ events \in Seq(Status)
      BY DEF Init, Name, Content, NoLease, Lease
    <2>4. job \in [Proc -> Job] /\ scan \in Scan /\ scans \subseteq Seen
      BY <1>2, NoScanIsScan DEF Init
    <2>5. /\ planned \in BOOLEAN /\ authorized \in BOOLEAN /\ forwards \in Nat
          /\ faults \in 0..MaxFaults /\ meddles \in 0..MaxMeddles
          /\ foreign \in 0..MaxForeign
      BY DEF Init
    <2> QED
      BY <2>2, <2>3, <2>4, <2>5 DEF Types
  <1>4. LeaseInv /\ JobInv /\ JournalInv
    BY <1>1, <1>2
       DEF Init, LeaseInv, JobInv, CallInv, JournalInv, Pc, Working, Rank
  <1>5. MutationInv /\ WhereInv /\ RecInv /\ IndexAgreesWithVerdict
    BY <1>1, <1>2
       DEF Init, MutationInv, WhereInv, PlaceInv, JournalTellsWhereTheBookIs,
       RecInv, IndexAgreesWithVerdict, Present, Pc, Name
  <1>6. Attempts
    BY <1>1, <1>2 DEF Init, Attempts, AttemptInv, RepeatInv, UndecidedInv,
       IndexNeverSeesAnUndecidedRename, OneForwardRename, Present, Undecided, Pc
  <1> QED
    BY <1>3, <1>4, <1>5, <1>6 DEF Bookkeeping, Positions

(* The bookkeeping needs no assumption.                                    *)
LEMMA SpecBookkeeping == Spec => []Bookkeeping
  <1>1. Bookkeeping /\ [Next]_vars => Bookkeeping'
    BY NextTypes, NextControl, NextJournal DEF Bookkeeping
  <1> QED
    BY InitAll, <1>1, PTL DEF Spec

(* The positions need punctual processes.                                  *)
LEMMA SpecPositions ==
  ASSUME Punctual
  PROVE  Spec => []Positions
  <1>1. Bookkeeping /\ Positions /\ [Next]_vars => Positions'
    BY NextMutation, NextWhere, NextRec, NextVerdict
       DEF Bookkeeping, Positions, WhereInv
  <1> QED
    BY InitAll, SpecBookkeeping, <1>1, PTL DEF Spec

(* A second rename needs a place from which the first has disappeared.     *)
LEMMA NextOnce ==
  ASSUME Types, AttemptInv, OneForwardRename, [Next]_vars
  PROVE  OneForwardRename'
  <1>1. ASSUME NEW p \in Proc, Paces(p)
        PROVE  OneForwardRename'
    BY <1>1
       DEF Paces, Moves, MovesForward, MovesBack, AttemptInv, OneForwardRename,
           Types
  <1>2. UNCHANGED forwards => OneForwardRename'
    BY DEF OneForwardRename
  <1> QED
    BY NextEffect, <1>1, <1>2
       DEF Begins, Takes, Creates, Frees, Falls, Scans, Opens, Ends, Dies, Lists, Marks,
           Expires, RecoverStaleScan, ExpireAuthorization, Meddle, Kept, vars

(* The attempts need transactions that do not fail for other reasons than  *)
(* the fence.                                                              *)
LEMMA SpecAttempts ==
  ASSUME Punctual, "db" \notin Faults
  PROVE  Spec => []Attempts
  <1>1. Bookkeeping /\ Positions /\ Attempts /\ [Next]_vars => Attempts'
    <2> SUFFICES ASSUME Bookkeeping, Positions, Attempts, [Next]_vars
                 PROVE  Attempts'
      OBVIOUS
    <2> USE DEF Bookkeeping, Positions, Attempts
    <2>1. AttemptInv' /\ RepeatInv' /\ UndecidedInv'
      BY NextAttempt DEF WhereInv
    <2>2. IndexNeverSeesAnUndecidedRename'
      BY NextIndex
    <2>3. OneForwardRename'
      BY NextOnce
    <2> QED
      BY <2>1, <2>2, <2>3
  <1> QED
    BY InitAll, SpecBookkeeping, SpecPositions, <1>1, PTL DEF Spec

-----------------------------------------------------------------------------
(* Every variable keeps its type, and no journal is longer than six        *)
(* events: each transition leads to a status of a greater rank.            *)
THEOREM TypeCorrect == Spec => []TypeOK
  <1>1. Bookkeeping => TypeOK
    <2> SUFFICES ASSUME Bookkeeping
                 PROVE  Len(events) <= 6
      BY DEF Bookkeeping, Types, TypeOK
    <2>1. Len(events) <= Rank(Latest) /\ Len(events) \in Nat
      BY StatusFacts DEF Bookkeeping, Types, JournalInv
    <2>2. Rank(Latest) \in Nat /\ Rank(Latest) <= 6
      BY DEF Rank
    <2> QED
      BY <2>1, <2>2
  <1> QED
    BY SpecBookkeeping, <1>1, PTL

(* As long as nobody else touches the two names, the status of the run      *)
(* tells where the book is, whatever fails, crashes or is taken over.      *)
THEOREM JournalIsTrue ==
  ASSUME Punctual
  PROVE  Spec => []JournalTellsWhereTheBookIs
  <1>1. Positions => JournalTellsWhereTheBookIs
    BY DEF Positions, WhereInv
  <1> QED
    BY SpecPositions, <1>1, PTL

(* The index agrees with the verdict of the run from the verdict on.       *)
THEOREM VerdictIsIndexed ==
  ASSUME Punctual
  PROVE  Spec => []IndexAgreesWithVerdict
  <1>1. Positions => IndexAgreesWithVerdict
    BY DEF Positions
  <1> QED
    BY SpecPositions, <1>1, PTL

(* Once the run is terminal nothing of it moves the file: whoever is about  *)
(* to call rename has the lease, and nobody else can journal meanwhile.    *)
THEOREM TerminalIsFinal ==
  ASSUME Punctual
  PROVE  Spec => NoMutationAfterTerminal
  <1>1. Bookkeeping /\ Positions /\ [Next]_vars =>
          [ByProgram /\ place' # place => Latest \notin Terminal]_vars
    <2> SUFFICES ASSUME Bookkeeping, Positions, [Next]_vars, ByProgram, place' # place
                 PROVE  Latest \notin Terminal
      OBVIOUS
    <2>1. ~ \E n \in Name : Meddle(n)
      BY DEF Meddle, ByProgram, Bookkeeping, Types
    <2>2. PICK p \in Proc : Paces(p)
      BY <2>1, NextEffect
         DEF Bookkeeping, Begins, Takes, Creates, Frees, Falls, Scans, Opens, Ends, Dies,
             Lists, Marks, Expires, RecoverStaleScan, ExpireAuthorization, Kept, vars
    <2> QED
      BY <2>2 DEF Paces, Moves, MovesForward, MovesBack, Positions, MutationInv,
                  Undecided, Terminal
  <1> QED
    BY SpecBookkeeping, SpecPositions, <1>1, PTL
       DEF Spec, NoMutationAfterTerminal

(* The system call that renames the book succeeds at most once, over all    *)
(* calls, crashes and takeovers.                                           *)
THEOREM RenamedOnce ==
  ASSUME Punctual, "db" \notin Faults
  PROVE  Spec => []OneForwardRename
  <1>1. Attempts => OneForwardRename
    BY DEF Attempts
  <1> QED
    BY SpecAttempts, <1>1, PTL

(* The index learns of the target only when the rename is decided.         *)
THEOREM IndexWaits ==
  ASSUME Punctual, "db" \notin Faults
  PROVE  Spec => []IndexNeverSeesAnUndecidedRename
  <1>1. Attempts => IndexNeverSeesAnUndecidedRename
    BY DEF Attempts
  <1> QED
    BY SpecAttempts, <1>1, PTL
=============================================================================
