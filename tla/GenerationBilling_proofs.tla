---------------------- MODULE GenerationBilling_proofs ----------------------
(***************************************************************************)
(* What the billing of generations guarantees for every number of launches *)
(* and slides, every price and any number of crashes, cancels and sweeps.  *)
(***************************************************************************)
EXTENDS GenerationBilling, CreditLedger_proofs, FiniteSetTheorems

-----------------------------------------------------------------------------
(* A partial cost is a price within the estimate; before the first slide   *)
(* it is at most the base price.                                           *)
LEMMA PartialCostBounds ==
    ASSUME NEW kind, NEW est \in Nat, NEW done \in Nat
    PROVE  /\ PartialCost(kind, est, done) \in 0..est
           /\ done = 0 => PartialCost(kind, est, done) <= BaseCost
<1> DEFINE base == BaseCost + done
           share == (est * done + Slides - 1) \div Slides
<1>1. Slides \in Nat \ {0} /\ BaseCost \in Nat
  BY GenerationAssumption
<1>2. est * done \in Nat
  OBVIOUS
<1>3. share \in Nat
  <2>1. ASSUME NEW n \in Nat, NEW d \in Nat \ {0}
        PROVE  (n + d - 1) \div d \in Nat
    BY <2>1
  <2> QED BY <1>1, <1>2, <2>1
<1>4. done = 0 => share = 0
  <2>1. ASSUME NEW d \in Nat \ {0}
        PROVE  (0 + d - 1) \div d = 0
    BY <2>1
  <2>2. est * 0 = 0
    OBVIOUS
  <2> QED BY <1>1, <2>1, <2>2
<1>5. base \in Nat /\ (done = 0 => base = BaseCost)
  BY <1>1
<1> HIDE DEF base, share
<1>6. PartialCost(kind, est, done) =
        IF kind = "video" THEN Least(est, base) ELSE Least(est, share)
  BY DEF PartialCost, base, share
<1>7. PartialCost(kind, est, done) \in 0..est
  <2>1. Least(est, base) \in 0..est
    BY <1>5, LeastNat
  <2>2. Least(est, share) \in 0..est
    BY <1>3, LeastNat
  <2> QED BY <1>6, <2>1, <2>2
<1>8. ASSUME done = 0 PROVE PartialCost(kind, est, done) <= BaseCost
  <2>1. Least(est, base) <= BaseCost
    BY <1>5, <1>8, LeastNat
  <2>2. Least(est, share) <= 0
    BY <1>4, <1>8, LeastNat
  <2> QED BY <1>1, <1>3, <1>6, <2>1, <2>2, LeastNat
<1> QED BY <1>7, <1>8

-----------------------------------------------------------------------------
(* The row operators stay within the table.                                *)
LEMMA FlushRow ==
    ASSUME NEW row \in LessonRow, NEW seen \in LessonRow, NEW new \in LessonRow
    PROVE  /\ Flush(row, seen, new) \in LessonRow
           /\ new.via = seen.via => Flush(row, seen, new).via = row.via
           /\ new.ref = seen.ref => Flush(row, seen, new).ref = row.ref
           /\ new.est = seen.est => Flush(row, seen, new).est = row.est
  BY DEF Flush, Column, LessonRow

(* An UPDATE from a copy that is still current writes the whole new row.   *)
LEMMA FlushCurrent ==
    ASSUME NEW row \in LessonRow, NEW new \in LessonRow
    PROVE  Flush(row, row, new) = new
  BY DEF Flush, Column, LessonRow

(* Writing a task id leaves the bill's columns of a lesson's row alone.    *)
LEMMA WithTaskRow ==
    ASSUME NEW row \in LessonRow, NEW kind, NEW id \in Ids
    PROVE  /\ WithTask(row, kind, id) \in LessonRow
           /\ WithTask(row, kind, id).via = row.via
           /\ WithTask(row, kind, id).ref = row.ref
           /\ WithTask(row, kind, id).est = row.est
  BY DEF WithTask, LessonRow

(* Ending a generation leaves the bill's columns of the row alone.         *)
LEMMA EndedRow ==
    ASSUME NEW row \in LessonRow, NEW kind, NEW status \in Statuses
    PROVE  /\ Ended(row, kind, status) \in LessonRow
           /\ Ended(row, kind, status).via = row.via
           /\ Ended(row, kind, status).ref = row.ref
           /\ Ended(row, kind, status).est = row.est
<1> DEFINE moved == [row EXCEPT !.status = status, !.cancel = FALSE]
<1>1. /\ moved \in LessonRow
      /\ moved.via = row.via /\ moved.ref = row.ref /\ moved.est = row.est
  BY DEF LessonRow
<1>2. NoId \in Ids
  BY DEF Ids
<1>3. Ended(row, kind, status) = WithTask(moved, kind, NoId)
  BY DEF Ended
<1> HIDE DEF moved
<1> QED BY <1>1, <1>2, <1>3, WithTaskRow

(* Claiming the bill takes its source off the row and leaves the reference. *)
LEMMA ClaimedRow ==
    ASSUME NEW row \in LessonRow
    PROVE  /\ Claimed(row) \in LessonRow
           /\ Claimed(row).via = "none"
           /\ Claimed(row).ref = row.ref
           /\ Claimed(row).est = row.est
  BY DEF Claimed, LessonRow, Vias

-----------------------------------------------------------------------------
(* A run that has stopped working knows how it ended.                      *)
EndKnown ==
    \A l \in Launches :
        run[l].pc \in {"settling", "finalizing", "recording", "closing"}
            => run[l].outcome # "none"

Typed == TypeOK /\ EndKnown

(* What TypeOK says of one launch, its request and its run.                *)
LEMMA InRange ==
    ASSUME Typed, NEW l \in Launches
    PROVE  /\ LedgerType /\ opened = TRUE /\ credited \in Nat /\ l \in Refs
           /\ lesson \in LessonRow /\ slots \in Nat /\ cp \in 0..Slides
           /\ launch \in [Launches -> Launch] /\ launch[l] \in Launch
           /\ launch[l].est \in Nat /\ launch[l].via \in Vias
           /\ launch[l].seen \in LessonRow
           /\ queue \in [Launches -> QueueStates] /\ started \subseteq Launches
           /\ run \in [Launches -> Run] /\ run[l] \in Run
           /\ run[l].est \in Nat /\ run[l].ref \in Ids /\ run[l].done \in Nat
           /\ run[l].seen \in LessonRow /\ run[l].outcome \in Outcomes
           /\ canceller \in Canceller /\ canceller.seen \in LessonRow
<1>1. launch[l] \in Launch /\ run[l] \in Run /\ canceller \in Canceller
  BY DEF Typed, TypeOK
<1>2. /\ launch[l].est \in Nat /\ launch[l].via \in Vias
      /\ launch[l].seen \in LessonRow
  BY <1>1 DEF Launch
<1>3. /\ run[l].est \in Nat /\ run[l].ref \in Ids /\ run[l].done \in Nat
      /\ run[l].seen \in LessonRow /\ run[l].outcome \in Outcomes
  BY <1>1 DEF Run
<1>4. canceller.seen \in LessonRow
  BY <1>1 DEF Canceller
<1>5. LedgerType /\ l \in Refs
  BY GenerationAssumption DEF Typed, TypeOK, LedgerType
<1> QED BY <1>1, <1>2, <1>3, <1>4, <1>5 DEF Typed, TypeOK

(* The records everything starts from.                                     *)
LEMMA Fresh ==
    /\ NewLesson \in LessonRow
    /\ IdleLaunch \in Launch /\ NoRun \in Run /\ IdleCanceller \in Canceller
    /\ [IdleLaunch EXCEPT !.pc = "refused"] \in Launch
<1>1. NewLesson \in LessonRow
  BY DEF NewLesson, LessonRow, Statuses, Vias, Ids
<1> QED BY <1>1 DEF IdleLaunch, Launch, LaunchPcs, Vias, NoRun, Run, RunPcs,
                    Outcomes, Ids, IdleCanceller, Canceller

(* A step on the credit account keeps the rest of TypeOK's promises.       *)
LEMMA AccountStep ==
    ASSUME Typed, LedgerType', UNCHANGED <<opened, credited>>
    PROVE  /\ opened' = TRUE
           /\ balance' \in Nat /\ reserved' \in Nat /\ credited' \in Nat
           /\ ledger' \in [Refs -> Row]
  BY DEF Typed, TypeOK, LedgerType

(* The launching endpoint.                                                 *)
LEMMA RequestTyped ==
    ASSUME Typed, NEW l \in Launches
    PROVE  /\ \A kind \in Kinds, est \in Estimates : Admit(l, kind, est) => Typed'
           /\ Request(l) => Typed'
           /\ EnqueueFails(l) => Typed'
           /\ EndpointCrash(l) => Typed'
<1> USE GenerationAssumption
<1>0. /\ launch \in [Launches -> Launch] /\ launch[l] \in Launch
      /\ launch[l].est \in Nat /\ launch[l].via \in Vias
      /\ launch[l].seen \in LessonRow /\ lesson \in LessonRow
      /\ slots \in Nat /\ LedgerType /\ l \in Refs
      /\ queue \in [Launches -> QueueStates]
  BY InRange
<1>1. ASSUME NEW kind \in Kinds, NEW est \in Estimates, Admit(l, kind, est)
      PROVE  Typed'
  <2>1. launch' \in [Launches -> Launch]
    <3>1. [pc |-> "admitted", kind |-> kind, est |-> est, via |-> "none",
           seen |-> lesson] \in Launch
      BY <1>0 DEF Launch, LaunchPcs, Vias
    <3> QED BY <1>0, <1>1, <3>1 DEF Admit
  <2> QED BY <1>1, <2>1 DEF Admit, Typed, TypeOK, EndKnown, ledgerVars
<1>2. ASSUME BillTrial(l) PROVE Typed'
  <2>1. launch' \in [Launches -> Launch]
    BY <1>0, <1>2 DEF BillTrial, Launch, LaunchPcs, Vias
  <2>2. slots' \in Nat
    BY <1>0, <1>2 DEF BillTrial
  <2> QED BY <1>2, <2>1, <2>2 DEF BillTrial, Typed, TypeOK, EndKnown, ledgerVars
<1>3. ASSUME BillCredits(l) PROVE Typed'
  <2>1. launch' \in [Launches -> Launch]
    BY <1>0, <1>3 DEF BillCredits, Launch, LaunchPcs, Vias
  <2>2. LedgerType' /\ UNCHANGED <<opened, credited>>
    BY <1>0, <1>3, ReserveType DEF BillCredits, ReserveCredits
  <2> QED BY <1>3, <2>1, <2>2, AccountStep DEF BillCredits, Typed, TypeOK, EndKnown
<1>4. ASSUME RefuseUnpaid(l) PROVE Typed'
  <2>1. launch' \in [Launches -> Launch]
    BY <1>0, <1>4, Fresh DEF RefuseUnpaid
  <2> QED BY <1>4, <2>1 DEF RefuseUnpaid, Typed, TypeOK, EndKnown, ledgerVars
<1>5. ASSUME WriteBilling(l) PROVE Typed'
  <2> DEFINE me   == launch[l]
             paid == me.via = "credits"
             new  == [me.seen EXCEPT
                        !.est = IF paid THEN me.est ELSE 0,
                        !.spent = 0,
                        !.ref = IF paid THEN l ELSE NoId,
                        !.via = me.via,
                        !.cancel = FALSE,
                        !.auto = @ \/ me.kind = "vision",
                        !.status = IF me.kind = "vision" THEN "analyzing" ELSE @]
  <2>1. new \in LessonRow
    <3> DEFINE price == IF paid THEN me.est ELSE 0
               owner == IF paid THEN l ELSE NoId
               auto  == me.seen.auto \/ me.kind = "vision"
               next  == IF me.kind = "vision" THEN "analyzing" ELSE me.seen.status
    <3>1. price \in Nat /\ owner \in Ids /\ me.via \in Vias
      BY <1>0 DEF Ids
    <3>2. auto \in BOOLEAN
      OBVIOUS
    <3>3. next \in Statuses
      BY <1>0 DEF LessonRow, Statuses
    <3>4. new = [me.seen EXCEPT !.est = price, !.spent = 0, !.ref = owner,
                                !.via = me.via, !.cancel = FALSE, !.auto = auto,
                                !.status = next]
      BY <1>0 DEF LessonRow
    <3> HIDE DEF price, owner, auto, next, new
    <3> QED BY <1>0, <3>1, <3>2, <3>3, <3>4 DEF LessonRow
  <2>2. /\ lesson' = Flush(lesson, me.seen, new)
        /\ launch' = [launch EXCEPT ![l].pc = "written", ![l].seen = new]
    BY <1>5 DEF WriteBilling
  <2> HIDE DEF new
  <2>3. launch' \in [Launches -> Launch]
    BY <1>0, <2>1, <2>2 DEF Launch, LaunchPcs
  <2>4. lesson' \in LessonRow
    BY <1>0, <2>1, <2>2, FlushRow
  <2> QED BY <1>5, <2>3, <2>4 DEF WriteBilling, Typed, TypeOK, EndKnown, ledgerVars
<1>6. ASSUME Enqueue(l) PROVE Typed'
  <2>1. launch' \in [Launches -> Launch]
    BY <1>0, <1>6 DEF Enqueue, Launch, LaunchPcs
  <2>2. queue' \in [Launches -> QueueStates]
    BY <1>0, <1>6 DEF Enqueue, QueueStates
  <2> QED BY <1>6, <2>1, <2>2 DEF Enqueue, Typed, TypeOK, EndKnown, ledgerVars
<1>7. ASSUME SaveTaskId(l) PROVE Typed'
  <2>1. launch' \in [Launches -> Launch]
    BY <1>0, <1>7, Fresh DEF SaveTaskId, Launch, LaunchPcs
  <2>2. lesson' \in LessonRow
    <3>1. WithTask(launch[l].seen, launch[l].kind, l) \in LessonRow
      BY <1>0, WithTaskRow DEF Ids
    <3> QED BY <1>0, <1>7, <3>1, FlushRow DEF SaveTaskId
  <2> QED BY <1>7, <2>1, <2>2 DEF SaveTaskId, Typed, TypeOK, EndKnown, ledgerVars
<1>8. ASSUME ClaimForRefund(l) PROVE Typed'
  <2>1. launch' \in [Launches -> Launch]
    <3> DEFINE seen == [launch[l].seen EXCEPT !.via = "none"]
    <3>1. seen \in LessonRow /\ lesson.via \in Vias
      BY <1>0 DEF LessonRow, Vias
    <3>2. launch' = [launch EXCEPT ![l] = [launch[l] EXCEPT
                        !.pc = "releasing", !.via = lesson.via, !.seen = seen]]
      BY <1>0, <1>8 DEF ClaimForRefund
    <3> HIDE DEF seen
    <3> QED BY <1>0, <3>1, <3>2 DEF Launch, LaunchPcs
  <2>2. lesson' \in LessonRow
    BY <1>0, <1>8, ClaimedRow DEF ClaimForRefund
  <2> QED BY <1>8, <2>1, <2>2 DEF ClaimForRefund, Typed, TypeOK, EndKnown, ledgerVars
<1>9. ASSUME RefundLaunch(l) PROVE Typed'
  <2>1. launch' \in [Launches -> Launch]
    <3>1. [launch[l] EXCEPT !.pc = "redrafting"] \in Launch
      BY <1>0 DEF Launch, LaunchPcs
    <3> QED BY <1>0, <1>9, <3>1, Fresh DEF RefundLaunch
  <2>2. LedgerType' /\ UNCHANGED <<opened, credited>>
    <3>1. CASE launch[l].via = "credits"
      BY <1>0, <1>9, <3>1, ReleaseType DEF RefundLaunch, ReleaseCredits
    <3>2. CASE launch[l].via # "credits"
      BY <1>0, <1>9, <3>2 DEF RefundLaunch, ledgerVars, LedgerType
    <3> QED BY <3>1, <3>2
  <2>3. slots' \in Nat
    BY <1>0, <1>9, NonNegNat DEF RefundLaunch, ReleaseSlot
  <2> QED BY <1>9, <2>1, <2>2, <2>3, AccountStep DEF RefundLaunch, Typed, TypeOK, EndKnown
<1>10. ASSUME Redraft(l) PROVE Typed'
  <2>1. launch' \in [Launches -> Launch]
    BY <1>0, <1>10, Fresh DEF Redraft
  <2>2. lesson' \in LessonRow
    <3>1. /\ [lesson EXCEPT !.status = "draft"] \in LessonRow
          /\ [launch[l].seen EXCEPT !.status = "draft"] \in LessonRow
      BY <1>0 DEF LessonRow, Statuses
    <3> QED BY <1>0, <1>10, <3>1, FlushRow DEF Redraft
  <2> QED BY <1>10, <2>1, <2>2 DEF Redraft, Typed, TypeOK, EndKnown, ledgerVars
<1>11. ASSUME EnqueueFails(l) PROVE Typed'
  <2>1. launch' \in [Launches -> Launch]
    BY <1>0, <1>11 DEF EnqueueFails, Launch, LaunchPcs
  <2> QED BY <1>11, <2>1 DEF EnqueueFails, Typed, TypeOK, EndKnown, ledgerVars
<1>12. ASSUME EndpointCrash(l) PROVE Typed'
  <2>1. launch' \in [Launches -> Launch]
    <3>1. [launch[l] EXCEPT !.pc = "returned", !.seen = NewLesson] \in Launch
      BY <1>0, Fresh DEF Launch, LaunchPcs
    <3> QED BY <1>0, <1>12, <3>1, Fresh DEF EndpointCrash
  <2> QED BY <1>12, <2>1 DEF EndpointCrash, Typed, TypeOK, EndKnown, ledgerVars
<1> QED BY <1>1, <1>2, <1>3, <1>4, <1>5, <1>6, <1>7, <1>8, <1>9, <1>10, <1>11,
           <1>12 DEF Request

(* What the run of a launch can be changed to.                             *)
LEMMA RunPut ==
    ASSUME Typed, NEW l \in Launches, NEW next \in Run,
           next.pc \in {"settling", "finalizing", "recording", "closing"}
               => next.outcome # "none",
           run' = [run EXCEPT ![l] = next]
    PROVE  run' \in [Launches -> Run] /\ EndKnown'
<1>1. run \in [Launches -> Run] /\ EndKnown
  BY DEF Typed, TypeOK
<1>2. run' \in [Launches -> Run]
  BY <1>1
<1>3. \A k \in Launches : run'[k] = IF k = l THEN next ELSE run[k]
  BY <1>1
<1> QED BY <1>1, <1>2, <1>3 DEF EndKnown

(* What a run has cost so far, and what it costs in the end, is a price    *)
(* within its estimate.                                                    *)
LEMMA CostBounds ==
    ASSUME Typed, NEW l \in Launches
    PROVE  /\ \A done \in Nat : SpentSoFar(l, done) \in 0..run[l].est
           /\ Cost(l) \in 0..run[l].est
           /\ Cost(l) \in Nat
           /\ run[l].outcome = "cancel" /\ run[l].done = 0 => Cost(l) <= BaseCost
           /\ run[l].outcome \notin {"ok", "cancel"} => Cost(l) = 0
<1>0. /\ run[l].est \in Nat /\ run[l].done \in Nat
      /\ run[l].outcome \in Outcomes /\ BaseCost \in Nat
  BY InRange, GenerationAssumption
<1>1. ASSUME NEW done \in Nat
      PROVE  /\ SpentSoFar(l, done) \in 0..run[l].est
             /\ done = 0 => SpentSoFar(l, done) <= BaseCost
  <2> DEFINE part == PartialCost(launch[l].kind, run[l].est, done)
  <2>1. part \in 0..run[l].est /\ (done = 0 => part <= BaseCost)
    BY <1>0, PartialCostBounds
  <2>2. SpentSoFar(l, done) = IF run[l].via = "credits" THEN part ELSE 0
    BY DEF SpentSoFar
  <2> HIDE DEF part
  <2> QED BY <1>0, <2>1, <2>2
<1>2. CASE run[l].outcome = "ok"
  <2>1. Cost(l) = run[l].est
    BY <1>2 DEF Cost
  <2> QED BY <1>0, <1>1, <1>2, <2>1
<1>3. CASE run[l].outcome = "cancel"
  <2>1. Cost(l) = SpentSoFar(l, run[l].done)
    BY <1>3 DEF Cost
  <2> QED BY <1>0, <1>1, <1>3, <2>1
<1>4. CASE run[l].outcome \notin {"ok", "cancel"}
  <2>1. Cost(l) = 0
    BY <1>4 DEF Cost
  <2> QED BY <1>0, <1>1, <1>4, <2>1
<1> QED BY <1>2, <1>3, <1>4

(* The Celery task: preparing, slides, outcome.                            *)
LEMMA WorkTyped ==
    ASSUME Typed, NEW l \in Launches
    PROVE  /\ Start(l) => Typed'
           /\ Prepare(l) => Typed'
           /\ FinishSlide(l) => Typed'
           /\ ObserveCancel(l) => Typed'
           /\ Publish(l) => Typed'
           /\ Announce(l) => Typed'
           /\ Fail(l) => Typed'
<1> USE GenerationAssumption
<1>0. /\ lesson \in LessonRow /\ cp \in 0..Slides
      /\ queue \in [Launches -> QueueStates] /\ started \subseteq Launches
      /\ run \in [Launches -> Run] /\ run[l] \in Run
      /\ run[l].est \in Nat /\ run[l].ref \in Ids /\ run[l].done \in Nat
      /\ run[l].seen \in LessonRow /\ run[l].outcome \in Outcomes
  BY InRange
<1>d. delivered \in [Launches -> SUBSET {"ok", "error", "cancel", "untouched"}]
  BY DEF Typed, TypeOK
<1>1. ASSUME Start(l) PROVE Typed'
  <2> DEFINE new == [lesson EXCEPT !.status = IF launch[l].kind = "video"
                                              THEN "processing" ELSE "analyzing"]
             next == [NoRun EXCEPT !.pc = "preparing", !.via = lesson.via,
                                   !.ref = lesson.ref, !.est = lesson.est,
                                   !.seen = new]
  <2>1. new \in LessonRow
    BY <1>0 DEF LessonRow, Statuses
  <2>2. lesson.via \in Vias /\ lesson.ref \in Ids /\ lesson.est \in Nat
    BY <1>0 DEF LessonRow
  <2>3. lesson' = new /\ run' = [run EXCEPT ![l] = next]
    BY <1>1 DEF Start
  <2> HIDE DEF new
  <2>4. next \in Run /\ next.pc = "preparing"
    BY <2>1, <2>2, Fresh DEF Run, RunPcs, NoRun
  <2> HIDE DEF next
  <2>5. run' \in [Launches -> Run] /\ EndKnown'
    BY <2>3, <2>4, RunPut
  <2>6. queue' \in [Launches -> QueueStates] /\ started' \subseteq Launches
    BY <1>0, <1>1 DEF Start, QueueStates
  <2> QED BY <1>1, <2>1, <2>3, <2>5, <2>6 DEF Start, Typed, TypeOK, ledgerVars
<1>2. ASSUME Prepare(l) PROVE Typed'
  <2> DEFINE from == IF launch[l].kind = "video" THEN cp ELSE 0
             next == [run[l] EXCEPT !.pc = "working", !.done = from]
  <2>1. from \in Nat
    BY <1>0
  <2>2. run' = [run EXCEPT ![l] = next]
    BY <1>0, <1>2 DEF Prepare
  <2> HIDE DEF from
  <2>3. next \in Run /\ next.pc = "working"
    BY <1>0, <2>1 DEF Run, RunPcs
  <2> HIDE DEF next
  <2>4. run' \in [Launches -> Run] /\ EndKnown'
    BY <2>2, <2>3, RunPut
  <2> QED BY <1>2, <2>4 DEF Prepare, Typed, TypeOK, ledgerVars
<1>3. ASSUME FinishSlide(l) PROVE Typed'
  <2> DEFINE done == run[l].done + 1
             new  == [run[l].seen EXCEPT !.spent = SpentSoFar(l, done)]
             stop == launch[l].kind = "video" /\ lesson.cancel
             next == [run[l] EXCEPT !.done = done, !.seen = new,
                                    !.pc = IF stop THEN "settling" ELSE @,
                                    !.outcome = IF stop THEN "cancel" ELSE @]
  <2>1. done \in Nat /\ SpentSoFar(l, done) \in Nat
    <3>1. done \in Nat
      BY <1>0
    <3> HIDE DEF done
    <3> QED BY <1>0, <3>1, CostBounds
  <2>2. new \in LessonRow
    BY <1>0, <2>1 DEF LessonRow
  <2>3. /\ lesson' = Flush(lesson, run[l].seen, new)
        /\ run' = [run EXCEPT ![l] = next]
        /\ run[l].pc = "working"
    BY <1>3 DEF FinishSlide
  <2>4. cp' \in 0..Slides
    BY <1>0, <1>3 DEF FinishSlide, SlidesLeft
  <2> HIDE DEF done, new
  <2>5. next \in Run /\ (next.pc = "settling" => next.outcome = "cancel")
                     /\ (next.pc # "settling" => next.pc = "working")
    BY <1>0, <2>1, <2>2, <2>3 DEF Run, RunPcs, Outcomes
  <2> HIDE DEF next
  <2>6. run' \in [Launches -> Run] /\ EndKnown'
    BY <2>3, <2>5, RunPut
  <2>7. lesson' \in LessonRow
    BY <1>0, <2>2, <2>3, FlushRow
  <2> QED BY <1>3, <2>4, <2>6, <2>7 DEF FinishSlide, Typed, TypeOK, ledgerVars
<1>4. ASSUME ObserveCancel(l) PROVE Typed'
  <2> DEFINE next == [run[l] EXCEPT !.pc = "settling", !.outcome = "cancel"]
  <2>1. run' = [run EXCEPT ![l] = next]
    BY <1>0, <1>4 DEF ObserveCancel
  <2>2. next \in Run /\ next.outcome = "cancel"
    BY <1>0 DEF Run, RunPcs, Outcomes
  <2> HIDE DEF next
  <2>3. run' \in [Launches -> Run] /\ EndKnown'
    BY <2>1, <2>2, RunPut
  <2> QED BY <1>4, <2>3 DEF ObserveCancel, Typed, TypeOK, ledgerVars
<1>5. ASSUME Publish(l) PROVE Typed'
  <2> DEFINE new  == Ended(run[l].seen, launch[l].kind,
                           IF launch[l].kind = "video" THEN "published" ELSE "ready_for_edit")
             next == [run[l] EXCEPT !.pc = "published", !.seen = new]
  <2>1. new \in LessonRow
    BY <1>0, EndedRow DEF Statuses
  <2>2. /\ lesson' = Flush(lesson, run[l].seen, new)
        /\ run' = [run EXCEPT ![l] = next]
    BY <1>5 DEF Publish
  <2> HIDE DEF new
  <2>3. next \in Run /\ next.pc = "published"
    BY <1>0, <2>1 DEF Run, RunPcs
  <2> HIDE DEF next
  <2>4. run' \in [Launches -> Run] /\ EndKnown'
    BY <2>2, <2>3, RunPut
  <2>5. lesson' \in LessonRow
    BY <1>0, <2>1, <2>2, FlushRow
  <2> QED BY <1>5, <2>4, <2>5 DEF Publish, Typed, TypeOK, ledgerVars
<1>6. ASSUME Announce(l) PROVE Typed'
  <2> DEFINE next == [run[l] EXCEPT !.pc = "settling", !.outcome = "ok"]
  <2>1. run' = [run EXCEPT ![l] = next]
    BY <1>0, <1>6 DEF Announce
  <2>2. next \in Run /\ next.outcome = "ok"
    BY <1>0 DEF Run, RunPcs, Outcomes
  <2> HIDE DEF next
  <2>3. run' \in [Launches -> Run] /\ EndKnown'
    BY <2>1, <2>2, RunPut
  <2>4. /\ delivered' \in [Launches -> SUBSET {"ok", "error", "cancel", "untouched"}]
        /\ cp' \in 0..Slides
    BY <1>0, <1>6, <1>d DEF Announce
  <2> QED BY <1>6, <2>3, <2>4 DEF Announce, Typed, TypeOK, ledgerVars
<1>7. ASSUME Fail(l) PROVE Typed'
  <2> DEFINE new  == Ended(run[l].seen, launch[l].kind, "error")
             next == [run[l] EXCEPT !.pc = "settling", !.outcome = "error", !.seen = new]
  <2>1. new \in LessonRow
    BY <1>0, EndedRow DEF Statuses
  <2>2. /\ lesson' = Flush(lesson, run[l].seen, new)
        /\ run' = [run EXCEPT ![l] = next]
    BY <1>7 DEF Fail
  <2> HIDE DEF new
  <2>3. next \in Run /\ next.outcome = "error"
    BY <1>0, <2>1 DEF Run, RunPcs, Outcomes
  <2> HIDE DEF next
  <2>4. run' \in [Launches -> Run] /\ EndKnown'
    BY <2>2, <2>3, RunPut
  <2>5. lesson' \in LessonRow
    BY <1>0, <2>1, <2>2, FlushRow
  <2>6. delivered' \in [Launches -> SUBSET {"ok", "error", "cancel", "untouched"}]
    BY <1>7, <1>d DEF Fail
  <2> QED BY <1>7, <2>4, <2>5, <2>6 DEF Fail, Typed, TypeOK, ledgerVars
<1> QED BY <1>1, <1>2, <1>3, <1>4, <1>5, <1>6, <1>7

(* The Celery task: settling the bill, and the faults of workers and       *)
(* broker.                                                                 *)
LEMMA SettleTyped ==
    ASSUME Typed, NEW l \in Launches
    PROVE  /\ SettleClaim(l) => Typed'
           /\ SettleFinalize(l) => Typed'
           /\ SettleRecord(l) => Typed'
           /\ Close(l) => Typed'
           /\ Acknowledge(l) => Typed'
           /\ WorkerCrash(l) => Typed'
           /\ TimeLimitKill(l) => Typed'
           /\ LoseMessage(l) => Typed'
<1> USE GenerationAssumption
<1>0. /\ lesson \in LessonRow /\ slots \in Nat /\ cp \in 0..Slides
      /\ queue \in [Launches -> QueueStates] /\ LedgerType
      /\ run \in [Launches -> Run] /\ run[l] \in Run
      /\ run[l].est \in Nat /\ run[l].ref \in Ids /\ run[l].done \in Nat
      /\ run[l].seen \in LessonRow /\ run[l].outcome \in Outcomes
  BY InRange
<1>d. delivered \in [Launches -> SUBSET {"ok", "error", "cancel", "untouched"}]
  BY DEF Typed, TypeOK
<1>e. run[l].pc \in {"settling", "finalizing", "recording", "closing"}
        => run[l].outcome # "none"
  BY DEF Typed, EndKnown
<1>r. NoRun \in Run /\ NoRun.pc = "none"
  BY Fresh DEF NoRun
<1>1. ASSUME SettleClaim(l) PROVE Typed'
  <2> DEFINE seen == [run[l].seen EXCEPT !.via = "none"]
             next == IF Unbilled(l) THEN [run[l] EXCEPT !.pc = "closing"]
                     ELSE [run[l] EXCEPT !.pc = "finalizing", !.claimed = lesson.via,
                                         !.seen = seen]
  <2>1. seen \in LessonRow /\ lesson.via \in Vias
    BY <1>0 DEF LessonRow, Vias
  <2>2. run' = [run EXCEPT ![l] = next]
    <3>1. CASE Unbilled(l)
      BY <1>0, <1>1, <3>1 DEF SettleClaim
    <3>2. CASE ~Unbilled(l)
      <4>1. run' = [run EXCEPT ![l] = [run[l] EXCEPT
                        !.pc = "finalizing", !.claimed = lesson.via, !.seen = seen]]
        <5>1. run' = [run EXCEPT ![l].pc = "finalizing",
                                 ![l].claimed = lesson.via,
                                 ![l].seen.via = "none"]
          BY <1>1, <3>2 DEF SettleClaim
        <5> QED BY <1>0, <5>1 DEF Run
      <4> QED BY <3>2, <4>1
    <3> QED BY <3>1, <3>2
  <2>3. lesson' \in LessonRow
    BY <1>0, <1>1, ClaimedRow DEF SettleClaim
  <2> HIDE DEF seen
  <2>4. next \in Run /\ next.outcome # "none"
    BY <1>0, <1>e, <1>1, <2>1 DEF SettleClaim, Run, RunPcs
  <2> HIDE DEF next
  <2>5. run' \in [Launches -> Run] /\ EndKnown'
    BY <2>2, <2>4, RunPut
  <2> QED BY <1>1, <2>3, <2>5 DEF SettleClaim, Typed, TypeOK, ledgerVars
<1>2. ASSUME SettleFinalize(l) PROVE Typed'
  <2> DEFINE capture == Captures(run[l].claimed, run[l].ref)
             kept == IF capture /\ ~CanFinalize(run[l].ref) THEN "none" ELSE run[l].claimed
             next == [run[l] EXCEPT !.pc = "recording", !.claimed = kept]
  <2>1. run' = [run EXCEPT ![l] = next]
    BY <1>0, <1>2 DEF SettleFinalize
  <2>2. kept \in Vias
    BY <1>0 DEF Run, Vias
  <2> HIDE DEF kept
  <2>3. next \in Run /\ next.outcome # "none"
    BY <1>0, <1>e, <1>2, <2>2 DEF SettleFinalize, Run, RunPcs
  <2> HIDE DEF next
  <2>4. run' \in [Launches -> Run] /\ EndKnown'
    BY <2>1, <2>3, RunPut
  <2>5. LedgerType' /\ UNCHANGED <<opened, credited>>
    <3>1. CASE capture /\ CanFinalize(run[l].ref)
      <4>1. run[l].ref \in Refs
        BY <1>0, <3>1 DEF Captures, Ids
      <4>2. FinalizeGeneration(run[l].ref, run[l].est, Cost(l))
        BY <1>2, <3>1 DEF SettleFinalize
      <4>3. LedgerType'
        BY <1>0, <4>1, <4>2, CostBounds, FinalizeType
      <4>4. UNCHANGED <<opened, credited>>
        BY <4>2 DEF FinalizeGeneration
      <4> QED BY <4>3, <4>4
    <3>2. CASE ~(capture /\ CanFinalize(run[l].ref))
      BY <1>0, <1>2, <3>2 DEF SettleFinalize, ledgerVars, LedgerType
    <3> QED BY <3>1, <3>2
  <2>6. slots' \in Nat
    BY <1>0, <1>2, NonNegNat DEF SettleFinalize, ReleaseSlot
  <2>7. delivered' \in [Launches -> SUBSET {"ok", "error", "cancel", "untouched"}]
    <3> DEFINE what == IF run[l].outcome # "cancel" \/ run[l].done >= 1
                       THEN run[l].outcome ELSE "untouched"
    <3>1. what \in {"ok", "error", "cancel", "untouched"}
      BY <1>0, <1>e, <1>2 DEF SettleFinalize, Outcomes
    <3>2. delivered' = [delivered EXCEPT ![l] = @ \cup {what}]
      BY <1>2 DEF SettleFinalize
    <3> HIDE DEF what
    <3> QED BY <1>d, <3>1, <3>2
  <2> QED BY <1>2, <2>4, <2>5, <2>6, <2>7, AccountStep DEF SettleFinalize, Typed, TypeOK
<1>3. ASSUME SettleRecord(l) PROVE Typed'
  <2> DEFINE old   == IF run[l].claimed = "none" THEN lesson ELSE run[l].seen
             price == IF run[l].via = "credits" THEN Cost(l) ELSE 0
             new   == [old EXCEPT !.spent = price]
             next  == [run[l] EXCEPT !.pc = "closing", !.seen = new]
  <2>1. old \in LessonRow /\ price \in Nat
    BY <1>0, CostBounds
  <2>2. lesson' = Flush(lesson, old, new) /\ run' = [run EXCEPT ![l] = next]
    BY <1>0, <1>3 DEF SettleRecord
  <2> HIDE DEF old, price
  <2>3. new \in LessonRow
    BY <2>1 DEF LessonRow
  <2> HIDE DEF new
  <2>4. next \in Run /\ next.outcome # "none"
    BY <1>0, <1>e, <1>3, <2>3 DEF SettleRecord, Run, RunPcs
  <2> HIDE DEF next
  <2>5. run' \in [Launches -> Run] /\ EndKnown'
    BY <2>2, <2>4, RunPut
  <2>6. lesson' \in LessonRow
    BY <1>0, <2>1, <2>2, <2>3, FlushRow
  <2> QED BY <1>3, <2>5, <2>6 DEF SettleRecord, Typed, TypeOK, ledgerVars
<1>4. ASSUME Close(l) PROVE Typed'
  <2> DEFINE new  == IF run[l].outcome = "cancel"
                     THEN Ended(run[l].seen, launch[l].kind, "cancelled") ELSE run[l].seen
             next == [NoRun EXCEPT !.pc = "done"]
  <2>1. new \in LessonRow
    BY <1>0, EndedRow DEF Statuses
  <2>2. lesson' = Flush(lesson, run[l].seen, new) /\ run' = [run EXCEPT ![l] = next]
    BY <1>4 DEF Close
  <2> HIDE DEF new
  <2>3. next \in Run /\ next.pc = "done"
    BY <1>r DEF Run, RunPcs, NoRun
  <2> HIDE DEF next
  <2>4. run' \in [Launches -> Run] /\ EndKnown'
    BY <2>2, <2>3, RunPut
  <2>5. lesson' \in LessonRow
    BY <1>0, <2>1, <2>2, FlushRow
  <2> QED BY <1>4, <2>4, <2>5 DEF Close, Typed, TypeOK, ledgerVars
<1>5. ASSUME Acknowledge(l) PROVE Typed'
  <2>1. run' \in [Launches -> Run] /\ EndKnown'
    BY <1>5, <1>r, RunPut DEF Acknowledge
  <2>2. queue' \in [Launches -> QueueStates]
    BY <1>0, <1>5 DEF Acknowledge, QueueStates
  <2> QED BY <1>5, <2>1, <2>2 DEF Acknowledge, Typed, TypeOK, ledgerVars
<1>6. ASSUME WorkerCrash(l) PROVE Typed'
  <2>1. run' \in [Launches -> Run] /\ EndKnown'
    BY <1>6, <1>r, RunPut DEF WorkerCrash
  <2>2. queue' \in [Launches -> QueueStates]
    BY <1>0, <1>6 DEF WorkerCrash, QueueStates
  <2> QED BY <1>6, <2>1, <2>2 DEF WorkerCrash, Typed, TypeOK, ledgerVars
<1>7. ASSUME TimeLimitKill(l) PROVE Typed'
  <2>1. run' \in [Launches -> Run] /\ EndKnown'
    BY <1>7, <1>r, RunPut DEF TimeLimitKill
  <2>2. queue' \in [Launches -> QueueStates]
    BY <1>0, <1>7 DEF TimeLimitKill, QueueStates
  <2> QED BY <1>7, <2>1, <2>2 DEF TimeLimitKill, Typed, TypeOK, ledgerVars
<1>8. ASSUME LoseMessage(l) PROVE Typed'
  <2>1. queue' \in [Launches -> QueueStates] /\ cp' \in 0..Slides
    BY <1>0, <1>8 DEF LoseMessage, QueueStates
  <2> QED BY <1>8, <2>1 DEF LoseMessage, Typed, TypeOK, EndKnown, ledgerVars
<1> QED BY <1>1, <1>2, <1>3, <1>4, <1>5, <1>6, <1>7, <1>8

(* The cancel endpoint and the startup sweep.                              *)
LEMMA CancelTyped ==
    ASSUME Typed
    PROVE  /\ CancelLoad => Typed'
           /\ Cancel => Typed'
           /\ CancelCrash => Typed'
           /\ SweepStuck => Typed'
<1> USE GenerationAssumption
<1>0. /\ lesson \in LessonRow /\ slots \in Nat /\ LedgerType
      /\ queue \in [Launches -> QueueStates]
      /\ canceller \in Canceller /\ canceller.seen \in LessonRow
      /\ cancels \in Nat /\ crashes \in Nat /\ sweeps \in Nat
  BY DEF Typed, TypeOK, LedgerType, Canceller
<1>1. ASSUME CancelLoad PROVE Typed'
  <2>1. canceller' \in Canceller
    BY <1>0, <1>1, Fresh DEF CancelLoad, Canceller, IdleCanceller
  <2> QED BY <1>1, <2>1 DEF CancelLoad, Typed, TypeOK, EndKnown, ledgerVars
<1>2. ASSUME CancelMark PROVE Typed'
  <2> DEFINE new == [canceller.seen EXCEPT !.cancel = TRUE]
  <2>1. new \in LessonRow
    BY <1>0 DEF LessonRow
  <2>2. /\ lesson' = Flush(lesson, canceller.seen, new)
        /\ canceller' = [canceller EXCEPT !.pc = "asked", !.seen = new]
    BY <1>2 DEF CancelMark
  <2> HIDE DEF new
  <2>3. lesson' \in LessonRow
    BY <1>0, <2>1, <2>2, FlushRow
  <2>4. canceller' \in Canceller
    BY <1>0, <2>1, <2>2 DEF Canceller
  <2> QED BY <1>2, <2>3, <2>4 DEF CancelMark, Typed, TypeOK, EndKnown, ledgerVars
<1>3. ASSUME CancelCooperatively PROVE Typed'
  BY <1>3, Fresh DEF CancelCooperatively, Typed, TypeOK, EndKnown, ledgerVars
<1>4. ASSUME CancelImmediately PROVE Typed'
  <2>1. canceller' \in Canceller
    BY <1>0, <1>4 DEF CancelImmediately, Canceller
  <2>2. queue' \in [Launches -> QueueStates] /\ crashes' \in Nat
    BY <1>0, <1>4 DEF CancelImmediately, QueueStates
  <2> QED BY <1>4, <2>1, <2>2 DEF CancelImmediately, Typed, TypeOK, EndKnown, ledgerVars
<1>5. ASSUME CancelClaim PROVE Typed'
  <2> DEFINE seen == [canceller.seen EXCEPT !.via = "none"]
  <2>1. seen \in LessonRow /\ lesson.via \in Vias
    BY <1>0 DEF LessonRow, Vias
  <2>2. canceller' = [canceller EXCEPT !.pc = "refunding", !.claimed = lesson.via,
                                       !.seen = seen]
    BY <1>0, <1>5 DEF CancelClaim, Canceller
  <2> HIDE DEF seen
  <2>3. canceller' \in Canceller
    BY <1>0, <2>1, <2>2 DEF Canceller
  <2>4. lesson' \in LessonRow
    BY <1>0, <1>5, ClaimedRow DEF CancelClaim
  <2> QED BY <1>5, <2>3, <2>4 DEF CancelClaim, Typed, TypeOK, EndKnown, ledgerVars
<1>6. ASSUME CancelRefund PROVE Typed'
  <2> DEFINE refunds == /\ Captures(canceller.claimed, canceller.seen.ref)
                        /\ HoldOpen(canceller.seen.ref)
  <2>1. canceller' \in Canceller
    BY <1>0, <1>6 DEF CancelRefund, Canceller
  <2>2. LedgerType' /\ UNCHANGED <<opened, credited>>
    <3>1. CASE refunds
      <4>1. canceller.seen.ref \in Refs
        BY <1>0, <3>1 DEF Captures, LessonRow, Ids
      <4>2. ReleaseReservationIfHeld(canceller.seen.ref)
        BY <1>6, <3>1 DEF CancelRefund
      <4> QED BY <1>0, <4>1, <4>2, ReleaseIfHeldType DEF ReleaseReservationIfHeld
    <3>2. CASE ~refunds
      BY <1>0, <1>6, <3>2 DEF CancelRefund, ledgerVars, LedgerType
    <3> QED BY <3>1, <3>2
  <2>3. slots' \in Nat
    BY <1>0, <1>6, NonNegNat DEF CancelRefund, ReleaseSlot
  <2> QED BY <1>6, <2>1, <2>2, <2>3, AccountStep DEF CancelRefund, Typed, TypeOK, EndKnown
<1>7. ASSUME CancelRevert PROVE Typed'
  <2> DEFINE to == IF canceller.kind = "video" /\ canceller.seen.auto
                   THEN "ready_for_edit" ELSE "draft"
  <2>1. to \in Statuses
    BY DEF Statuses
  <2>2. lesson' = IF canceller.claimed = "none"
                  THEN Ended(lesson, canceller.kind, to)
                  ELSE Flush(lesson, canceller.seen, Ended(canceller.seen, canceller.kind, to))
    BY <1>7 DEF CancelRevert
  <2> HIDE DEF to
  <2>3. lesson' \in LessonRow
    BY <1>0, <2>1, <2>2, EndedRow, FlushRow
  <2> QED BY <1>7, <2>3, Fresh DEF CancelRevert, Typed, TypeOK, EndKnown, ledgerVars
<1>8. ASSUME CancelCrash PROVE Typed'
  BY <1>8, Fresh DEF CancelCrash, Typed, TypeOK, EndKnown, ledgerVars
<1>9. ASSUME SweepStuck PROVE Typed'
  <2>1. lesson' \in LessonRow
    BY <1>0, <1>9, EndedRow DEF SweepStuck, Statuses
  <2> QED BY <1>9, <2>1 DEF SweepStuck, Typed, TypeOK, EndKnown, ledgerVars
<1> QED BY <1>1, <1>2, <1>3, <1>4, <1>5, <1>6, <1>7, <1>8, <1>9 DEF Cancel

(* One step of any actor.                                                  *)
LEMMA TypedStep == Typed /\ [Next]_vars => Typed'
<1> SUFFICES ASSUME Typed, [Next]_vars PROVE Typed'
  OBVIOUS
<1>1. ASSUME NEW l \in Launches, Request(l) \/ Start(l) \/ Work(l) \/ Fail(l) \/ Fault(l)
      PROVE  Typed'
  BY <1>1, RequestTyped, WorkTyped, SettleTyped DEF Work, Fault
<1>2. ASSUME NEW l \in Launches, NEW kind \in Kinds, NEW est \in Estimates,
             Admit(l, kind, est)
      PROVE  Typed'
  BY <1>2, RequestTyped
<1>3. CASE UNCHANGED vars
  BY <1>3 DEF vars, Typed, TypeOK, EndKnown
<1> QED BY <1>1, <1>2, <1>3, CancelTyped DEF Next

(* Every state begins within the types.                                    *)
LEMMA TypedFirst == Init => Typed
<1>1. NoRows \in Row
  BY DEF NoRows, Row
<1>2. Init => TypeOK
  BY <1>1, Fresh, GenerationAssumption DEF Init, TypeOK, QueueStates
<1>3. Init => EndKnown
  BY DEF Init, EndKnown, NoRun
<1> QED BY <1>2, <1>3 DEF Typed

(* Whatever the teacher, the workers, the broker and the backend do, every *)
(* column, key and handler holds what it can hold, and the account of a    *)
(* generation stays open.                                                  *)
THEOREM GenerationTypeCorrect == Spec => []TypeOK
<1>1. Typed => TypeOK
  BY DEF Typed
<1> QED BY <1>1, TypedFirst, TypedStep, PTL DEF Spec

-----------------------------------------------------------------------------
(* From here on the client waits until nothing is left to do before it     *)
(* launches again (Patience = "settled").  Launch l is being worked on: by *)
(* its request, by the broker or by a worker.                              *)
Working(l) ==
    \/ launch[l].pc \notin {"idle", "returned", "refused"}
    \/ queue[l] \in {"queued", "running"}

OneAtATime == \A k, l \in Launches : Working(k) /\ Working(l) => k = l

(* The three places a claim on the bill can be.                            *)
TaskClaims(l) == run[l].claimed # "none"
EndpointClaims(l) == launch[l].pc = "releasing" /\ launch[l].via # "none"
CancelClaims == canceller.claimed # "none"

(* A message exists only once it was sent, a run only while its message is *)
(* out, a claim only after the step that makes it.                         *)
Staged(l) ==
    /\ launch[l].pc \notin {"enqueued", "returned"} => queue[l] = "none"
    /\ run[l].pc # "none" => queue[l] = "running"
    /\ TaskClaims(l) => run[l].pc \in {"finalizing", "recording", "closing"}

(* Until a launch has written its bill, nobody else touches the lesson.    *)
Alone(l) ==
    launch[l].pc \in {"admitted", "billed"} =>
        /\ launch[l].seen = lesson
        /\ lesson.status \notin Active
        /\ canceller.pc = "idle"

(* billing_via is a token: a claim takes it out of the row, and only a new *)
(* bill puts it there.                                                     *)
Exclusive(l) ==
    TaskClaims(l) \/ EndpointClaims(l) => lesson.via = "none" /\ ~CancelClaims

(* The task works with the bill in the row, and that bill is its own.      *)
OwnBill(l) ==
    /\ Working(l) /\ launch[l].pc \notin {"admitted", "billed"}
          => lesson.ref \in {l, NoId}
    /\ run[l].pc \notin {"none", "done"}
          => run[l].ref = lesson.ref /\ run[l].est = lesson.est

Holds(ref, amount) == HoldOpen(ref) /\ ledger[ref].last = amount

(* Whoever may settle a bill finds an open hold of the amount it knows.    *)
Backed(l) ==
    /\ RunRow(ledger[l])
    /\ launch[l].pc \in {"idle", "admitted"} => ledger[l].reserves = 0
    /\ launch[l].pc = "admitted" => launch[l].est \in Estimates
    /\ launch[l].pc \in {"billed", "releasing"} /\ launch[l].via = "credits"
          => Holds(l, launch[l].est)
    /\ launch[l].pc \in {"written", "unqueued"} /\ lesson.via = "credits"
          => lesson.ref = l /\ lesson.est = launch[l].est
    /\ run[l].pc = "finalizing" /\ run[l].claimed = "credits"
          => run[l].ref \in Launches /\ Holds(run[l].ref, run[l].est)

(* What a launch has paid for, it has got.                                 *)
PaidFor(l) ==
    ledger[l].charged > (IF "untouched" \in delivered[l] THEN BaseCost ELSE 0)
        => delivered[l] \cap {"ok", "cancel"} # {}

Local(l) ==
    Staged(l) /\ Alone(l) /\ Exclusive(l) /\ OwnBill(l) /\ Backed(l) /\ PaidFor(l)

(* The bill in the row, and the claim of the cancel endpoint.              *)
RowBacked ==
    /\ lesson.via = "credits" => lesson.ref \in Launches /\ Holds(lesson.ref, lesson.est)
    /\ CancelClaims => lesson.via = "none" /\ canceller.pc \in {"refunding", "reverting"}

Settling == OneAtATime /\ (\A l \in Launches : Local(l)) /\ RowBacked

(* The columns of the row that say how it is billed.                       *)
BillKept ==
    lesson'.via = lesson.via /\ lesson'.ref = lesson.ref /\ lesson'.est = lesson.est

(* A step on behalf of launch l leaves the other launches alone.           *)
OnlyAt(l) ==
    /\ canceller' = canceller
    /\ \A k \in Launches \ {l} :
          /\ launch'[k] = launch[k] /\ queue'[k] = queue[k] /\ run'[k] = run[k]
          /\ ledger'[k] = ledger[k] /\ delivered'[k] = delivered[k]

(* While l is the only launch at work, the others stay as they are.        *)
LEMMA LaunchStep ==
    ASSUME Settling, NEW l \in Launches, OnlyAt(l),
           \A k \in Launches : Working(k) => k = l,
           Local(l)', RowBacked'
    PROVE  Settling'
<1>1. ASSUME NEW k \in Launches, k # l
      PROVE  ~Working(k)' /\ Local(k)'
  <2>1. /\ launch[k].pc \in {"idle", "returned", "refused"}
        /\ queue[k] \notin {"queued", "running"}
        /\ ~Working(k)
    BY <1>1 DEF Working
  <2>2. /\ launch'[k] = launch[k] /\ queue'[k] = queue[k] /\ run'[k] = run[k]
        /\ ledger'[k] = ledger[k] /\ delivered'[k] = delivered[k]
    BY <1>1 DEF OnlyAt
  <2>3. run[k].pc = "none" /\ run[k].claimed = "none"
    BY <2>1 DEF Settling, Local, Staged, TaskClaims
  <2>4. ~Working(k)'
    BY <2>1, <2>2 DEF Working
  <2>5. Staged(k)' /\ Alone(k)' /\ Exclusive(k)' /\ OwnBill(k)'
    BY <2>1, <2>2, <2>3, <2>4
       DEF Settling, Local, Staged, Alone, Exclusive, OwnBill, TaskClaims, EndpointClaims
  <2>6. Backed(k)' /\ PaidFor(k)'
    BY <2>1, <2>2, <2>3 DEF Settling, Local, Backed, RunRow, PaidFor
  <2> QED BY <2>4, <2>5, <2>6 DEF Local
<1>2. \A k \in Launches : Working(k)' => k = l
  BY <1>1
<1>3. OneAtATime'
  BY <1>2 DEF OneAtATime
<1> QED BY <1>1, <1>3 DEF Settling

(* A launch at work is the only one, and before its bill is written no     *)
(* task and no cancel is at work.                                          *)
LEMMA Sole ==
    ASSUME Settling, NEW l \in Launches, Working(l)
    PROVE  /\ \A k \in Launches : Working(k) => k = l
           /\ Local(l) /\ RowBacked
  BY DEF Settling, OneAtATime

(* A run that goes on without touching the bill.                           *)
LEMMA RunMoves ==
    ASSUME Settling, NEW l \in Launches, OnlyAt(l), BillKept,
           UNCHANGED <<launch, queue, ledger>>,
           run[l].pc \notin {"none", "done"},
           run'[l].pc \notin {"none", "done", "finalizing"},
           run'[l].ref = run[l].ref, run'[l].est = run[l].est,
           run'[l].claimed = run[l].claimed,
           TaskClaims(l) => run'[l].pc \in {"recording", "closing"},
           delivered'[l] \in {delivered[l] \cup {what} : what \in {"ok", "error"}}
                              \cup {delivered[l]}
    PROVE  Settling'
<1>1. Working(l) /\ Local(l) /\ RowBacked /\ \A k \in Launches : Working(k) => k = l
  BY Sole DEF Settling, Local, Staged, Working
<1>2. queue[l] = "running" /\ launch[l].pc \in {"enqueued", "returned"}
  BY <1>1 DEF Local, Staged
<1>3. Staged(l)' /\ Alone(l)' /\ Exclusive(l)' /\ OwnBill(l)'
  BY <1>1, <1>2 DEF Local, Staged, Alone, Exclusive, OwnBill, TaskClaims,
                    EndpointClaims, CancelClaims, OnlyAt, BillKept, Working
<1>4. Backed(l)'
  BY <1>1, <1>2 DEF Local, Backed, RunRow, Holds, HoldOpen, BillKept
<1>5. PaidFor(l)'
  BY <1>1 DEF Local, PaidFor
<1>6. RowBacked'
  BY <1>1 DEF RowBacked, Holds, HoldOpen, BillKept, OnlyAt, CancelClaims
<1> QED BY <1>1, <1>3, <1>4, <1>5, <1>6, LaunchStep DEF Local

(* A run that ends or is cut off: its claim, if any, is gone with it.      *)
LEMMA RunStops ==
    ASSUME Settling, NEW l \in Launches, OnlyAt(l), BillKept,
           UNCHANGED <<launch, ledger, delivered>>,
           queue[l] \in {"queued", "running"},
           run'[l].pc \in {"none", "done"}, run'[l].claimed = "none",
           run'[l].pc # "none" => queue'[l] = "running"
    PROVE  Settling'
<1>1. Working(l) /\ Local(l) /\ RowBacked /\ \A k \in Launches : Working(k) => k = l
  BY Sole DEF Working
<1>2. launch[l].pc \in {"enqueued", "returned"}
  BY <1>1 DEF Local, Staged
<1>3. Staged(l)' /\ Alone(l)' /\ Exclusive(l)' /\ OwnBill(l)'
  BY <1>1, <1>2 DEF Local, Staged, Alone, Exclusive, OwnBill, TaskClaims,
                    EndpointClaims, CancelClaims, OnlyAt, BillKept, Working
<1>4. Backed(l)' /\ PaidFor(l)'
  BY <1>1, <1>2 DEF Local, Backed, RunRow, PaidFor
<1>5. RowBacked'
  BY <1>1 DEF RowBacked, Holds, HoldOpen, BillKept, OnlyAt, CancelClaims
<1> QED BY <1>1, <1>3, <1>4, <1>5, LaunchStep DEF Local

(* A request that moves on or ends without touching bill or account.       *)
LEMMA RequestMoves ==
    ASSUME Settling, NEW l \in Launches, OnlyAt(l), BillKept,
           UNCHANGED <<run, ledger, delivered>>,
           launch[l].pc \notin {"idle", "returned", "refused"},
           launch'[l].pc \in {"enqueued", "returned", "unqueued", "refused"},
           launch'[l].pc \in {"enqueued", "returned"}
               => launch[l].pc \notin {"admitted", "billed"},
           launch'[l].pc = "unqueued"
               => launch[l].pc = "written" /\ launch'[l].est = launch[l].est,
           launch'[l].pc = "enqueued" \/ queue'[l] = queue[l],
           launch[l].pc # "enqueued" \/ launch'[l].pc = "returned",
           launch'[l].pc = "enqueued" => launch[l].pc = "written"
    PROVE  Settling'
<1>1. Working(l) /\ Local(l) /\ RowBacked /\ \A k \in Launches : Working(k) => k = l
  BY Sole DEF Working
<1>2. launch[l].pc # "enqueued" => queue[l] = "none" /\ run[l].pc = "none"
  BY <1>1 DEF Local, Staged
<1>3. Staged(l)' /\ Alone(l)' /\ Exclusive(l)' /\ OwnBill(l)'
  BY <1>1, <1>2 DEF Local, Staged, Alone, Exclusive, OwnBill, TaskClaims,
                    EndpointClaims, CancelClaims, OnlyAt, BillKept, Working
<1>4. Backed(l)' /\ PaidFor(l)'
  BY <1>1, <1>2 DEF Local, Backed, RunRow, PaidFor, Holds, HoldOpen, BillKept
<1>5. RowBacked'
  BY <1>1 DEF RowBacked, Holds, HoldOpen, BillKept, OnlyAt, CancelClaims
<1> QED BY <1>1, <1>3, <1>4, <1>5, LaunchStep DEF Local

(* The UPDATEs of the task and the endpoints leave the bill alone.         *)
LEMMA FlushKeepsBill ==
    ASSUME NEW row \in LessonRow, NEW seen \in LessonRow, NEW new \in LessonRow,
           new.via = seen.via, new.ref = seen.ref, new.est = seen.est,
           lesson = row, lesson' = Flush(row, seen, new)
    PROVE  BillKept
  BY FlushRow DEF BillKept

(* The task at work, up to its outcome.                                    *)
LEMMA WorkSettles ==
    ASSUME Typed, Settling, NEW l \in Launches
    PROVE  /\ Prepare(l) => Settling'
           /\ FinishSlide(l) => Settling'
           /\ ObserveCancel(l) => Settling'
           /\ Publish(l) => Settling'
           /\ Announce(l) => Settling'
           /\ Fail(l) => Settling'
           /\ SettleRecord(l) => Settling'
<1>0. /\ lesson \in LessonRow /\ run \in [Launches -> Run] /\ run[l] \in Run
      /\ run[l].seen \in LessonRow /\ run[l].done \in Nat
      /\ TaskClaims(l) => run[l].pc \in {"finalizing", "recording", "closing"}
  BY InRange DEF Settling, Local, Staged
<1>d. delivered \in [Launches -> SUBSET {"ok", "error", "cancel", "untouched"}]
  BY DEF Typed, TypeOK
<1>1. ASSUME Prepare(l) PROVE Settling'
  <2>1. OnlyAt(l) /\ BillKept
    BY <1>0, <1>1 DEF Prepare, OnlyAt, BillKept, ledgerVars
  <2> QED BY <1>0, <1>1, <2>1, RunMoves DEF Prepare, ledgerVars, Run
<1>2. ASSUME FinishSlide(l) PROVE Settling'
  <2> DEFINE done == run[l].done + 1
             new  == [run[l].seen EXCEPT !.spent = SpentSoFar(l, done)]
  <2>1. /\ new \in LessonRow
        /\ new.via = run[l].seen.via /\ new.ref = run[l].seen.ref
        /\ new.est = run[l].seen.est
    <3>1. done \in Nat
      BY <1>0
    <3>2. SpentSoFar(l, done) \in Nat
      <4> HIDE DEF done
      <4> QED BY <3>1, CostBounds, InRange
    <3> HIDE DEF done
    <3> QED BY <1>0, <3>2 DEF LessonRow
  <2>2. lesson' = Flush(lesson, run[l].seen, new)
    BY <1>2 DEF FinishSlide
  <2>3. BillKept
    <3> HIDE DEF new
    <3> QED BY <1>0, <2>1, <2>2, FlushKeepsBill
  <2>4. OnlyAt(l)
    BY <1>0, <1>2 DEF FinishSlide, OnlyAt, ledgerVars
  <2>5. /\ run[l].pc = "working" /\ run'[l].pc \in {"working", "settling"}
        /\ run'[l].ref = run[l].ref /\ run'[l].est = run[l].est
        /\ run'[l].claimed = run[l].claimed
    BY <1>0, <1>2 DEF FinishSlide, Run
  <2> QED BY <1>0, <1>2, <2>3, <2>4, <2>5, RunMoves DEF FinishSlide, ledgerVars
<1>3. ASSUME ObserveCancel(l) PROVE Settling'
  <2>1. OnlyAt(l) /\ BillKept
    BY <1>0, <1>3 DEF ObserveCancel, OnlyAt, BillKept, ledgerVars
  <2> QED BY <1>0, <1>3, <2>1, RunMoves DEF ObserveCancel, ledgerVars, Run
<1>4. ASSUME Publish(l) PROVE Settling'
  <2> DEFINE new == Ended(run[l].seen, launch[l].kind,
                          IF launch[l].kind = "video" THEN "published" ELSE "ready_for_edit")
  <2>1. /\ new \in LessonRow
        /\ new.via = run[l].seen.via /\ new.ref = run[l].seen.ref
        /\ new.est = run[l].seen.est
    BY <1>0, EndedRow DEF Statuses
  <2>2. lesson' = Flush(lesson, run[l].seen, new)
    BY <1>4 DEF Publish
  <2>3. BillKept
    <3> HIDE DEF new
    <3> QED BY <1>0, <2>1, <2>2, FlushKeepsBill
  <2>4. OnlyAt(l)
    BY <1>0, <1>4 DEF Publish, OnlyAt, ledgerVars
  <2>5. /\ run[l].pc = "working" /\ run'[l].pc = "published"
        /\ run'[l].ref = run[l].ref /\ run'[l].est = run[l].est
        /\ run'[l].claimed = run[l].claimed
    BY <1>0, <1>4 DEF Publish, Run
  <2> QED BY <1>0, <1>4, <2>3, <2>4, <2>5, RunMoves DEF Publish, ledgerVars
<1>5. ASSUME Announce(l) PROVE Settling'
  <2>1. OnlyAt(l) /\ BillKept
    BY <1>0, <1>d, <1>5 DEF Announce, OnlyAt, BillKept, ledgerVars
  <2>2. delivered'[l] = delivered[l] \cup {"ok"}
    BY <1>d, <1>5 DEF Announce
  <2> QED BY <1>0, <1>5, <2>1, <2>2, RunMoves DEF Announce, ledgerVars, Run
<1>6. ASSUME Fail(l) PROVE Settling'
  <2> DEFINE new == Ended(run[l].seen, launch[l].kind, "error")
  <2>1. /\ new \in LessonRow
        /\ new.via = run[l].seen.via /\ new.ref = run[l].seen.ref
        /\ new.est = run[l].seen.est
    BY <1>0, EndedRow DEF Statuses
  <2>2. lesson' = Flush(lesson, run[l].seen, new)
    BY <1>6 DEF Fail
  <2>3. BillKept
    <3> HIDE DEF new
    <3> QED BY <1>0, <2>1, <2>2, FlushKeepsBill
  <2>4. OnlyAt(l) /\ delivered'[l] = delivered[l] \cup {"error"}
    BY <1>0, <1>d, <1>6 DEF Fail, OnlyAt, ledgerVars
  <2>5. /\ run[l].pc \in {"preparing", "working", "published"}
        /\ run'[l].pc = "settling"
        /\ run'[l].ref = run[l].ref /\ run'[l].est = run[l].est
        /\ run'[l].claimed = run[l].claimed
    BY <1>0, <1>6 DEF Fail, Run
  <2> QED BY <1>0, <1>6, <2>3, <2>4, <2>5, RunMoves DEF Fail, ledgerVars
<1>7. ASSUME SettleRecord(l) PROVE Settling'
  <2> DEFINE old   == IF run[l].claimed = "none" THEN lesson ELSE run[l].seen
             price == IF run[l].via = "credits" THEN Cost(l) ELSE 0
             new   == [old EXCEPT !.spent = price]
  <2>1. old \in LessonRow /\ price \in Nat
    BY <1>0, CostBounds
  <2>2. lesson' = Flush(lesson, old, new)
    BY <1>7 DEF SettleRecord
  <2>3. BillKept
    <3> HIDE DEF old, price
    <3>1. /\ new \in LessonRow
          /\ new.via = old.via /\ new.ref = old.ref /\ new.est = old.est
      BY <2>1 DEF LessonRow
    <3> HIDE DEF new
    <3> QED BY <1>0, <2>1, <2>2, <3>1, FlushKeepsBill
  <2>4. OnlyAt(l)
    BY <1>0, <1>7 DEF SettleRecord, OnlyAt, ledgerVars
  <2>5. /\ run[l].pc = "recording" /\ run'[l].pc = "closing"
        /\ run'[l].ref = run[l].ref /\ run'[l].est = run[l].est
        /\ run'[l].claimed = run[l].claimed
    BY <1>0, <1>7 DEF SettleRecord, Run
  <2> QED BY <1>0, <1>7, <2>3, <2>4, <2>5, RunMoves DEF SettleRecord, ledgerVars
<1> QED BY <1>1, <1>2, <1>3, <1>4, <1>5, <1>6, <1>7

(* The end of a run, however it comes.                                     *)
LEMMA EndSettles ==
    ASSUME Typed, Settling, NEW l \in Launches
    PROVE  /\ Close(l) => Settling'
           /\ Acknowledge(l) => Settling'
           /\ WorkerCrash(l) => Settling'
           /\ TimeLimitKill(l) => Settling'
           /\ LoseMessage(l) => Settling'
<1>0. /\ lesson \in LessonRow /\ run \in [Launches -> Run] /\ run[l] \in Run
      /\ run[l].seen \in LessonRow /\ queue \in [Launches -> QueueStates]
      /\ run[l].pc # "none" => queue[l] = "running"
      /\ TaskClaims(l) => run[l].pc \in {"finalizing", "recording", "closing"}
  BY InRange DEF Settling, Local, Staged
<1>r. NoRun.pc = "none" /\ NoRun.claimed = "none"
  BY DEF NoRun
<1>1. ASSUME Close(l) PROVE Settling'
  <2> DEFINE new == IF run[l].outcome = "cancel"
                    THEN Ended(run[l].seen, launch[l].kind, "cancelled") ELSE run[l].seen
  <2>1. /\ new \in LessonRow
        /\ new.via = run[l].seen.via /\ new.ref = run[l].seen.ref
        /\ new.est = run[l].seen.est
    BY <1>0, EndedRow DEF Statuses
  <2>2. lesson' = Flush(lesson, run[l].seen, new)
    BY <1>1 DEF Close
  <2>3. BillKept
    <3> HIDE DEF new
    <3> QED BY <1>0, <2>1, <2>2, FlushKeepsBill
  <2>4. OnlyAt(l)
    BY <1>0, <1>1 DEF Close, OnlyAt, ledgerVars
  <2>5. run'[l].pc = "done" /\ run'[l].claimed = "none"
    BY <1>0, <1>1 DEF Close, NoRun
  <2> QED BY <1>0, <1>1, <2>3, <2>4, <2>5, RunStops DEF Close, ledgerVars
<1>2. ASSUME Acknowledge(l) \/ WorkerCrash(l) \/ TimeLimitKill(l) PROVE Settling'
  <2>1. OnlyAt(l) /\ BillKept
    BY <1>0, <1>2 DEF Acknowledge, WorkerCrash, TimeLimitKill, OnlyAt, BillKept, ledgerVars
  <2>2. /\ run'[l].pc = "none" /\ run'[l].claimed = "none"
        /\ queue[l] = "running"
        /\ UNCHANGED <<launch, ledger, delivered>>
    BY <1>0, <1>2, <1>r DEF Acknowledge, WorkerCrash, TimeLimitKill, ledgerVars
  <2> QED BY <2>1, <2>2, RunStops
<1>3. ASSUME LoseMessage(l) PROVE Settling'
  <2>1. OnlyAt(l) /\ BillKept
    BY <1>0, <1>3 DEF LoseMessage, OnlyAt, BillKept, ledgerVars
  <2>2. run[l].pc = "none" /\ run[l].claimed = "none"
    BY <1>0, <1>3 DEF LoseMessage, TaskClaims
  <2> QED BY <1>3, <2>1, <2>2, RunStops DEF LoseMessage, ledgerVars
<1> QED BY <1>1, <1>2, <1>3

(* Requests that move on without touching bill or account.                 *)
LEMMA RequestSettles ==
    ASSUME Typed, Settling, NEW l \in Launches
    PROVE  /\ RefuseUnpaid(l) => Settling'
           /\ Enqueue(l) => Settling'
           /\ SaveTaskId(l) => Settling'
           /\ EnqueueFails(l) => Settling'
           /\ Redraft(l) => Settling'
           /\ EndpointCrash(l) => Settling'
<1>0. /\ lesson \in LessonRow /\ launch \in [Launches -> Launch] /\ launch[l] \in Launch
      /\ launch[l].seen \in LessonRow /\ queue \in [Launches -> QueueStates]
  BY InRange
<1>i. [IdleLaunch EXCEPT !.pc = "refused"].pc = "refused"
  BY DEF IdleLaunch
<1>1. ASSUME RefuseUnpaid(l) PROVE Settling'
  <2>1. OnlyAt(l) /\ BillKept /\ launch'[l].pc = "refused"
    BY <1>0, <1>1, <1>i DEF RefuseUnpaid, OnlyAt, BillKept, ledgerVars
  <2> QED BY <1>1, <2>1, RequestMoves DEF RefuseUnpaid, ledgerVars
<1>2. ASSUME Enqueue(l) PROVE Settling'
  <2>1. OnlyAt(l) /\ BillKept /\ launch'[l].pc = "enqueued"
    BY <1>0, <1>2 DEF Enqueue, OnlyAt, BillKept, ledgerVars, Launch
  <2> QED BY <1>2, <2>1, RequestMoves DEF Enqueue, ledgerVars
<1>3. ASSUME SaveTaskId(l) PROVE Settling'
  <2> DEFINE new == WithTask(launch[l].seen, launch[l].kind, l)
  <2>1. /\ new \in LessonRow
        /\ new.via = launch[l].seen.via /\ new.ref = launch[l].seen.ref
        /\ new.est = launch[l].seen.est
    BY <1>0, WithTaskRow DEF Ids
  <2>2. lesson' = Flush(lesson, launch[l].seen, new)
    BY <1>3 DEF SaveTaskId
  <2>3. BillKept
    <3> HIDE DEF new
    <3> QED BY <1>0, <2>1, <2>2, FlushKeepsBill
  <2>4. OnlyAt(l) /\ launch'[l].pc = "returned"
    BY <1>0, <1>3 DEF SaveTaskId, OnlyAt, ledgerVars, Launch
  <2> QED BY <1>3, <2>3, <2>4, RequestMoves DEF SaveTaskId, ledgerVars
<1>4. ASSUME EnqueueFails(l) PROVE Settling'
  <2>1. /\ OnlyAt(l) /\ BillKept /\ launch'[l].pc = "unqueued"
        /\ launch'[l].est = launch[l].est
    BY <1>0, <1>4 DEF EnqueueFails, OnlyAt, BillKept, ledgerVars, Launch
  <2> QED BY <1>4, <2>1, RequestMoves DEF EnqueueFails, ledgerVars
<1>5. ASSUME Redraft(l) PROVE Settling'
  <2> DEFINE new == [launch[l].seen EXCEPT !.status = "draft"]
  <2>1. /\ new \in LessonRow
        /\ new.via = launch[l].seen.via /\ new.ref = launch[l].seen.ref
        /\ new.est = launch[l].seen.est
    BY <1>0 DEF LessonRow, Statuses
  <2>2. lesson' = [lesson EXCEPT !.status = "draft"]
        \/ lesson' = Flush(lesson, launch[l].seen, new)
    BY <1>5 DEF Redraft
  <2>3. BillKept
    <3>1. CASE lesson' = [lesson EXCEPT !.status = "draft"]
      BY <1>0, <3>1 DEF BillKept, LessonRow
    <3>2. CASE lesson' = Flush(lesson, launch[l].seen, new)
      <4> HIDE DEF new
      <4> QED BY <1>0, <2>1, <3>2, FlushKeepsBill
    <3> QED BY <2>2, <3>1, <3>2
  <2>4. OnlyAt(l) /\ launch'[l].pc = "refused"
    BY <1>0, <1>5, <1>i DEF Redraft, OnlyAt, ledgerVars
  <2> QED BY <1>5, <2>3, <2>4, RequestMoves DEF Redraft, ledgerVars
<1>6. ASSUME EndpointCrash(l) PROVE Settling'
  <2>1. OnlyAt(l) /\ BillKept
    BY <1>0, <1>6 DEF EndpointCrash, OnlyAt, BillKept, ledgerVars
  <2>2. IF launch[l].pc = "enqueued" THEN launch'[l].pc = "returned"
                                     ELSE launch'[l].pc = "refused"
    BY <1>0, <1>6, <1>i DEF EndpointCrash, Launch
  <2> QED BY <1>6, <2>1, <2>2, RequestMoves DEF EndpointCrash, ledgerVars
<1> QED BY <1>1, <1>2, <1>3, <1>4, <1>5, <1>6

(* Opening a launch and writing its bill.                                  *)
LEMMA OpeningSettles ==
    ASSUME Typed, Settling, Patience = "settled", NEW l \in Launches
    PROVE  /\ \A kind \in Kinds, est \in Estimates : Admit(l, kind, est) => Settling'
           /\ BillTrial(l) => Settling'
           /\ BillCredits(l) => Settling'
           /\ WriteBilling(l) => Settling'
<1> USE GenerationAssumption
<1>0. /\ lesson \in LessonRow /\ launch \in [Launches -> Launch] /\ launch[l] \in Launch
      /\ launch[l].seen \in LessonRow /\ launch[l].est \in Nat
      /\ LedgerType /\ l \in Refs /\ Local(l) /\ RowBacked
  BY InRange DEF Settling
<1>1. ASSUME NEW kind \in Kinds, NEW est \in Estimates, Admit(l, kind, est)
      PROVE  Settling'
  <2>1. Quiet /\ launch[l].pc = "idle" /\ lesson.status \notin Active
    BY <1>1 DEF Admit, ClientReady
  <2>2. ~Working(l) /\ \A k \in Launches : ~Working(k)
    BY <2>1 DEF Quiet, Working
  <2>3. queue[l] = "none" /\ run[l].pc = "none" /\ run[l].claimed = "none"
    BY <1>0, <2>1 DEF Local, Staged, TaskClaims
  <2>4. /\ OnlyAt(l) /\ launch'[l].pc = "admitted" /\ launch'[l].est = est
        /\ launch'[l].seen = lesson
        /\ UNCHANGED <<lesson, queue, run, ledger, delivered, canceller>>
    BY <1>0, <1>1 DEF Admit, OnlyAt, ledgerVars
  <2>5. Staged(l)' /\ Alone(l)' /\ Exclusive(l)' /\ OwnBill(l)' /\ PaidFor(l)'
    BY <1>0, <2>1, <2>3, <2>4 DEF Local, Quiet, Staged, Alone, Exclusive, OwnBill,
                                 PaidFor, TaskClaims, EndpointClaims
  <2>6. Backed(l)'
    BY <1>0, <2>1, <2>3, <2>4 DEF Local, Backed, RunRow
  <2>7. RowBacked'
    BY <1>0, <2>4 DEF RowBacked, Holds, HoldOpen, CancelClaims
  <2> QED BY <2>2, <2>4, <2>5, <2>6, <2>7, LaunchStep DEF Local
<1>b. ASSUME launch[l].pc \in {"admitted", "billed"}
      PROVE  /\ \A k \in Launches : Working(k) => k = l
             /\ queue[l] = "none" /\ run[l].pc = "none" /\ run[l].claimed = "none"
             /\ launch[l].seen = lesson /\ lesson.status \notin Active
             /\ canceller.pc = "idle" /\ ~CancelClaims
  <2>1. Working(l)
    BY <1>b DEF Working
  <2>2. \A k \in Launches : Working(k) => k = l
    BY <2>1, Sole
  <2> QED BY <1>0, <1>b, <2>2 DEF Local, Staged, Alone, TaskClaims, RowBacked
<1>2. ASSUME BillTrial(l) PROVE Settling'
  <2>1. launch[l].pc = "admitted"
    BY <1>2 DEF BillTrial
  <2>2. /\ OnlyAt(l) /\ launch'[l].pc = "billed" /\ launch'[l].via = "trial"
        /\ launch'[l].seen = launch[l].seen
        /\ UNCHANGED <<lesson, queue, run, ledger, delivered, canceller>>
    BY <1>0, <1>2 DEF BillTrial, OnlyAt, ledgerVars, Launch
  <2>3. Staged(l)' /\ Alone(l)' /\ Exclusive(l)' /\ OwnBill(l)' /\ PaidFor(l)'
    BY <1>0, <1>b, <2>1, <2>2 DEF Local, Staged, Alone, Exclusive, OwnBill,
                                 PaidFor, TaskClaims, EndpointClaims
  <2>4. Backed(l)'
    BY <1>0, <1>b, <2>1, <2>2 DEF Local, Backed, RunRow
  <2>5. RowBacked'
    BY <1>0, <2>2 DEF RowBacked, Holds, HoldOpen, CancelClaims
  <2> QED BY <1>b, <2>1, <2>2, <2>3, <2>4, <2>5, LaunchStep DEF Local
<1>3. ASSUME BillCredits(l) PROVE Settling'
  <2>1. launch[l].pc = "admitted"
    BY <1>3 DEF BillCredits
  <2>2. /\ OnlyAt(l) /\ launch'[l].pc = "billed" /\ launch'[l].seen = launch[l].seen
        /\ launch'[l].est = launch[l].est
        /\ UNCHANGED <<lesson, queue, run, delivered, canceller>>
        /\ ledger'[l] = Reserving(ledger[l], launch[l].est)
    BY <1>0, <1>3 DEF BillCredits, ReserveCredits, LedgerType, OnlyAt, Launch
  <2>3. ledger[l] \in Row /\ RunRow(ledger[l]) /\ ledger[l].reserves = 0
    BY <1>0, <2>1 DEF LedgerType, Local, Backed
  <2>4. /\ RunRow(ledger'[l])
        /\ ledger'[l].reserves = 1 /\ ledger'[l].finals = 0
        /\ ledger'[l].last = launch[l].est /\ ledger'[l].charged = 0
    <3> DEFINE next == Reserving(ledger[l], launch[l].est)
    <3>1. ledger[l].finals = 0 /\ ledger[l].charged = 0
      BY <2>3 DEF RunRow, Row
    <3>2. /\ next.reserves = ledger[l].reserves + 1 /\ next.finals = ledger[l].finals
          /\ next.last = launch[l].est /\ next.charged = ledger[l].charged
      BY <1>0, <2>3, ReservingRow
    <3>3. RunRow(next)
      BY <1>0, <2>3, RunReserved
    <3> HIDE DEF next
    <3>4. ledger'[l] = next
      BY <2>2 DEF next
    <3>5. RunRow(ledger'[l])
      BY <3>3, <3>4
    <3> QED BY <2>3, <3>1, <3>2, <3>4, <3>5
  <2>5. Staged(l)' /\ Alone(l)' /\ Exclusive(l)' /\ OwnBill(l)'
    BY <1>0, <1>b, <2>1, <2>2 DEF Local, Staged, Alone, Exclusive, OwnBill,
                                 TaskClaims, EndpointClaims
  <2>6. PaidFor(l)'
    BY <2>4 DEF PaidFor
  <2>7. Backed(l)'
    BY <1>b, <2>1, <2>2, <2>4 DEF Backed, RunRow, Holds, HoldOpen
  <2>8. RowBacked'
    <3>1. lesson.via = "credits" => lesson.ref \in Launches \ {l}
      BY <1>0, <2>3 DEF RowBacked, Holds, HoldOpen, RunRow
    <3> QED BY <1>0, <2>2, <3>1 DEF RowBacked, Holds, HoldOpen, CancelClaims, OnlyAt
  <2> QED BY <1>b, <2>1, <2>2, <2>5, <2>6, <2>7, <2>8, LaunchStep DEF Local
<1>4. ASSUME WriteBilling(l) PROVE Settling'
  <2> DEFINE me   == launch[l]
             paid == me.via = "credits"
             new  == [me.seen EXCEPT
                        !.est = IF paid THEN me.est ELSE 0,
                        !.spent = 0,
                        !.ref = IF paid THEN l ELSE NoId,
                        !.via = me.via,
                        !.cancel = FALSE,
                        !.auto = @ \/ me.kind = "vision",
                        !.status = IF me.kind = "vision" THEN "analyzing" ELSE @]
  <2>1. /\ me.pc = "billed" /\ lesson' = Flush(lesson, me.seen, new)
        /\ launch' = [launch EXCEPT ![l].pc = "written", ![l].seen = new]
    BY <1>4 DEF WriteBilling
  <2>2. /\ new.via = me.via
        /\ new.ref = IF paid THEN l ELSE NoId
        /\ new.est = IF paid THEN me.est ELSE 0
    BY <1>0 DEF LessonRow
  <2>3. Flush(lesson, lesson, new).via = new.via
        /\ Flush(lesson, lesson, new).ref = new.ref
        /\ Flush(lesson, lesson, new).est = new.est
    BY DEF Flush, Column
  <2>4. /\ OnlyAt(l) /\ UNCHANGED <<queue, run, ledger, delivered, canceller>>
        /\ launch'[l].pc = "written" /\ launch'[l].est = me.est
    <3> HIDE DEF new
    <3>1. launch'[l].pc = "written" /\ launch'[l].est = launch[l].est
      BY <1>0, <2>1 DEF Launch
    <3>2. \A k \in Launches \ {l} : launch'[k] = launch[k]
      BY <1>0, <2>1
    <3>3. UNCHANGED <<queue, run, ledger, delivered, canceller>>
      BY <1>4 DEF WriteBilling, ledgerVars
    <3> QED BY <3>1, <3>2, <3>3 DEF OnlyAt
  <2>5. /\ lesson'.via = launch[l].via
        /\ lesson'.via = "credits" => lesson'.ref = l /\ lesson'.est = launch[l].est
        /\ lesson'.ref \in {l, NoId}
    BY <1>b, <2>1, <2>2, <2>3
  <2> HIDE DEF new
  <2>6. Staged(l)' /\ Alone(l)' /\ Exclusive(l)' /\ OwnBill(l)' /\ PaidFor(l)'
    BY <1>0, <1>b, <2>1, <2>4, <2>5 DEF Local, Staged, Alone, Exclusive, OwnBill,
                                       PaidFor, TaskClaims, EndpointClaims
  <2>7. Backed(l)'
    BY <1>0, <1>b, <2>1, <2>4, <2>5 DEF Local, Backed, RunRow
  <2>8. RowBacked'
    BY <1>0, <1>b, <2>1, <2>4, <2>5 DEF Local, Backed, RowBacked, Holds, HoldOpen, CancelClaims
  <2> QED BY <1>b, <2>1, <2>4, <2>6, <2>7, <2>8, LaunchStep DEF Local
<1> QED BY <1>1, <1>2, <1>3, <1>4

(* The compensation of a launch whose message the broker refused.          *)
LEMMA RefundSettles ==
    ASSUME Typed, Settling, NEW l \in Launches
    PROVE  /\ ClaimForRefund(l) => Settling'
           /\ RefundLaunch(l) => Settling'
<1>0. /\ lesson \in LessonRow /\ launch \in [Launches -> Launch] /\ launch[l] \in Launch
      /\ launch[l].est \in Nat /\ LedgerType /\ l \in Refs /\ Local(l) /\ RowBacked
  BY InRange DEF Settling
<1>b. ASSUME launch[l].pc \in {"unqueued", "releasing"}
      PROVE  /\ \A k \in Launches : Working(k) => k = l
             /\ queue[l] = "none" /\ run[l].pc = "none" /\ run[l].claimed = "none"
             /\ lesson.ref \in {l, NoId}
  <2>1. Working(l)
    BY <1>b DEF Working
  <2>2. \A k \in Launches : Working(k) => k = l
    BY <2>1, Sole
  <2> QED BY <1>0, <1>b, <2>1, <2>2 DEF Local, Staged, OwnBill, TaskClaims
<1>1. ASSUME ClaimForRefund(l) PROVE Settling'
  <2>1. launch[l].pc = "unqueued"
    BY <1>1 DEF ClaimForRefund
  <2>2. lesson'.via = "none" /\ lesson'.ref = lesson.ref /\ lesson'.est = lesson.est
    BY <1>0, <1>1, ClaimedRow DEF ClaimForRefund
  <2>3. /\ launch'[l].pc = "releasing" /\ launch'[l].via = lesson.via
        /\ launch'[l].est = launch[l].est
        /\ OnlyAt(l) /\ UNCHANGED <<queue, run, ledger, delivered, canceller>>
    BY <1>0, <1>1 DEF ClaimForRefund, Launch, OnlyAt, ledgerVars
  <2>4. Staged(l)' /\ Alone(l)' /\ Exclusive(l)' /\ OwnBill(l)' /\ PaidFor(l)'
    BY <1>0, <1>b, <2>1, <2>2, <2>3 DEF Local, RowBacked, Staged, Alone, Exclusive,
             OwnBill, PaidFor, TaskClaims, EndpointClaims, CancelClaims
  <2>5. Backed(l)'
    BY <1>0, <1>b, <2>1, <2>2, <2>3 DEF Local, RowBacked, Backed, RunRow, Holds, HoldOpen
  <2>6. RowBacked'
    BY <1>0, <2>2, <2>3 DEF RowBacked, CancelClaims
  <2> QED BY <1>b, <2>1, <2>3, <2>4, <2>5, <2>6, LaunchStep DEF Local
<1>2. ASSUME RefundLaunch(l) PROVE Settling'
  <2>1. launch[l].pc = "releasing"
    BY <1>2 DEF RefundLaunch
  <2>2. /\ launch'[l].pc \in {"redrafting", "refused"}
        /\ UNCHANGED <<lesson, queue, run, delivered, canceller>>
        /\ \A k \in Launches \ {l} : launch'[k] = launch[k]
    <3> DEFINE next == IF launch[l].kind = "vision"
                       THEN [launch[l] EXCEPT !.pc = "redrafting"]
                       ELSE [IdleLaunch EXCEPT !.pc = "refused"]
    <3>1. launch' = [launch EXCEPT ![l] = next]
      BY <1>2 DEF RefundLaunch
    <3>2. next.pc \in {"redrafting", "refused"}
      BY <1>0 DEF Launch, IdleLaunch
    <3>3. UNCHANGED <<lesson, queue, run, delivered, canceller>>
      BY <1>2 DEF RefundLaunch
    <3> HIDE DEF next
    <3> QED BY <1>0, <3>1, <3>2, <3>3
  <2>3. /\ \A k \in Launches \ {l} : ledger'[k] = ledger[k]
        /\ RunRow(ledger'[l]) /\ ledger'[l].charged = ledger[l].charged
    <3>1. CASE launch[l].via = "credits"
      <4>1. ledger' = [ledger EXCEPT ![l] = Releasing(@, launch[l].est)]
        BY <1>2, <3>1 DEF RefundLaunch, ReleaseCredits
      <4>2. /\ ledger[l] \in Row /\ RunRow(ledger[l])
            /\ ledger[l].reserves > ledger[l].finals /\ ledger[l].last = launch[l].est
        BY <1>0, <2>1, <3>1 DEF LedgerType, Local, Backed, Holds, HoldOpen
      <4>3. ledger'[l] = Releasing(ledger[l], ledger[l].last)
        BY <1>0, <4>1, <4>2 DEF LedgerType
      <4> QED BY <1>0, <4>1, <4>2, <4>3, RunReleased, ReleasingRow DEF LedgerType
    <3>2. CASE launch[l].via # "credits"
      <4>1. ledger' = ledger
        BY <1>2, <3>2 DEF RefundLaunch, ledgerVars
      <4> QED BY <1>0, <4>1 DEF Local, Backed
    <3> QED BY <3>1, <3>2
  <2>4. OnlyAt(l)
    BY <2>2, <2>3 DEF OnlyAt
  <2>5. Staged(l)' /\ Alone(l)' /\ Exclusive(l)' /\ OwnBill(l)' /\ PaidFor(l)'
    BY <1>0, <1>b, <2>1, <2>2, <2>3 DEF Local, Staged, Alone, Exclusive, OwnBill,
             PaidFor, TaskClaims, EndpointClaims, Working
  <2>6. Backed(l)'
    BY <1>b, <2>1, <2>2, <2>3 DEF Backed
  <2>7. RowBacked'
    <3>1. CASE launch[l].via = "credits"
      <4>1. lesson.via = "none"
        BY <1>0, <2>1, <3>1 DEF Local, Exclusive, EndpointClaims
      <4> QED BY <1>0, <2>2, <4>1 DEF RowBacked, CancelClaims
    <3>2. CASE launch[l].via # "credits"
      <4>1. ledger' = ledger
        BY <1>2, <3>2 DEF RefundLaunch, ledgerVars
      <4> QED BY <1>0, <2>2, <4>1 DEF RowBacked, Holds, HoldOpen, CancelClaims
    <3> QED BY <3>1, <3>2
  <2> QED BY <1>b, <2>1, <2>4, <2>5, <2>6, <2>7, LaunchStep DEF Local
<1> QED BY <1>1, <1>2

(* The task's start, its claim and its settlement.                         *)
LEMMA TaskSettles ==
    ASSUME Typed, Settling, NEW l \in Launches
    PROVE  /\ Start(l) => Settling'
           /\ SettleClaim(l) => Settling'
           /\ SettleFinalize(l) => Settling'
<1> USE GenerationAssumption
<1>0. /\ lesson \in LessonRow /\ run \in [Launches -> Run] /\ run[l] \in Run
      /\ run[l].est \in Nat /\ run[l].done \in Nat /\ run[l].outcome \in Outcomes
      /\ queue \in [Launches -> QueueStates]
      /\ LedgerType /\ l \in Refs /\ Local(l) /\ RowBacked
  BY InRange DEF Settling
<1>d. delivered \in [Launches -> SUBSET {"ok", "error", "cancel", "untouched"}]
  BY DEF Typed, TypeOK
<1>1. ASSUME Start(l) PROVE Settling'
  <2>1. Working(l) /\ queue[l] = "queued"
    BY <1>1 DEF Start, Working
  <2>2. \A k \in Launches : Working(k) => k = l
    BY <2>1, Sole
  <2>3. launch[l].pc \in {"enqueued", "returned"} /\ ~TaskClaims(l)
    BY <1>0, <2>1 DEF Local, Staged, TaskClaims
  <2>4. BillKept
    BY <1>0, <1>1 DEF Start, BillKept, LessonRow
  <2>5. /\ OnlyAt(l) /\ UNCHANGED <<launch, ledger, delivered, canceller>>
        /\ queue'[l] = "running"
    BY <1>0, <1>1 DEF Start, OnlyAt, ledgerVars
  <2>6. /\ run'[l].pc = "preparing" /\ run'[l].claimed = "none"
        /\ run'[l].ref = lesson.ref /\ run'[l].est = lesson.est
    BY <1>0, <1>1 DEF Start, NoRun
  <2>7. Staged(l)' /\ Alone(l)' /\ Exclusive(l)' /\ OwnBill(l)' /\ PaidFor(l)'
    BY <1>0, <2>1, <2>3, <2>4, <2>5, <2>6 DEF Local, Staged, Alone, Exclusive, OwnBill,
             PaidFor, TaskClaims, EndpointClaims, BillKept
  <2>8. Backed(l)'
    BY <1>0, <2>3, <2>5, <2>6 DEF Local, Backed, RunRow
  <2>9. RowBacked'
    BY <1>0, <2>4, <2>5 DEF RowBacked, Holds, HoldOpen, CancelClaims, BillKept
  <2> QED BY <2>2, <2>5, <2>7, <2>8, <2>9, LaunchStep DEF Local
<1>b. ASSUME run[l].pc \in {"settling", "finalizing"}
      PROVE  /\ \A k \in Launches : Working(k) => k = l
             /\ queue[l] = "running" /\ launch[l].pc \in {"enqueued", "returned"}
             /\ lesson.ref \in {l, NoId}
             /\ run[l].ref = lesson.ref /\ run[l].est = lesson.est
  <2>1. Working(l) /\ queue[l] = "running"
    BY <1>0, <1>b DEF Local, Staged, Working
  <2>2. \A k \in Launches : Working(k) => k = l
    BY <2>1, Sole
  <2> QED BY <1>0, <1>b, <2>1, <2>2 DEF Local, Staged, OwnBill
<1>2. ASSUME SettleClaim(l) PROVE Settling'
  <2>1. run[l].pc = "settling" /\ ~TaskClaims(l)
    BY <1>0, <1>2 DEF SettleClaim, Local, Staged
  <2>2. OnlyAt(l) /\ UNCHANGED <<launch, queue, ledger, delivered, canceller>>
    BY <1>0, <1>2 DEF SettleClaim, OnlyAt, ledgerVars
  <2>3. CASE Unbilled(l)
    <3>1. /\ run'[l].pc = "closing" /\ run'[l].claimed = run[l].claimed
          /\ run'[l].ref = run[l].ref /\ run'[l].est = run[l].est
          /\ BillKept
      BY <1>0, <1>2, <2>3 DEF SettleClaim, Run, BillKept
    <3> QED BY <2>1, <2>2, <3>1, RunMoves
  <2>4. CASE ~Unbilled(l)
    <3>1. run' = [run EXCEPT ![l].pc = "finalizing", ![l].claimed = lesson.via,
                             ![l].seen.via = "none"]
      BY <1>2, <2>4 DEF SettleClaim
    <3>2. /\ run'[l].pc = "finalizing" /\ run'[l].claimed = lesson.via
          /\ run'[l].ref = run[l].ref /\ run'[l].est = run[l].est
      BY <1>0, <3>1 DEF Run
    <3>3. lesson'.via = "none" /\ lesson'.ref = lesson.ref /\ lesson'.est = lesson.est
      BY <1>0, <1>2, <2>4, ClaimedRow DEF SettleClaim
    <3>4. Staged(l)' /\ Alone(l)' /\ Exclusive(l)' /\ OwnBill(l)' /\ PaidFor(l)'
      BY <1>0, <1>b, <2>1, <2>2, <3>2, <3>3 DEF Local, RowBacked, Staged, Alone,
               Exclusive, OwnBill, PaidFor, TaskClaims, EndpointClaims, CancelClaims
    <3>5. Backed(l)'
      BY <1>0, <1>b, <2>1, <2>2, <3>2, <3>3 DEF Local, RowBacked, Backed, RunRow,
               Holds, HoldOpen
    <3>6. RowBacked'
      BY <1>0, <2>2, <3>3 DEF RowBacked, CancelClaims
    <3> QED BY <1>b, <2>1, <2>2, <3>4, <3>5, <3>6, LaunchStep DEF Local
  <2> QED BY <2>3, <2>4
<1>3. ASSUME SettleFinalize(l) PROVE Settling'
  <2> DEFINE capture == Captures(run[l].claimed, run[l].ref)
             what == IF run[l].outcome # "cancel" \/ run[l].done >= 1
                     THEN run[l].outcome ELSE "untouched"
  <2>1. run[l].pc = "finalizing"
    BY <1>3 DEF SettleFinalize
  <2>2. /\ UNCHANGED <<lesson, launch, queue, canceller>>
        /\ \A k \in Launches \ {l} : run'[k] = run[k] /\ delivered'[k] = delivered[k]
        /\ delivered'[l] = delivered[l] \cup {what}
    BY <1>0, <1>d, <1>3 DEF SettleFinalize
  <2>3. /\ run'[l].pc = "recording" /\ run'[l].ref = run[l].ref
        /\ run'[l].est = run[l].est
        /\ TaskClaims(l)' => TaskClaims(l)
    BY <1>0, <1>3 DEF SettleFinalize, Run, TaskClaims
  <2>4. /\ \A k \in Launches \ {l} : ledger'[k] = ledger[k]
        /\ RunRow(ledger'[l])
        /\ PaidFor(l)'
        /\ lesson.via # "none" => ledger' = ledger
    <3>1. CASE capture /\ CanFinalize(run[l].ref)
      <4>1. /\ run[l].ref = l /\ run[l].claimed = "credits"
            /\ HoldOpen(l) /\ ledger[l].last = run[l].est
            /\ lesson.via = "none"
        BY <1>0, <1>b, <2>1, <3>1 DEF Captures, Local, Backed, Holds, Exclusive, TaskClaims
      <4>2. FinalizeGeneration(l, run[l].est, Cost(l))
        BY <1>3, <3>1, <4>1 DEF SettleFinalize
      <4>3. /\ Cost(l) \in Nat /\ Cost(l) <= run[l].est
            /\ run[l].outcome = "cancel" /\ run[l].done = 0 => Cost(l) <= BaseCost
            /\ run[l].outcome \notin {"ok", "cancel"} => Cost(l) = 0
        BY <1>0, CostBounds
      <4> DEFINE cost == Cost(l)
                 final == Finalizing(ledger[l], ledger[l].last, cost)
      <4>4. Least(NonNeg(cost), run[l].est) = cost
        <5> HIDE DEF cost
        <5>1. cost \in Nat /\ cost <= run[l].est
          BY <4>3 DEF cost
        <5> QED BY <1>0, <5>1 DEF Least, NonNeg
      <4>5. ledger' = [ledger EXCEPT ![l] = Finalizing(@, run[l].est, cost)]
        BY <4>2, <4>4 DEF FinalizeGeneration
      <4>6. /\ ledger[l] \in Row /\ RunRow(ledger[l])
            /\ ledger[l].reserves > 0 /\ ledger[l].finals = 0
            /\ ledger[l].charged = 0
        BY <1>0, <4>1 DEF LedgerType, Local, Backed, HoldOpen, RunRow, Row
      <4>7. ledger'[l] = final /\ \A k \in Launches \ {l} : ledger'[k] = ledger[k]
        BY <1>0, <4>1, <4>5 DEF LedgerType
      <4> HIDE DEF cost
      <4>8. cost \in Nat /\ cost <= ledger[l].last
        BY <4>1, <4>3 DEF cost
      <4>9. RunRow(final)
        BY <4>6, <4>8, RunFinalized
      <4>10. final.charged = ledger[l].charged + cost
        <5>1. ledger[l].last \in Nat
          BY <1>0, <4>1
        <5>2. ASSUME NEW row \in Row, NEW estimate \in Nat, cost <= estimate
              PROVE  Finalizing(row, estimate, cost).charged = row.charged + cost
          <6> DEFINE settled == Finalizing(row, estimate, cost)
          <6>1. settled.charged = row.charged + cost
            BY <4>8, <5>2, FinalizingRow
          <6> QED BY <6>1
        <5> QED BY <4>6, <4>8, <5>1, <5>2
      <4> HIDE DEF final
      <4>11. ledger'[l].charged = cost
        BY <4>6, <4>7, <4>8, <4>10
      <4>12. /\ run[l].outcome = "cancel" /\ run[l].done = 0 => cost <= BaseCost
             /\ run[l].outcome \notin {"ok", "cancel"} => cost = 0
        BY <4>3 DEF cost
      <4>13. PaidFor(l)'
        <5>1. CASE what \in {"ok", "cancel"}
          BY <2>2, <5>1 DEF PaidFor
        <5>2. CASE what = "untouched"
          <6>1. cost <= BaseCost
            BY <1>0, <4>12, <5>2 DEF Outcomes
          <6> QED BY <2>2, <4>8, <4>11, <5>2, <6>1 DEF PaidFor
        <5>3. CASE what \notin {"ok", "cancel", "untouched"}
          <6>1. cost = 0
            BY <1>0, <4>12, <5>3 DEF Outcomes
          <6> QED BY <4>11, <6>1 DEF PaidFor
        <5> QED BY <5>1, <5>2, <5>3
      <4>14. RunRow(ledger'[l])
        BY <4>7, <4>9
      <4> QED BY <4>1, <4>7, <4>13, <4>14
    <3>2. CASE ~(capture /\ CanFinalize(run[l].ref))
      <4>1. ledger' = ledger
        BY <1>3, <3>2 DEF SettleFinalize, ledgerVars
      <4>2. RunRow(ledger'[l])
        BY <1>0, <4>1 DEF Local, Backed
      <4>3. ledger[l].charged \in Nat /\ BaseCost \in Nat
        BY <1>0 DEF LedgerType, Row
      <4>4. PaidFor(l)'
        <5> HIDE DEF what
        <5>1. PaidFor(l)
          BY <1>0 DEF Local
        <5> QED BY <2>2, <4>1, <4>3, <5>1 DEF PaidFor
      <4> QED BY <4>1, <4>2, <4>4
    <3> QED BY <3>1, <3>2
  <2>5. OnlyAt(l)
    BY <2>2, <2>4 DEF OnlyAt
  <2>6. Staged(l)' /\ Alone(l)' /\ Exclusive(l)' /\ OwnBill(l)'
    BY <1>0, <1>b, <2>1, <2>2, <2>3 DEF Local, Staged, Alone, Exclusive, OwnBill,
             TaskClaims, EndpointClaims, CancelClaims, Working
  <2>7. Backed(l)'
    BY <1>b, <2>1, <2>2, <2>3, <2>4 DEF Backed
  <2>8. RowBacked'
    BY <1>0, <2>2, <2>4 DEF RowBacked, Holds, HoldOpen, CancelClaims
  <2> QED BY <1>b, <2>1, <2>4, <2>5, <2>6, <2>7, <2>8, LaunchStep DEF Local
<1> QED BY <1>1, <1>2, <1>3

(* The cancel endpoint and the sweep while they move status and flags.     *)
LEMMA CancelMoves ==
    ASSUME Settling, BillKept, UNCHANGED <<launch, run, ledger, delivered>>,
           canceller.pc # "idle" \/ lesson.status \in Active,
           \A l \in Launches :
              queue'[l] = queue[l] \/ (queue[l] = "queued" /\ queue'[l] = "revoked"),
           CancelClaims' => CancelClaims /\ canceller'.pc \in {"refunding", "reverting"}
    PROVE  Settling'
<1>1. \A l \in Launches : Working(l)' => Working(l)
  BY DEF Working
<1>2. OneAtATime'
  BY <1>1 DEF Settling, OneAtATime
<1>3. ASSUME NEW l \in Launches PROVE Local(l)'
  <2>1. Local(l) /\ launch[l].pc \notin {"admitted", "billed"}
    BY DEF Settling, Local, Alone
  <2>2. Staged(l)' /\ Alone(l)' /\ Exclusive(l)' /\ OwnBill(l)' /\ PaidFor(l)'
    BY <1>1, <2>1 DEF Local, Staged, Alone, Exclusive, OwnBill, PaidFor, TaskClaims,
             EndpointClaims, BillKept
  <2>3. Backed(l)'
    BY <2>1 DEF Local, Backed, RunRow, Holds, HoldOpen, BillKept
  <2> QED BY <2>2, <2>3 DEF Local
<1>4. RowBacked'
  BY DEF Settling, RowBacked, Holds, HoldOpen, BillKept
<1> QED BY <1>2, <1>3, <1>4 DEF Settling

(* The cancel endpoint and the startup sweep.                              *)
LEMMA CancelSettles ==
    ASSUME Typed, Settling
    PROVE  /\ CancelLoad => Settling'
           /\ Cancel => Settling'
           /\ CancelCrash => Settling'
           /\ SweepStuck => Settling'
<1> USE GenerationAssumption
<1>0. /\ lesson \in LessonRow /\ canceller \in Canceller /\ canceller.seen \in LessonRow
      /\ LedgerType /\ queue \in [Launches -> QueueStates]
  BY DEF Typed, TypeOK, LedgerType, Canceller
<1>i. IdleCanceller.claimed = "none"
  BY DEF IdleCanceller
<1>r. RowBacked
  BY DEF Settling
<1>1. ASSUME CancelLoad PROVE Settling'
  <2>1. canceller'.claimed = "none"
    BY <1>1 DEF CancelLoad, IdleCanceller
  <2>2. /\ UNCHANGED <<launch, run, ledger, delivered>> /\ queue' = queue /\ BillKept
        /\ lesson.status \in Active
    BY <1>1 DEF CancelLoad, BillKept, ledgerVars
  <2>3. ~CancelClaims'
    BY <2>1 DEF CancelClaims
  <2> QED BY <2>2, <2>3, CancelMoves
<1>2. ASSUME CancelMark PROVE Settling'
  <2> DEFINE new == [canceller.seen EXCEPT !.cancel = TRUE]
  <2>1. /\ new \in LessonRow
        /\ new.via = canceller.seen.via /\ new.ref = canceller.seen.ref
        /\ new.est = canceller.seen.est
    BY <1>0 DEF LessonRow
  <2>2. lesson' = Flush(lesson, canceller.seen, new)
    BY <1>2 DEF CancelMark
  <2>3. BillKept
    <3> HIDE DEF new
    <3> QED BY <1>0, <2>1, <2>2, FlushKeepsBill
  <2>4. canceller.pc = "loaded" /\ UNCHANGED <<launch, run, ledger, delivered>> /\ queue' = queue
    BY <1>2 DEF CancelMark, ledgerVars
  <2>5. ~CancelClaims /\ canceller'.claimed = canceller.claimed
    BY <1>0, <1>2, <1>r, <2>4 DEF CancelMark, Canceller, RowBacked
  <2>6. ~CancelClaims'
    BY <2>5 DEF CancelClaims
  <2> QED BY <2>3, <2>4, <2>6, CancelMoves
<1>3. ASSUME CancelCooperatively \/ CancelCrash PROVE Settling'
  <2>1. /\ UNCHANGED <<launch, run, ledger, delivered>> /\ queue' = queue /\ BillKept
        /\ canceller.pc # "idle"
    BY <1>3 DEF CancelCooperatively, CancelCrash, BillKept, ledgerVars
  <2>2. ~CancelClaims'
    BY <1>3, <1>i DEF CancelCooperatively, CancelCrash, CancelClaims
  <2> QED BY <2>1, <2>2, CancelMoves
<1>4. ASSUME CancelImmediately PROVE Settling'
  <2>1. canceller.pc = "asked" /\ UNCHANGED <<launch, run, ledger, delivered>> /\ BillKept
    BY <1>4 DEF CancelImmediately, BillKept, ledgerVars
  <2>2. ~CancelClaims /\ canceller'.claimed = canceller.claimed
    BY <1>0, <1>4, <1>r, <2>1 DEF CancelImmediately, Canceller, RowBacked
  <2>3. ~CancelClaims'
    BY <2>2 DEF CancelClaims
  <2>4. \A l \in Launches :
          queue'[l] = queue[l] \/ (queue[l] = "queued" /\ queue'[l] = "revoked")
    <3>1. CASE queue' = queue
      BY <3>1
    <3>2. CASE queue' = [l \in Launches |->
                           IF l = CancelTask /\ queue[l] = "queued"
                           THEN "revoked" ELSE queue[l]]
      BY <3>2
    <3> QED BY <1>4, <3>1, <3>2 DEF CancelImmediately
  <2> QED BY <2>1, <2>3, <2>4, CancelMoves
<1>5. ASSUME CancelClaim PROVE Settling'
  <2>1. /\ canceller.pc = "claiming"
        /\ canceller'.pc = "refunding" /\ canceller'.claimed = lesson.via
        /\ UNCHANGED <<launch, run, ledger, delivered>> /\ queue' = queue
    BY <1>0, <1>5 DEF CancelClaim, Canceller, ledgerVars
  <2>2. lesson'.via = "none" /\ lesson'.ref = lesson.ref /\ lesson'.est = lesson.est
    BY <1>0, <1>5, ClaimedRow DEF CancelClaim
  <2>3. OneAtATime'
    BY <2>1 DEF Settling, OneAtATime, Working
  <2>4. ASSUME NEW l \in Launches PROVE Local(l)'
    <3>1. Local(l) /\ launch[l].pc \notin {"admitted", "billed"}
      BY <2>1 DEF Settling, Local, Alone
    <3>2. Staged(l)' /\ Alone(l)' /\ Exclusive(l)' /\ OwnBill(l)' /\ PaidFor(l)'
      BY <2>1, <2>2, <3>1 DEF Local, Staged, Alone, Exclusive, OwnBill, PaidFor,
               TaskClaims, EndpointClaims, CancelClaims, Working
    <3>3. Backed(l)'
      BY <2>1, <2>2, <3>1 DEF Local, Backed, RunRow, Holds, HoldOpen
    <3> QED BY <3>2, <3>3 DEF Local
  <2>5. RowBacked'
    BY <2>1, <2>2 DEF RowBacked, CancelClaims
  <2> QED BY <2>3, <2>4, <2>5 DEF Settling
<1>6. ASSUME CancelRefund PROVE Settling'
  <2> DEFINE ref == canceller.seen.ref
  <2>1. /\ canceller.pc = "refunding" /\ canceller'.pc = "reverting"
        /\ canceller'.claimed = canceller.claimed
        /\ UNCHANGED <<lesson, launch, queue, run, delivered>>
    BY <1>0, <1>6 DEF CancelRefund, Canceller
  <2>2. CASE Captures(canceller.claimed, ref) /\ HoldOpen(ref)
    <3>1. /\ ref \in Launches /\ CancelClaims /\ lesson.via = "none"
          /\ \A l \in Launches : ~TaskClaims(l) /\ ~EndpointClaims(l)
      BY <1>0, <1>r, <2>2 DEF Captures, LessonRow, Ids, CancelClaims, RowBacked,
                             Settling, Local, Exclusive
    <3>2. ledger' = [ledger EXCEPT ![ref] = Releasing(@, ledger[ref].last)]
      BY <1>6, <2>2 DEF CancelRefund, ReleaseReservationIfHeld
    <3>3. ledger[ref] \in Row /\ RunRow(ledger[ref]) /\ ledger[ref].reserves > ledger[ref].finals
          /\ ledger[ref].last \in Nat /\ ledger[ref].reserves > 0
      BY <1>0, <2>2, <3>1 DEF LedgerType, Settling, Local, Backed, HoldOpen, Row
    <3> DEFINE next == Releasing(ledger[ref], ledger[ref].last)
    <3>4. RunRow(next) /\ next.reserves = ledger[ref].reserves /\ next.charged = ledger[ref].charged
      BY <3>3, RunReleased, ReleasingRow
    <3>5. ledger'[ref] = next /\ \A k \in Launches \ {ref} : ledger'[k] = ledger[k]
      BY <1>0, <3>1, <3>2 DEF LedgerType
    <3> HIDE DEF next
    <3>6. OneAtATime'
      BY <2>1 DEF Settling, OneAtATime, Working
    <3>7. ASSUME NEW l \in Launches PROVE Local(l)'
      <4>1. Local(l) /\ launch[l].pc \notin {"admitted", "billed"}
        BY <2>1 DEF Settling, Local, Alone
      <4>2. Staged(l)' /\ Alone(l)' /\ Exclusive(l)' /\ OwnBill(l)'
        BY <2>1, <3>1, <4>1 DEF Local, Staged, Alone, Exclusive, OwnBill, TaskClaims,
                 EndpointClaims, Working
      <4>3. /\ RunRow(ledger'[l]) /\ ledger'[l].reserves = ledger[l].reserves
            /\ ledger'[l].charged = ledger[l].charged
        <5>1. CASE l = ref
          <6>1. RunRow(ledger'[l])
            BY <3>4, <3>5, <5>1
          <6> QED BY <3>4, <3>5, <5>1, <6>1
        <5>2. CASE l # ref
          <6>1. ledger'[l] = ledger[l]
            BY <3>5, <5>2
          <6> QED BY <4>1, <6>1 DEF Local, Backed
        <5> QED BY <5>1, <5>2
      <4>4. Backed(l)'
        BY <2>1, <3>1, <4>1, <4>3 DEF Local, Backed, TaskClaims, EndpointClaims
      <4>5. PaidFor(l)'
        BY <2>1, <4>1, <4>3 DEF Local, PaidFor
      <4> QED BY <4>2, <4>4, <4>5 DEF Local
    <3>8. RowBacked'
      BY <2>1, <3>1 DEF RowBacked, CancelClaims
    <3> QED BY <3>6, <3>7, <3>8 DEF Settling
  <2>3. CASE ~(Captures(canceller.claimed, ref) /\ HoldOpen(ref))
    <3>1. ledger' = ledger
      BY <1>6, <2>3 DEF CancelRefund, ledgerVars
    <3>2. BillKept /\ UNCHANGED <<launch, run, ledger, delivered>> /\ queue' = queue
      BY <2>1, <3>1 DEF BillKept
    <3>3. CancelClaims' => CancelClaims /\ canceller'.pc \in {"refunding", "reverting"}
      BY <2>1 DEF CancelClaims
    <3> QED BY <2>1, <3>2, <3>3, CancelMoves
  <2> QED BY <2>2, <2>3
<1>7. ASSUME CancelRevert PROVE Settling'
  <2> DEFINE to == IF canceller.kind = "video" /\ canceller.seen.auto
                   THEN "ready_for_edit" ELSE "draft"
             new == Ended(canceller.seen, canceller.kind, to)
  <2>1. to \in Statuses
    BY DEF Statuses
  <2>2. \/ lesson' = Ended(lesson, canceller.kind, to)
        \/ lesson' = Flush(lesson, canceller.seen, new)
    BY <1>7 DEF CancelRevert
  <2>3. BillKept
    <3> HIDE DEF to
    <3>1. /\ new \in LessonRow
          /\ new.via = canceller.seen.via /\ new.ref = canceller.seen.ref
          /\ new.est = canceller.seen.est
      BY <1>0, <2>1, EndedRow
    <3>2. CASE lesson' = Ended(lesson, canceller.kind, to)
      BY <1>0, <2>1, <3>2, EndedRow DEF BillKept
    <3>3. CASE lesson' = Flush(lesson, canceller.seen, new)
      <4> HIDE DEF new
      <4> QED BY <1>0, <3>1, <3>3, FlushKeepsBill
    <3> QED BY <2>2, <3>2, <3>3
  <2>4. UNCHANGED <<launch, run, ledger, delivered>> /\ queue' = queue /\ canceller.pc # "idle"
    BY <1>7 DEF CancelRevert, ledgerVars
  <2>5. ~CancelClaims'
    BY <1>7, <1>i DEF CancelRevert, CancelClaims
  <2> QED BY <2>3, <2>4, <2>5, CancelMoves
<1>8. ASSUME SweepStuck PROVE Settling'
  <2>1. BillKept
    BY <1>0, <1>8, EndedRow DEF SweepStuck, BillKept, Statuses
  <2>2. CancelClaims' => CancelClaims /\ canceller'.pc \in {"refunding", "reverting"}
    BY <1>8, <1>r DEF SweepStuck, RowBacked, CancelClaims
  <2>3. UNCHANGED <<launch, run, ledger, delivered>> /\ queue' = queue /\ lesson.status \in Active
    BY <1>8 DEF SweepStuck, ledgerVars
  <2>4. \A l \in Launches :
          queue'[l] = queue[l] \/ (queue[l] = "queued" /\ queue'[l] = "revoked")
    BY <2>3
  <2>5. canceller.pc # "idle" \/ lesson.status \in Active
    BY <2>3
  <2>6. UNCHANGED <<launch, run, ledger, delivered>>
    BY <2>3
  <2> QED BY <2>1, <2>2, <2>4, <2>5, <2>6, CancelMoves
<1> QED BY <1>1, <1>2, <1>3, <1>4, <1>5, <1>6, <1>7, <1>8 DEF Cancel

(* One step of any actor.                                                  *)
LEMMA SettlingStep ==
    Patience = "settled" /\ Typed /\ Settling /\ [Next]_vars => Settling'
<1> SUFFICES ASSUME Patience = "settled", Typed, Settling, [Next]_vars
             PROVE  Settling'
  OBVIOUS
<1>1. ASSUME NEW l \in Launches, NEW kind \in Kinds, NEW est \in Estimates,
             Admit(l, kind, est)
      PROVE  Settling'
  BY <1>1, OpeningSettles
<1>2. ASSUME NEW l \in Launches, Request(l) PROVE Settling'
  BY <1>2, OpeningSettles, RequestSettles, RefundSettles DEF Request
<1>3. ASSUME NEW l \in Launches, Start(l) \/ Work(l) \/ Fail(l) PROVE Settling'
  BY <1>3, WorkSettles, TaskSettles, EndSettles DEF Work
<1>4. ASSUME NEW l \in Launches, Fault(l) PROVE Settling'
  BY <1>4, RequestSettles, EndSettles DEF Fault
<1>5. CASE UNCHANGED vars
  <2>1. UNCHANGED <<lesson, launch, queue, run, canceller, ledger, delivered>>
    BY <1>5 DEF vars
  <2>2. OneAtATime'
    BY <2>1 DEF Settling, OneAtATime, Working
  <2>3. ASSUME NEW l \in Launches PROVE Local(l)'
    <3>1. Local(l)
      BY DEF Settling
    <3>2. Staged(l)' /\ Alone(l)' /\ Exclusive(l)' /\ OwnBill(l)' /\ PaidFor(l)'
      BY <2>1, <3>1 DEF Local, Staged, Alone, Exclusive, OwnBill, PaidFor, Working,
               TaskClaims, EndpointClaims, CancelClaims
    <3>3. Backed(l)'
      BY <2>1, <3>1 DEF Local, Backed, RunRow, Holds, HoldOpen
    <3> QED BY <3>2, <3>3 DEF Local
  <2>4. RowBacked'
    BY <2>1 DEF Settling, RowBacked, Holds, HoldOpen, CancelClaims
  <2> QED BY <2>2, <2>3, <2>4 DEF Settling
<1> QED BY <1>1, <1>2, <1>3, <1>4, <1>5, CancelSettles DEF Next

(* Settling holds in every reachable state.                                *)
LEMMA SettlingInvariant ==
    ASSUME Patience = "settled"
    PROVE  Spec => [](Typed /\ Settling)
<1>1. Init => Settling
  <2> SUFFICES ASSUME Init PROVE Settling
    OBVIOUS
  <2>1. \A l \in Launches :
          /\ launch[l].pc = "idle" /\ queue[l] = "none"
          /\ run[l].pc = "none" /\ run[l].claimed = "none"
          /\ ledger[l] = NoRows
    BY GenerationAssumption DEF Init, IdleLaunch, NoRun
  <2>2. lesson.via = "none" /\ canceller.claimed = "none"
    BY DEF Init, NewLesson, IdleCanceller
  <2>3. OneAtATime /\ RowBacked
    BY <2>1, <2>2 DEF OneAtATime, Working, RowBacked, CancelClaims
  <2>4. ASSUME NEW l \in Launches PROVE Local(l)
    <3>1. Staged(l) /\ Alone(l) /\ Exclusive(l) /\ OwnBill(l)
      BY <2>1 DEF Staged, Alone, Exclusive, OwnBill, TaskClaims, EndpointClaims, Working
    <3>2. Backed(l) /\ PaidFor(l)
      BY <2>1, GenerationAssumption DEF Backed, RunRow, PaidFor, NoRows
    <3> QED BY <3>1, <3>2 DEF Local
  <2> QED BY <2>3, <2>4 DEF Settling
<1>2. Typed /\ Settling /\ [Next]_vars => (Typed /\ Settling)'
  BY SettlingStep, TypedStep
<1> QED BY <1>1, <1>2, TypedFirst, PTL DEF Spec

(* Of the task, the cancel endpoint and the compensation of the launching  *)
(* endpoint at most one has the right to settle, however they interleave   *)
(* and whatever crashes, as long as the client waits for the bill.         *)
THEOREM OneSettlerHolds ==
    ASSUME Patience = "settled"
    PROVE  Spec => []OneSettler
<1>1. Settling => OneSettler
  <2> SUFFICES ASSUME Settling, NEW a \in Claimants, NEW b \in Claimants
               PROVE  a = b
    BY DEF OneSettler
  <2>1. ASSUME NEW c \in Claimants
        PROVE  \/ \E l \in Launches : c = <<"task", l>> /\ TaskClaims(l)
               \/ \E l \in Launches : c = <<"endpoint", l>> /\ EndpointClaims(l)
               \/ c = <<"cancel", NoId>> /\ CancelClaims
    BY <2>1 DEF Claimants, TaskClaims, EndpointClaims, CancelClaims
  <2>2. \A l \in Launches : TaskClaims(l) \/ EndpointClaims(l) => Working(l) /\ ~CancelClaims
    BY DEF Settling, Local, Staged, Exclusive, TaskClaims, EndpointClaims, Working
  <2>3. \A k, l \in Launches : ~(TaskClaims(k) /\ EndpointClaims(l))
    <3> SUFFICES ASSUME NEW k \in Launches, NEW l \in Launches,
                        TaskClaims(k), EndpointClaims(l)
                 PROVE  FALSE
      OBVIOUS
    <3>1. k = l
      BY <2>2 DEF Settling, OneAtATime
    <3> QED BY <3>1 DEF Settling, Local, Staged, TaskClaims, EndpointClaims
  <2>4. \A k, l \in Launches : Working(k) /\ Working(l) => k = l
    BY DEF Settling, OneAtATime
  <2> QED BY <2>1, <2>2, <2>3, <2>4
<1> QED BY <1>1, SettlingInvariant, PTL

(* No launch is charged and refunded more than it reserved.                *)
THEOREM HoldsNeverOversettled ==
    ASSUME Patience = "settled"
    PROVE  Spec => []SettledWithinHold
<1>1. Typed /\ Settling => SettledWithinHold
  <2> SUFFICES ASSUME Typed, Settling, NEW l \in Launches
               PROVE  ledger[l].charged + ledger[l].released <= ledger[l].held
    BY DEF SettledWithinHold
  <2>1. ledger[l] \in Row /\ RunRow(ledger[l])
    BY InRange DEF LedgerType, Settling, Local, Backed
  <2> QED BY <2>1, RowColumns DEF RunRow
<1> QED BY <1>1, SettlingInvariant, PTL

(* A teacher pays only for slides the task really processed.               *)
THEOREM PaidForWork ==
    ASSUME Patience = "settled"
    PROVE  Spec => []ChargedOnlyIfDelivered
<1>1. Settling => ChargedOnlyIfDelivered
  BY DEF Settling, Local, PaidFor, ChargedOnlyIfDelivered
<1> QED BY <1>1, SettlingInvariant, PTL

-----------------------------------------------------------------------------
(* The operations of the account are those of the contract's own copy.     *)
LEMMA ContractCalls ==
    ASSUME NEW ref, NEW amount, NEW spent
    PROVE  /\ ReserveCredits(ref, amount) <=> Contract!ReserveCredits(ref, amount)
           /\ ReleaseCredits(ref, amount) <=> Contract!ReleaseCredits(ref, amount)
           /\ ReleaseReservationIfHeld(ref) <=> Contract!ReleaseReservationIfHeld(ref)
           /\ FinalizeGeneration(ref, amount, spent)
                <=> Contract!FinalizeGeneration(ref, amount, spent)
           /\ HoldOpen(ref) <=> Contract!HoldOpen(ref)
           /\ UNCHANGED Contract!calls
<1>1. ReserveCredits(ref, amount) <=> Contract!ReserveCredits(ref, amount)
  BY DEF ReserveCredits, CanReserve, Reserving,
         Contract!ReserveCredits, Contract!CanReserve, Contract!Reserving
<1>2. ReleaseCredits(ref, amount) <=> Contract!ReleaseCredits(ref, amount)
  BY DEF ReleaseCredits, Releasing, NonNeg,
         Contract!ReleaseCredits, Contract!Releasing, Contract!NonNeg
<1>3. HoldOpen(ref) <=> Contract!HoldOpen(ref)
  BY DEF HoldOpen, Contract!HoldOpen
<1>4. ReleaseReservationIfHeld(ref) <=> Contract!ReleaseReservationIfHeld(ref)
  BY <1>3 DEF ReleaseReservationIfHeld, Releasing, NonNeg,
         Contract!ReleaseReservationIfHeld, Contract!Releasing, Contract!NonNeg
<1>5. FinalizeGeneration(ref, amount, spent)
        <=> Contract!FinalizeGeneration(ref, amount, spent)
  BY DEF FinalizeGeneration, CanFinalize, Finalizing, Charging, Releasing, NonNeg, Least,
         Contract!FinalizeGeneration, Contract!CanFinalize, Contract!Finalizing,
         Contract!Charging, Contract!Releasing, Contract!NonNeg, Contract!Least
<1>6. UNCHANGED Contract!calls
  BY DEF Contract!calls
<1> QED BY <1>1, <1>2, <1>3, <1>4, <1>5, <1>6

(* BillCredits opens the first hold of its launch.                         *)
LEMMA AgreedReserve ==
    ASSUME Typed, Settling, NEW l \in Launches, BillCredits(l)
    PROVE  [Contract!Next]_ledgerVars
<1>1. ledger[l].reserves = 0 /\ launch[l].est \in Estimates
  BY DEF BillCredits, Settling, Local, Backed
<1>2. ReserveCredits(l, launch[l].est)
  BY DEF BillCredits
<1>3. Contract!ReserveRun(l, launch[l].est)
  BY <1>1, <1>2, ContractCalls DEF Contract!ReserveRun
<1> QED BY <1>1, <1>3 DEF Contract!Next

(* The compensation gives back the hold its own request opened.            *)
LEMMA AgreedRelease ==
    ASSUME Typed, Settling, NEW l \in Launches, RefundLaunch(l)
    PROVE  [Contract!Next]_ledgerVars
<1>1. CASE launch[l].via # "credits"
  BY <1>1 DEF RefundLaunch
<1>2. CASE launch[l].via = "credits"
  <2>1. launch[l].pc = "releasing"
    BY DEF RefundLaunch
  <2>2. HoldOpen(l) /\ ledger[l].last = launch[l].est
    BY <1>2, <2>1 DEF Settling, Local, Backed, Holds
  <2>3. ReleaseCredits(l, ledger[l].last)
    BY <1>2, <2>2 DEF RefundLaunch
  <2>4. Contract!ReleaseRun(l)
    BY <2>2, <2>3, ContractCalls DEF Contract!ReleaseRun
  <2> QED BY <2>4 DEF Contract!Next
<1> QED BY <1>1, <1>2

(* The task finalizes the hold it claimed, with a cost the hold covers.    *)
LEMMA AgreedFinalize ==
    ASSUME Typed, Settling, NEW l \in Launches, SettleFinalize(l)
    PROVE  [Contract!Next]_ledgerVars
<1> DEFINE ref == run[l].ref
<1>1. CASE ~(Captures(run[l].claimed, ref) /\ CanFinalize(ref))
  BY <1>1 DEF SettleFinalize
<1>2. CASE Captures(run[l].claimed, ref) /\ CanFinalize(ref)
  <2>1. run[l].pc = "finalizing" /\ run[l].claimed = "credits"
    BY <1>2 DEF SettleFinalize, Captures
  <2>2. ref \in Launches /\ HoldOpen(ref) /\ ledger[ref].last = run[l].est
    BY <2>1 DEF Settling, Local, Backed, Holds
  <2>3. FinalizeGeneration(ref, ledger[ref].last, Cost(l))
    BY <1>2, <2>2 DEF SettleFinalize
  <2>4. ledger[ref] \in Row
    BY <2>2, GenerationAssumption, InRange DEF LedgerType
  <2>5. ledger[ref].reserves > 0
    BY <2>2, <2>4, RowColumns DEF HoldOpen
  <2>6. Cost(l) \in 0..ledger[ref].last
    BY <2>2, CostBounds
  <2> HIDE DEF ref
  <2>7. Contract!FinalizeRun(ref, Cost(l))
    BY <2>3, <2>5, ContractCalls DEF Contract!FinalizeRun
  <2> QED BY <2>2, <2>6, <2>7 DEF Contract!Next
<1> QED BY <1>1, <1>2

(* The cancel endpoint releases a hold only while it is open.              *)
LEMMA AgreedCancel ==
    ASSUME Typed, CancelRefund
    PROVE  [Contract!Next]_ledgerVars
<1> DEFINE ref == canceller.seen.ref
<1>1. CASE ~(Captures(canceller.claimed, ref) /\ HoldOpen(ref))
  BY <1>1 DEF CancelRefund
<1>2. CASE Captures(canceller.claimed, ref) /\ HoldOpen(ref)
  <2>1. ref \in Launches
    <3>1. canceller.seen \in LessonRow
      BY DEF Typed, TypeOK, Canceller
    <3> QED BY <1>2, <3>1 DEF Captures, LessonRow, Ids
  <2>2. ReleaseReservationIfHeld(ref)
    BY <1>2 DEF CancelRefund
  <2> HIDE DEF ref
  <2>3. Contract!CancelRun(ref)
    BY <2>2, ContractCalls DEF Contract!CancelRun
  <2> QED BY <2>1, <2>3 DEF Contract!Next
<1> QED BY <1>1, <1>2

(* The actors together use the credit account within the contract of       *)
(* LedgerService: a fresh billing_ref per launch, settled with the amount  *)
(* reserved under it, refunded only while its hold is open.                *)
THEOREM LedgerUsedAsAgreed ==
    ASSUME Patience = "settled"
    PROVE  Spec => UsesLedgerAsAgreed
<1>1. Typed /\ Settling /\ [Next]_vars => [Contract!Next]_ledgerVars
  <2> SUFFICES ASSUME Typed, Settling, [Next]_vars
               PROVE  [Contract!Next]_ledgerVars
    OBVIOUS
  <2>1. ASSUME NEW l \in Launches, NEW kind \in Kinds, NEW est \in Estimates,
               Admit(l, kind, est)
        PROVE  UNCHANGED ledgerVars
    BY <2>1 DEF Admit
  <2>2. ASSUME NEW l \in Launches, Request(l) PROVE [Contract!Next]_ledgerVars
    <3>1. CASE BillCredits(l) \/ RefundLaunch(l)
      BY <3>1, AgreedReserve, AgreedRelease
    <3>2. CASE ~(BillCredits(l) \/ RefundLaunch(l))
      BY <2>2, <3>2 DEF Request, BillTrial, RefuseUnpaid, WriteBilling, Enqueue,
                        SaveTaskId, ClaimForRefund, Redraft
    <3> QED BY <3>1, <3>2
  <2>3. ASSUME NEW l \in Launches, Work(l) PROVE [Contract!Next]_ledgerVars
    <3>1. CASE SettleFinalize(l)
      BY <3>1, AgreedFinalize
    <3>2. CASE ~SettleFinalize(l)
      BY <2>3, <3>2 DEF Work, Prepare, FinishSlide, ObserveCancel, Publish, Announce,
                        SettleClaim, SettleRecord, Close, Acknowledge
    <3> QED BY <3>1, <3>2
  <2>4. ASSUME NEW l \in Launches, Start(l) \/ Fail(l) PROVE UNCHANGED ledgerVars
    BY <2>4 DEF Start, Fail
  <2>5. ASSUME NEW l \in Launches, Fault(l) PROVE UNCHANGED ledgerVars
    BY <2>5 DEF Fault, EnqueueFails, EndpointCrash, WorkerCrash, TimeLimitKill, LoseMessage
  <2>6. ASSUME Cancel PROVE [Contract!Next]_ledgerVars
    BY <2>6, AgreedCancel DEF Cancel, CancelMark, CancelCooperatively,
             CancelImmediately, CancelClaim, CancelRevert
  <2>7. CancelLoad \/ CancelCrash \/ SweepStuck => UNCHANGED ledgerVars
    BY DEF CancelLoad, CancelCrash, SweepStuck
  <2>8. UNCHANGED vars => UNCHANGED ledgerVars
    BY DEF vars, ledgerVars
  <2> QED BY <2>1, <2>2, <2>3, <2>4, <2>5, <2>6, <2>7, <2>8 DEF Next
<1> QED BY <1>1, SettlingInvariant, PTL DEF Spec, UsesLedgerAsAgreed

-----------------------------------------------------------------------------
(* While a cancel is being served, the row stays billed to the launch it   *)
(* loaded: only a new bill writes another ref, and nobody writes one.      *)
LEMMA RefKept ==
    ASSUME Typed, Settling, [Next]_vars, canceller.pc # "idle"
    PROVE  lesson'.ref = lesson.ref
<1>0. lesson \in LessonRow /\ canceller.seen \in LessonRow
  BY DEF Typed, TypeOK, Canceller
<1> DEFINE Writes(seen, new) == lesson' = Flush(lesson, seen, new)
<1>f. ASSUME NEW seen \in LessonRow, NEW new \in LessonRow, new.ref = seen.ref,
             Writes(seen, new)
      PROVE  lesson'.ref = lesson.ref
  BY <1>0, <1>f, FlushRow
<1>s. ASSUME NEW row \in LessonRow
      PROVE  /\ [row EXCEPT !.status = "draft"] \in LessonRow
             /\ [row EXCEPT !.status = "draft"].ref = row.ref
             /\ [row EXCEPT !.cancel = TRUE] \in LessonRow
             /\ [row EXCEPT !.cancel = TRUE].ref = row.ref
             /\ \A n \in Nat : /\ [row EXCEPT !.spent = n] \in LessonRow
                               /\ [row EXCEPT !.spent = n].ref = row.ref
  BY DEF LessonRow, Statuses
<1>1. ASSUME NEW l \in Launches, Request(l) PROVE lesson'.ref = lesson.ref
  <2>0. launch[l].seen \in LessonRow /\ l \in Ids
    BY InRange DEF Ids
  <2>1. ~WriteBilling(l)
    BY DEF WriteBilling, Settling, Local, Alone
  <2>2. CASE SaveTaskId(l)
    BY <2>0, <2>2, <1>f, WithTaskRow DEF SaveTaskId
  <2>3. CASE ClaimForRefund(l)
    BY <1>0, <2>3, ClaimedRow DEF ClaimForRefund
  <2>4. CASE Redraft(l)
    <3> DEFINE new == [launch[l].seen EXCEPT !.status = "draft"]
    <3>1. new \in LessonRow /\ new.ref = launch[l].seen.ref
      BY <2>0, <1>s
    <3>2. lesson' = [lesson EXCEPT !.status = "draft"] \/ Writes(launch[l].seen, new)
      BY <2>4 DEF Redraft
    <3> HIDE DEF new, Writes
    <3>3. CASE lesson' = [lesson EXCEPT !.status = "draft"]
      BY <1>0, <1>s, <3>3
    <3>4. CASE Writes(launch[l].seen, new)
      BY <2>0, <3>1, <3>4, <1>f
    <3> QED BY <3>2, <3>3, <3>4
  <2> QED BY <1>1, <2>1, <2>2, <2>3, <2>4
          DEF Request, BillTrial, BillCredits, RefuseUnpaid, Enqueue, RefundLaunch
<1>2. ASSUME NEW l \in Launches, Work(l) PROVE lesson'.ref = lesson.ref
  <2>0. run[l].seen \in LessonRow /\ run[l].done \in Nat /\ run[l].est \in Nat
    BY InRange
  <2>1. CASE FinishSlide(l)
    <3> DEFINE n == SpentSoFar(l, run[l].done + 1)
               new == [run[l].seen EXCEPT !.spent = n]
    <3>1. n \in Nat
      <4>1. \A done \in Nat : SpentSoFar(l, done) \in 0..run[l].est
        BY CostBounds
      <4> QED BY <2>0, <4>1
    <3>2. Writes(run[l].seen, new)
      BY <2>1 DEF FinishSlide
    <3> HIDE DEF n
    <3>3. new \in LessonRow /\ new.ref = run[l].seen.ref
      BY <2>0, <3>1, <1>s
    <3> HIDE DEF new, Writes
    <3> QED BY <2>0, <3>2, <3>3, <1>f
  <2>2. CASE Publish(l)
    BY <2>0, <2>2, <1>f, EndedRow DEF Publish, Statuses
  <2>3. CASE SettleClaim(l)
    BY <1>0, <2>3, ClaimedRow DEF SettleClaim
  <2>4. CASE SettleRecord(l)
    <3> DEFINE old == IF run[l].claimed = "none" THEN lesson ELSE run[l].seen
               n == IF run[l].via = "credits" THEN Cost(l) ELSE 0
               new == [old EXCEPT !.spent = n]
    <3>1. old \in LessonRow
      BY <1>0, <2>0
    <3>2. n \in Nat
      BY CostBounds
    <3>3. Writes(old, new)
      BY <2>4 DEF SettleRecord
    <3> HIDE DEF old, n
    <3>4. new \in LessonRow /\ new.ref = old.ref
      BY <3>1, <3>2, <1>s
    <3> HIDE DEF new, Writes
    <3> QED BY <3>1, <3>3, <3>4, <1>f
  <2>5. CASE Close(l)
    <3> DEFINE new == IF run[l].outcome = "cancel"
                      THEN Ended(run[l].seen, launch[l].kind, "cancelled")
                      ELSE run[l].seen
    <3>1. new \in LessonRow /\ new.ref = run[l].seen.ref
      BY <2>0, EndedRow DEF Statuses
    <3>2. Writes(run[l].seen, new)
      BY <2>5 DEF Close
    <3> HIDE DEF new, Writes
    <3> QED BY <2>0, <3>1, <3>2, <1>f
  <2> QED BY <1>2, <2>1, <2>2, <2>3, <2>4, <2>5
          DEF Work, Prepare, ObserveCancel, Announce, SettleFinalize, Acknowledge
<1>3. ASSUME NEW l \in Launches, Start(l) PROVE lesson'.ref = lesson.ref
  BY <1>0, <1>3 DEF Start, LessonRow
<1>4. ASSUME NEW l \in Launches, Fail(l) PROVE lesson'.ref = lesson.ref
  <2>0. run[l].seen \in LessonRow
    BY InRange
  <2> QED BY <2>0, <1>4, <1>f, EndedRow DEF Fail, Statuses
<1>5. ASSUME Cancel PROVE lesson'.ref = lesson.ref
  <2>1. CASE CancelMark
    <3> DEFINE new == [canceller.seen EXCEPT !.cancel = TRUE]
    <3>1. new \in LessonRow /\ new.ref = canceller.seen.ref
      BY <1>0, <1>s
    <3>2. Writes(canceller.seen, new)
      BY <2>1 DEF CancelMark
    <3> HIDE DEF new, Writes
    <3> QED BY <1>0, <3>1, <3>2, <1>f
  <2>2. CASE CancelClaim
    BY <1>0, <2>2, ClaimedRow DEF CancelClaim
  <2>3. CASE CancelRevert
    <3> DEFINE to == IF canceller.kind = "video" /\ canceller.seen.auto
                     THEN "ready_for_edit" ELSE "draft"
               new == Ended(canceller.seen, canceller.kind, to)
    <3>1. to \in Statuses
      BY DEF Statuses
    <3>2. lesson' = Ended(lesson, canceller.kind, to) \/ Writes(canceller.seen, new)
      BY <2>3 DEF CancelRevert
    <3> HIDE DEF to
    <3>3. new \in LessonRow /\ new.ref = canceller.seen.ref
      BY <1>0, <3>1, EndedRow
    <3> HIDE DEF new, Writes
    <3> QED BY <1>0, <3>1, <3>2, <3>3, <1>f, EndedRow
  <2> QED BY <1>5, <2>1, <2>2, <2>3
          DEF Cancel, CancelCooperatively, CancelImmediately, CancelRefund
<1>6. ASSUME SweepStuck PROVE lesson'.ref = lesson.ref
  BY <1>0, <1>6, EndedRow DEF SweepStuck, Statuses
<1>7. ASSUME NEW l \in Launches, Fault(l) PROVE lesson' = lesson
  BY <1>7 DEF Fault, EnqueueFails, EndpointCrash, WorkerCrash, TimeLimitKill, LoseMessage
<1>8. ASSUME NEW l \in Launches, NEW kind \in Kinds, NEW est \in Estimates,
             Admit(l, kind, est)
      PROVE  lesson' = lesson
  BY <1>8 DEF Admit
<1>9. CancelLoad \/ CancelCrash \/ UNCHANGED vars => lesson' = lesson
  BY DEF CancelLoad, CancelCrash, vars
<1> QED BY <1>1, <1>2, <1>3, <1>4, <1>5, <1>6, <1>7, <1>8, <1>9 DEF Next

(* While the cancel endpoint holds the claim, only its refund touches the  *)
(* account.                                                                *)
LEMMA ClaimGuardsAccount ==
    ASSUME Typed, Settling, [Next]_vars, CancelClaims, ~CancelRefund
    PROVE  ledger' = ledger
<1>1. ASSUME NEW l \in Launches PROVE ~TaskClaims(l) /\ ~EndpointClaims(l)
  BY DEF Settling, Local, Exclusive
<1>2. canceller.pc # "idle"
  BY DEF Settling, RowBacked
<1>3. ASSUME NEW l \in Launches, Request(l) PROVE ledger' = ledger
  <2>1. ~BillCredits(l)
    BY <1>2 DEF BillCredits, Settling, Local, Alone
  <2>2. RefundLaunch(l) => ledger' = ledger
    BY <1>1 DEF RefundLaunch, EndpointClaims, ledgerVars
  <2> QED BY <1>3, <2>1, <2>2 DEF Request, BillTrial, RefuseUnpaid, WriteBilling, Enqueue,
                              SaveTaskId, ClaimForRefund, Redraft, ledgerVars
<1>4. ASSUME NEW l \in Launches, Work(l) PROVE ledger' = ledger
  <2>1. SettleFinalize(l) => ledger' = ledger
    BY <1>1 DEF SettleFinalize, Captures, TaskClaims, ledgerVars
  <2> QED BY <1>4, <2>1 DEF Work, Prepare, FinishSlide, ObserveCancel, Publish, Announce,
                        SettleClaim, SettleRecord, Close, Acknowledge, ledgerVars
<1>5. ASSUME NEW l \in Launches, Start(l) \/ Fail(l) \/ Fault(l) PROVE ledger' = ledger
  BY <1>5 DEF Start, Fail, Fault, EnqueueFails, EndpointCrash, WorkerCrash,
              TimeLimitKill, LoseMessage, ledgerVars
<1>6. ASSUME NEW l \in Launches, NEW kind \in Kinds, NEW est \in Estimates,
             Admit(l, kind, est)
      PROVE  ledger' = ledger
  BY <1>6 DEF Admit, ledgerVars
<1>7. Cancel => ledger' = ledger
  BY DEF Cancel, CancelMark, CancelCooperatively, CancelImmediately, CancelClaim,
         CancelRevert, ledgerVars
<1>8. CancelLoad \/ CancelCrash \/ SweepStuck \/ UNCHANGED vars => ledger' = ledger
  BY DEF CancelLoad, CancelCrash, SweepStuck, vars, ledgerVars
<1> QED BY <1>3, <1>4, <1>5, <1>6, <1>7, <1>8 DEF Next

(* The claim a cancel has taken: first an open hold nothing was charged    *)
(* from, then a hold that is given back.                                   *)
CancelBacked ==
    /\ canceller.pc # "idle" => canceller.seen.ref = lesson.ref
    /\ canceller.claimed = "credits" /\ canceller.pc = "refunding" =>
          canceller.seen.ref \in Launches /\ HoldOpen(canceller.seen.ref)
    /\ canceller.claimed = "credits" /\ canceller.pc = "reverting" =>
          /\ canceller.seen.ref \in Launches
          /\ ~HoldOpen(canceller.seen.ref)
          /\ ledger[canceller.seen.ref].charged = 0

(* One step of any actor.                                                  *)
LEMMA CancelBackedStep ==
    ASSUME Typed, Settling, CancelBacked, [Next]_vars
    PROVE  CancelBacked'
<1>0. canceller \in Canceller /\ canceller.seen \in LessonRow /\ lesson \in LessonRow
  BY DEF Typed, TypeOK, Canceller
<1>i. IdleCanceller.claimed = "none" /\ IdleCanceller.pc = "idle"
  BY DEF IdleCanceller
<1>1. CASE canceller' = canceller
  <2>1. canceller.pc # "idle" => lesson'.ref = lesson.ref
    BY RefKept
  <2>2. CASE CancelClaims
    <3>1. ledger' = ledger
      BY <1>0, <1>1, <2>2, ClaimGuardsAccount DEF CancelRefund, Canceller
    <3> QED BY <1>1, <2>1, <3>1 DEF CancelBacked, HoldOpen
  <2>3. CASE ~CancelClaims
    BY <1>1, <2>1, <2>3 DEF CancelBacked, CancelClaims
  <2> QED BY <2>2, <2>3
<1>2. ASSUME CancelLoad PROVE CancelBacked'
  <2>1. /\ canceller'.claimed = "none" /\ canceller'.seen = lesson /\ lesson' = lesson
    BY <1>2 DEF CancelLoad, IdleCanceller
  <2> QED BY <2>1 DEF CancelBacked
<1>3. ASSUME canceller' = IdleCanceller PROVE CancelBacked'
  BY <1>3, <1>i DEF CancelBacked
<1>4. ASSUME CancelMark PROVE CancelBacked'
  <2> DEFINE new == [canceller.seen EXCEPT !.cancel = TRUE]
  <2>1. /\ canceller.pc = "loaded" /\ canceller'.pc = "asked" /\ canceller'.seen = new
    BY <1>0, <1>4 DEF CancelMark, Canceller
  <2>2. new.ref = canceller.seen.ref
    BY <1>0 DEF LessonRow
  <2>3. lesson'.ref = lesson.ref
    BY <2>1, RefKept
  <2> QED BY <2>1, <2>2, <2>3 DEF CancelBacked
<1>5. ASSUME CancelImmediately PROVE CancelBacked'
  <2>1. /\ canceller.pc = "asked" /\ canceller'.pc = "claiming"
        /\ canceller'.seen = canceller.seen /\ lesson' = lesson
    BY <1>0, <1>5 DEF CancelImmediately, Canceller
  <2> QED BY <2>1 DEF CancelBacked
<1>6. ASSUME CancelClaim PROVE CancelBacked'
  <2>1. /\ canceller.pc = "claiming" /\ canceller'.pc = "refunding"
        /\ canceller'.claimed = lesson.via /\ ledger' = ledger
        /\ canceller'.seen = [canceller.seen EXCEPT !.via = "none"]
    <3> DEFINE seen == [canceller.seen EXCEPT !.via = "none"]
    <3>1. canceller' = [canceller EXCEPT !.pc = "refunding", !.claimed = lesson.via,
                                         !.seen = seen]
      BY <1>0, <1>6 DEF CancelClaim, Canceller
    <3> HIDE DEF seen
    <3>2. canceller'.seen = seen /\ canceller'.pc = "refunding" /\ canceller'.claimed = lesson.via
      BY <1>0, <3>1 DEF Canceller
    <3> QED BY <1>6, <3>2 DEF CancelClaim, ledgerVars, seen
  <2>2. canceller'.seen.ref = canceller.seen.ref
    BY <1>0, <2>1 DEF LessonRow
  <2>3. lesson'.ref = lesson.ref
    BY <2>1, RefKept
  <2>4. canceller.seen.ref = lesson.ref
    BY <2>1 DEF CancelBacked
  <2>5. lesson.via = "credits" => lesson.ref \in Launches /\ HoldOpen(lesson.ref)
    BY DEF Settling, RowBacked, Holds
  <2> QED BY <2>1, <2>2, <2>3, <2>4, <2>5 DEF CancelBacked, HoldOpen
<1>7. ASSUME CancelRefund PROVE CancelBacked'
  <2> DEFINE ref == canceller.seen.ref
  <2>1. /\ canceller.pc = "refunding" /\ canceller'.pc = "reverting"
        /\ canceller'.claimed = canceller.claimed /\ canceller'.seen = canceller.seen
        /\ lesson' = lesson
    BY <1>0, <1>7 DEF CancelRefund, Canceller
  <2>2. ASSUME canceller.claimed = "credits"
        PROVE  /\ ref \in Launches
               /\ ~(ledger'[ref].reserves > ledger'[ref].finals)
               /\ ledger'[ref].charged = 0
    <3>1. ref \in Launches /\ HoldOpen(ref)
      BY <2>1, <2>2 DEF CancelBacked
    <3>2. ref # NoId
      BY <3>1, GenerationAssumption
    <3>3. ledger' = [ledger EXCEPT ![ref] = Releasing(@, ledger[ref].last)]
      BY <1>7, <2>2, <3>1, <3>2 DEF CancelRefund, Captures, ReleaseReservationIfHeld
    <3>4. ledger \in [Refs -> Row] /\ ledger[ref] \in Row /\ RunRow(ledger[ref])
          /\ ref \in Refs /\ ledger[ref].last \in Nat
      BY <3>1, GenerationAssumption DEF Typed, TypeOK, Settling, Local, Backed, Row
    <3> DEFINE next == Releasing(ledger[ref], ledger[ref].last)
    <3>5. /\ next.reserves = ledger[ref].reserves /\ next.finals = ledger[ref].finals + 1
          /\ next.charged = ledger[ref].charged
      BY <3>4, ReleasingRow
    <3>6. ledger'[ref] = next
      BY <3>3, <3>4
    <3> HIDE DEF next, ref
    <3>7. ledger[ref].charged = 0 /\ ledger[ref].reserves = 1 /\ ledger[ref].finals = 0
      BY <3>1, <3>4, RowColumns DEF RunRow, HoldOpen
    <3> QED BY <3>1, <3>5, <3>6, <3>7
  <2>3. canceller.seen.ref = lesson.ref
    BY <2>1 DEF CancelBacked
  <2> QED BY <2>1, <2>2, <2>3 DEF CancelBacked, HoldOpen
<1>8. \/ CancelLoad \/ CancelMark \/ CancelImmediately \/ CancelClaim \/ CancelRefund
      \/ canceller' = IdleCanceller \/ canceller' = canceller
  BY DEF Next, vars, Cancel, CancelCooperatively, CancelRevert, CancelCrash, SweepStuck,
         Admit, Request, BillTrial, BillCredits, RefuseUnpaid, WriteBilling, Enqueue,
         SaveTaskId, ClaimForRefund, RefundLaunch, Redraft, Start, Fail, Work, Prepare,
         FinishSlide, ObserveCancel, Publish, Announce, SettleClaim, SettleFinalize,
         SettleRecord, Close, Acknowledge, Fault, EnqueueFails, EndpointCrash,
         WorkerCrash, TimeLimitKill, LoseMessage
<1> QED BY <1>1, <1>2, <1>3, <1>4, <1>5, <1>6, <1>7, <1>8

(* An immediate cancel that reports success has given everything back,     *)
(* also when workers die or the revoke is lost on the way.                 *)
THEOREM CancelGivesBack ==
    ASSUME Patience = "settled"
    PROVE  Spec => []ImmediateCancelRefunds
<1>1. Init => CancelBacked
  BY DEF Init, IdleCanceller, CancelBacked
<1>2. CancelBacked => ImmediateCancelRefunds
  BY DEF CancelBacked, ImmediateCancelRefunds
<1>3. Typed /\ Settling /\ CancelBacked /\ [Next]_vars => CancelBacked'
  BY CancelBackedStep
<1> QED BY <1>1, <1>2, <1>3, SettlingInvariant, PTL DEF Spec


-----------------------------------------------------------------------------
(* A row that differs from another at most in columns other than the       *)
(* bill's, and whose status moved, if at all, to one that ends a pipeline. *)
Tame(row, next) ==
    /\ next \in LessonRow
    /\ next.via = row.via /\ next.ref = row.ref /\ next.est = row.est
    /\ next.status = row.status \/ next.status \notin Active

(* An UPDATE made from a copy changes the row as little as it does the     *)
(* copy.                                                                   *)
LEMMA FlushTame ==
    ASSUME NEW row \in LessonRow, NEW seen \in LessonRow, NEW new, Tame(seen, new)
    PROVE  Tame(row, Flush(row, seen, new))
<1>1. Flush(row, seen, new) \in LessonRow
  BY FlushRow DEF Tame
<1>2. Flush(row, seen, new).status \in {row.status, new.status}
      /\ (new.status = seen.status => Flush(row, seen, new).status = row.status)
  BY DEF Flush, Column
<1>3. /\ Flush(row, seen, new).via = row.via /\ Flush(row, seen, new).ref = row.ref
      /\ Flush(row, seen, new).est = row.est
  BY FlushRow DEF Tame
<1> QED BY <1>1, <1>2, <1>3 DEF Tame

(* Ending a generation, recording a task id, a price or a cancel request   *)
(* are such changes.                                                       *)
LEMMA TameRow ==
    ASSUME NEW row \in LessonRow
    PROVE  /\ Tame(row, row)
           /\ \A kind : \A status \in Statuses \ Active : Tame(row, Ended(row, kind, status))
           /\ \A kind : \A id \in Ids : Tame(row, WithTask(row, kind, id))
           /\ \A n \in Nat : Tame(row, [row EXCEPT !.spent = n])
           /\ Tame(row, [row EXCEPT !.cancel = TRUE])
           /\ Tame(row, [row EXCEPT !.status = "draft"])
<1>1. ASSUME NEW kind, NEW status \in Statuses \ Active
      PROVE  Tame(row, Ended(row, kind, status))
  <2>1. Ended(row, kind, status).status = status
    BY DEF Ended, WithTask, LessonRow
  <2> QED BY <2>1, EndedRow DEF Tame
<1>2. ASSUME NEW kind, NEW id \in Ids
      PROVE  Tame(row, WithTask(row, kind, id))
  <2>1. WithTask(row, kind, id).status = row.status
    BY DEF WithTask, LessonRow
  <2> QED BY <2>1, WithTaskRow DEF Tame
<1>3. ASSUME NEW n \in Nat PROVE Tame(row, [row EXCEPT !.spent = n])
  BY DEF Tame, LessonRow
<1>4. Tame(row, [row EXCEPT !.cancel = TRUE])
  BY DEF Tame, LessonRow
<1>5. Tame(row, [row EXCEPT !.status = "draft"])
  BY DEF Tame, LessonRow, Statuses, Active
<1>6. Tame(row, row)
  BY DEF Tame
<1> QED BY <1>1, <1>2, <1>3, <1>4, <1>5, <1>6

(* All the writes of the row are of this kind, but for a new bill, the     *)
(* start of a task and the claims.                                         *)
LEMMA RequestTame ==
    ASSUME Typed, NEW l \in Launches, Request(l), ~WriteBilling(l), ~ClaimForRefund(l)
    PROVE  Tame(lesson, lesson')
<1>0. /\ lesson \in LessonRow /\ launch[l].seen \in LessonRow /\ l \in Ids
      /\ Tame(lesson, lesson)
  BY InRange, TameRow DEF Ids
<1>1. CASE SaveTaskId(l)
  <2>1. Tame(launch[l].seen, WithTask(launch[l].seen, launch[l].kind, l))
    BY <1>0, TameRow
  <2>2. lesson' = Flush(lesson, launch[l].seen, WithTask(launch[l].seen, launch[l].kind, l))
    BY <1>1 DEF SaveTaskId
  <2> QED BY <1>0, <2>1, <2>2, FlushTame
<1>2. CASE Redraft(l)
  <2> DEFINE new == [launch[l].seen EXCEPT !.status = "draft"]
  <2>1. Tame(launch[l].seen, new) /\ Tame(lesson, [lesson EXCEPT !.status = "draft"])
    BY <1>0, TameRow
  <2>2. \/ lesson' = [lesson EXCEPT !.status = "draft"]
        \/ lesson' = Flush(lesson, launch[l].seen, new)
    BY <1>2 DEF Redraft
  <2> HIDE DEF new
  <2>3. Tame(lesson, Flush(lesson, launch[l].seen, new))
    BY <1>0, <2>1, FlushTame
  <2> QED BY <2>1, <2>2, <2>3
<1>3. CASE lesson' = lesson
  BY <1>0, <1>3
<1> QED BY <1>1, <1>2, <1>3 DEF Request, BillTrial, BillCredits, RefuseUnpaid, Enqueue,
                                RefundLaunch

(* ... the task's.                                                         *)
LEMMA TaskTame ==
    ASSUME Typed, NEW l \in Launches, Work(l) \/ Fail(l), SettleClaim(l) => Unbilled(l)
    PROVE  Tame(lesson, lesson')
<1>0. /\ lesson \in LessonRow /\ run[l].seen \in LessonRow /\ run[l].done \in Nat
      /\ run[l].est \in Nat /\ Tame(lesson, lesson)
  BY InRange, TameRow
<1>1. CASE FinishSlide(l)
  <2> DEFINE n == SpentSoFar(l, run[l].done + 1)
             new == [run[l].seen EXCEPT !.spent = n]
  <2>1. n \in Nat
    <3>1. \A done \in Nat : SpentSoFar(l, done) \in 0..run[l].est
      BY CostBounds
    <3> QED BY <1>0, <3>1
  <2>2. lesson' = Flush(lesson, run[l].seen, new)
    BY <1>1 DEF FinishSlide
  <2> HIDE DEF n
  <2>3. Tame(run[l].seen, new)
    BY <1>0, <2>1, TameRow
  <2> HIDE DEF new
  <2> QED BY <1>0, <2>2, <2>3, FlushTame
<1>2. CASE Publish(l)
  <2> DEFINE to == IF launch[l].kind = "video" THEN "published" ELSE "ready_for_edit"
  <2>1. to \in Statuses \ Active
    BY DEF Statuses, Active
  <2>2. lesson' = Flush(lesson, run[l].seen, Ended(run[l].seen, launch[l].kind, to))
    BY <1>2 DEF Publish
  <2> HIDE DEF to
  <2>3. Tame(run[l].seen, Ended(run[l].seen, launch[l].kind, to))
    BY <1>0, <2>1, TameRow
  <2> QED BY <1>0, <2>2, <2>3, FlushTame
<1>3. CASE SettleRecord(l)
  <2> DEFINE old == IF run[l].claimed = "none" THEN lesson ELSE run[l].seen
             n == IF run[l].via = "credits" THEN Cost(l) ELSE 0
             new == [old EXCEPT !.spent = n]
  <2>1. old \in LessonRow
    BY <1>0
  <2>2. n \in Nat
    BY CostBounds
  <2>3. lesson' = Flush(lesson, old, new)
    BY <1>3 DEF SettleRecord
  <2> HIDE DEF old, n
  <2>4. Tame(old, new)
    BY <2>1, <2>2, TameRow
  <2> HIDE DEF new
  <2> QED BY <1>0, <2>1, <2>3, <2>4, FlushTame
<1>4. CASE Close(l)
  <2> DEFINE new == IF run[l].outcome = "cancel"
                    THEN Ended(run[l].seen, launch[l].kind, "cancelled")
                    ELSE run[l].seen
  <2>1. Tame(run[l].seen, new)
    <3>1. "cancelled" \in Statuses \ Active
      BY DEF Statuses, Active
    <3>2. Tame(run[l].seen, Ended(run[l].seen, launch[l].kind, "cancelled"))
      BY <1>0, <3>1, TameRow
    <3> QED BY <1>0, <3>2, TameRow
  <2>2. lesson' = Flush(lesson, run[l].seen, new)
    BY <1>4 DEF Close
  <2> HIDE DEF new
  <2> QED BY <1>0, <2>1, <2>2, FlushTame
<1>5. CASE Fail(l)
  <2>1. "error" \in Statuses \ Active
    BY DEF Statuses, Active
  <2>2. lesson' = Flush(lesson, run[l].seen, Ended(run[l].seen, launch[l].kind, "error"))
    BY <1>5 DEF Fail
  <2>3. Tame(run[l].seen, Ended(run[l].seen, launch[l].kind, "error"))
    BY <1>0, <2>1, TameRow
  <2> QED BY <1>0, <2>2, <2>3, FlushTame
<1>6. CASE lesson' = lesson
  BY <1>0, <1>6
<1>7. SettleClaim(l) => lesson' = lesson
  BY DEF SettleClaim
<1> QED BY <1>1, <1>2, <1>3, <1>4, <1>5, <1>6, <1>7
        DEF Work, Prepare, ObserveCancel, Announce, SettleFinalize, Acknowledge

(* ... the cancel endpoint's and the sweep's, and everybody else's.        *)
LEMMA CancelTame ==
    ASSUME Typed, (Cancel /\ ~CancelClaim) \/ SweepStuck
    PROVE  Tame(lesson, lesson')
<1>0. /\ lesson \in LessonRow /\ canceller.seen \in LessonRow
      /\ Tame(lesson, lesson)
  BY TameRow DEF Typed, TypeOK, Canceller
<1>1. CASE CancelMark
  <2>1. Tame(canceller.seen, [canceller.seen EXCEPT !.cancel = TRUE])
    BY <1>0, TameRow
  <2>2. lesson' = Flush(lesson, canceller.seen, [canceller.seen EXCEPT !.cancel = TRUE])
    BY <1>1 DEF CancelMark
  <2> QED BY <1>0, <2>1, <2>2, FlushTame
<1>2. CASE CancelRevert
  <2> DEFINE to == IF canceller.kind = "video" /\ canceller.seen.auto
                   THEN "ready_for_edit" ELSE "draft"
  <2>1. to \in Statuses \ Active
    BY DEF Statuses, Active
  <2>2. \/ lesson' = Ended(lesson, canceller.kind, to)
        \/ lesson' = Flush(lesson, canceller.seen, Ended(canceller.seen, canceller.kind, to))
    BY <1>2 DEF CancelRevert
  <2> HIDE DEF to
  <2>3. /\ Tame(lesson, Ended(lesson, canceller.kind, to))
        /\ Tame(canceller.seen, Ended(canceller.seen, canceller.kind, to))
    BY <1>0, <2>1, TameRow
  <2> QED BY <1>0, <2>2, <2>3, FlushTame
<1>3. CASE SweepStuck
  <2>1. "error" \in Statuses \ Active
    BY DEF Statuses, Active
  <2>2. \E kind \in {"video", "vision"} :
            lesson' = Ended(lesson, kind, "error")
    BY <1>3 DEF SweepStuck
  <2>3. \A kind \in {"video", "vision"} : Tame(lesson, Ended(lesson, kind, "error"))
    BY <1>0, <2>1, TameRow
  <2> QED BY <2>2, <2>3
<1>4. CASE lesson' = lesson
  BY <1>0, <1>4
<1> QED BY <1>1, <1>2, <1>3, <1>4
        DEF Cancel, CancelCooperatively, CancelImmediately, CancelRefund

(* A step of launch l's request or task leaves the other launches alone.   *)
LEMMA StepsOnlyAt ==
    ASSUME Typed, NEW l \in Launches,
           \/ Request(l) \/ Start(l) \/ Work(l) \/ Fail(l) \/ Fault(l)
           \/ \E kind \in Kinds, est \in Estimates : Admit(l, kind, est)
    PROVE  /\ UNCHANGED <<canceller, cancels, sweeps>>
           /\ \A k \in Launches \ {l} :
                 /\ launch'[k] = launch[k] /\ queue'[k] = queue[k] /\ run'[k] = run[k]
                 /\ delivered'[k] = delivered[k]
<1>0. /\ launch \in [Launches -> Launch] /\ run \in [Launches -> Run]
      /\ queue \in [Launches -> QueueStates]
      /\ delivered \in [Launches -> SUBSET {"ok", "error", "cancel", "untouched"}]
  BY DEF Typed, TypeOK
<1>1. CASE Request(l)
  <2>1. /\ UNCHANGED <<run, delivered, canceller, cancels, sweeps>>
        /\ queue' = queue \/ queue' = [queue EXCEPT ![l] = "queued"]
    BY <1>1 DEF Request, BillTrial, BillCredits, RefuseUnpaid, WriteBilling, Enqueue,
                SaveTaskId, ClaimForRefund, RefundLaunch, Redraft
  <2>2. \A k \in Launches \ {l} : launch'[k] = launch[k]
    BY <1>0, <1>1 DEF Request, BillTrial, BillCredits, RefuseUnpaid, WriteBilling, Enqueue,
                SaveTaskId, ClaimForRefund, RefundLaunch, Redraft
  <2> QED BY <1>0, <2>1, <2>2
<1>2. CASE Start(l)
  BY <1>0, <1>2 DEF Start
<1>3. CASE Work(l)
  <2>1. UNCHANGED <<launch, canceller, cancels, sweeps>>
    BY <1>3 DEF Work, Prepare, FinishSlide, ObserveCancel, Publish, Announce,
                SettleClaim, SettleFinalize, SettleRecord, Close, Acknowledge
  <2>2. \A k \in Launches \ {l} : queue'[k] = queue[k]
    BY <1>0, <1>3 DEF Work, Prepare, FinishSlide, ObserveCancel, Publish, Announce,
                SettleClaim, SettleFinalize, SettleRecord, Close, Acknowledge
  <2>3. \A k \in Launches \ {l} : run'[k] = run[k]
    BY <1>0, <1>3 DEF Work, Prepare, FinishSlide, ObserveCancel, Publish, Announce,
                SettleClaim, SettleFinalize, SettleRecord, Close, Acknowledge
  <2>4. \A k \in Launches \ {l} : delivered'[k] = delivered[k]
    BY <1>0, <1>3 DEF Work, Prepare, FinishSlide, ObserveCancel, Publish, Announce,
                SettleClaim, SettleFinalize, SettleRecord, Close, Acknowledge
  <2> QED BY <2>1, <2>2, <2>3, <2>4
<1>4. CASE Fail(l)
  BY <1>0, <1>4 DEF Fail
<1>5. CASE Fault(l)
  BY <1>0, <1>5 DEF Fault, EnqueueFails, EndpointCrash, WorkerCrash, TimeLimitKill,
                    LoseMessage
<1>6. CASE \E kind \in Kinds, est \in Estimates : Admit(l, kind, est)
  BY <1>0, <1>6 DEF Admit
<1> QED BY <1>1, <1>2, <1>3, <1>4, <1>5, <1>6


-----------------------------------------------------------------------------
(* A new bill is written over a row nobody else works with.                *)
LEMMA BillWritten ==
    ASSUME Typed, Settling, NEW l \in Launches, WriteBilling(l)
    PROVE  /\ launch[l].pc = "billed" /\ launch'[l].pc = "written"
           /\ launch'[l].via = launch[l].via /\ launch'[l].kind = launch[l].kind
           /\ lesson'.via = launch[l].via
           /\ lesson'.status \in Active => launch[l].kind = "vision" /\ lesson'.status = "analyzing"
           /\ UNCHANGED <<queue, run, ledger, delivered, slots, crashes>>
<1> DEFINE me   == launch[l]
           paid == me.via = "credits"
           new  == [me.seen EXCEPT
                      !.est = IF paid THEN me.est ELSE 0,
                      !.spent = 0,
                      !.ref = IF paid THEN l ELSE NoId,
                      !.via = me.via,
                      !.cancel = FALSE,
                      !.auto = @ \/ me.kind = "vision",
                      !.status = IF me.kind = "vision" THEN "analyzing" ELSE @]
<1>0. /\ launch \in [Launches -> Launch] /\ me \in Launch /\ me.seen \in LessonRow
      /\ lesson \in LessonRow
  BY InRange
<1>1. /\ me.pc = "billed" /\ lesson' = Flush(lesson, me.seen, new)
      /\ launch' = [launch EXCEPT ![l].pc = "written", ![l].seen = new]
      /\ UNCHANGED <<queue, run, ledger, delivered, slots, crashes>>
  BY DEF WriteBilling, ledgerVars
<1>2. me.seen = lesson /\ lesson.status \notin Active
  BY <1>1 DEF Settling, Local, Alone
<1>3. /\ new.via = me.via
      /\ new.status = IF me.kind = "vision" THEN "analyzing" ELSE lesson.status
  BY <1>0, <1>2 DEF LessonRow
<1>4. Flush(lesson, lesson, new).via = new.via
      /\ Flush(lesson, lesson, new).status = new.status
  BY DEF Flush, Column
<1> HIDE DEF new
<1>5. launch'[l].pc = "written" /\ launch'[l].via = me.via /\ launch'[l].kind = me.kind
  BY <1>0, <1>1 DEF Launch
<1>6. lesson'.via = me.via /\ lesson'.status = new.status
  BY <1>1, <1>2, <1>3, <1>4
<1> QED BY <1>1, <1>2, <1>3, <1>5, <1>6 DEF Active

-----------------------------------------------------------------------------
(* What a generation is paid with, while nothing has crashed and nobody    *)
(* asked for a cancel.                                                     *)
AtWork == {"preparing", "working", "published", "settling"}

(* A launch that is billed and not settled yet.                            *)
Due(l) ==
    \/ launch[l].pc \in {"billed", "written"}
    \/ queue[l] = "queued"
    \/ run[l].pc \in AtWork \cup {"finalizing"}

(* The source of the bill goes from the launch to the row and from there   *)
(* to the task; once the outcome is out, the task settles it, and then the *)
(* hold is charged.                                                        *)
Paying(l) ==
    /\ launch[l].pc \notin {"unqueued", "releasing", "redrafting"}
    /\ Due(l) => launch[l].via # "none"
    /\ launch[l].pc = "written" \/ queue[l] = "queued" => lesson.via = launch[l].via
    /\ run[l].pc \in AtWork =>
          lesson.via = launch[l].via /\ run[l].via = launch[l].via
    /\ run[l].pc = "finalizing" => run[l].claimed = launch[l].via
    /\ "ok" \in delivered[l] =>
          \/ run[l].pc \in {"settling", "finalizing"} /\ run[l].outcome = "ok"
          \/ run[l].pc \in {"recording", "closing", "done"}
          \/ queue[l] = "acked"
    /\ "ok" \in delivered[l] /\ launch[l].via = "credits"
          /\ run[l].pc \notin {"settling", "finalizing"}
          => ledger[l].reserves > 0 /\ ledger[l].charged = ledger[l].held

(* The launches that hold a slot of the trial, or have used it.            *)
HoldsSlot(l) ==
    /\ launch[l].kind = "video" /\ launch[l].via = "trial"
    /\ Due(l) \/ "ok" \in delivered[l]

(* A launch nobody works on keeps what it has paid.                        *)
LEMMA PayingKept ==
    ASSUME Settling, NEW k \in Launches, Paying(k),
           launch'[k] = launch[k], queue'[k] = queue[k], run'[k] = run[k],
           delivered'[k] = delivered[k], ledger'[k] = ledger[k],
           Working(k) => lesson'.via = lesson.via
    PROVE  Paying(k)' /\ (HoldsSlot(k)' <=> HoldsSlot(k))
<1>1. run[k].pc # "none" => queue[k] = "running"
  BY DEF Settling, Local, Staged
<1>2. Due(k)' <=> Due(k)
  BY DEF Due
<1>3. HoldsSlot(k)' <=> HoldsSlot(k)
  BY <1>2 DEF HoldsSlot
<1>4. Paying(k)'
  BY <1>1, <1>2 DEF Paying, Working, AtWork
<1> QED BY <1>3, <1>4

(* Until its message is out, nothing of a launch is delivered.             *)
LEMMA NothingYet ==
    ASSUME Settling, NEW l \in Launches, Paying(l)
    PROVE  /\ launch[l].pc \notin {"enqueued", "returned"} \/ queue[l] \in {"none", "queued"} =>
                  "ok" \notin delivered[l] /\ run[l].pc = "none"
           /\ launch[l].pc \notin {"enqueued", "returned"} => queue[l] = "none"
           /\ run[l].pc # "none" => queue[l] = "running" /\ launch[l].pc \in {"enqueued", "returned"}
           /\ run[l].pc \in {"preparing", "working", "published"} => "ok" \notin delivered[l]
  BY DEF Settling, Local, Staged, Paying

(* The request, up to the message.                                         *)
LEMMA RequestPays ==
    ASSUME Typed, Settling, NEW l \in Launches, Paying(l)
    PROVE  /\ \A kind \in Kinds, est \in Estimates :
                 Admit(l, kind, est) => Paying(l)' /\ ~HoldsSlot(l)'
           /\ BillTrial(l) => /\ Paying(l)' /\ ~HoldsSlot(l)
                              /\ slots' = IF HoldsSlot(l)' THEN slots + 1 ELSE slots
           /\ BillCredits(l) => Paying(l)' /\ ~HoldsSlot(l)'
           /\ RefuseUnpaid(l) => Paying(l)' /\ ~HoldsSlot(l)'
           /\ WriteBilling(l) => Paying(l)' /\ (HoldsSlot(l)' => HoldsSlot(l))
           /\ Enqueue(l) => Paying(l)' /\ (HoldsSlot(l)' => HoldsSlot(l))
           /\ SaveTaskId(l) => Paying(l)' /\ (HoldsSlot(l)' => HoldsSlot(l))
           /\ ~ClaimForRefund(l) /\ ~RefundLaunch(l) /\ ~Redraft(l)
<1>0. /\ launch \in [Launches -> Launch] /\ launch[l] \in Launch
      /\ queue \in [Launches -> QueueStates]
  BY InRange
<1>1. ASSUME NEW kind \in Kinds, NEW est \in Estimates, Admit(l, kind, est)
      PROVE  Paying(l)' /\ ~HoldsSlot(l)'
  <2>1. /\ launch[l].pc = "idle" /\ launch'[l].pc = "admitted" /\ launch'[l].via = "none"
        /\ UNCHANGED <<queue, run, delivered>>
    BY <1>0, <1>1 DEF Admit
  <2> QED BY <2>1, NothingYet DEF Paying, HoldsSlot, Due, AtWork
<1>2. ASSUME BillTrial(l)
      PROVE  /\ Paying(l)' /\ ~HoldsSlot(l)
             /\ slots' = IF HoldsSlot(l)' THEN slots + 1 ELSE slots
  <2>1. /\ launch[l].pc = "admitted" /\ launch'[l].pc = "billed" /\ launch'[l].via = "trial"
        /\ launch'[l].kind = launch[l].kind
        /\ slots' = IF launch[l].kind = "video" THEN slots + 1 ELSE slots
        /\ UNCHANGED <<queue, run, delivered>>
    BY <1>0, <1>2 DEF BillTrial, Launch
  <2> QED BY <2>1, NothingYet DEF Paying, HoldsSlot, Due, AtWork
<1>3. ASSUME BillCredits(l) PROVE Paying(l)' /\ ~HoldsSlot(l)'
  <2>1. /\ launch[l].pc = "admitted" /\ launch'[l].pc = "billed" /\ launch'[l].via = "credits"
        /\ UNCHANGED <<queue, run, delivered>>
    BY <1>0, <1>3 DEF BillCredits, Launch
  <2> QED BY <2>1, NothingYet DEF Paying, HoldsSlot, Due, AtWork
<1>4. ASSUME RefuseUnpaid(l) PROVE Paying(l)' /\ ~HoldsSlot(l)'
  <2>1. /\ launch[l].pc = "admitted" /\ launch'[l].pc = "refused" /\ launch'[l].via = "none"
        /\ UNCHANGED <<queue, run, delivered>>
    BY <1>0, <1>4 DEF RefuseUnpaid, IdleLaunch
  <2> QED BY <2>1, NothingYet DEF Paying, HoldsSlot, Due, AtWork
<1>5. ASSUME WriteBilling(l) PROVE Paying(l)' /\ (HoldsSlot(l)' => HoldsSlot(l))
  BY <1>5, BillWritten, NothingYet DEF Paying, HoldsSlot, Due, AtWork
<1>6. ASSUME Enqueue(l) PROVE Paying(l)' /\ (HoldsSlot(l)' => HoldsSlot(l))
  <2>1. /\ launch[l].pc = "written" /\ launch'[l].pc = "enqueued"
        /\ launch'[l].via = launch[l].via /\ launch'[l].kind = launch[l].kind
        /\ queue'[l] = "queued"
        /\ UNCHANGED <<lesson, run, delivered>>
    BY <1>0, <1>6 DEF Enqueue, Launch
  <2> QED BY <2>1, NothingYet DEF Paying, HoldsSlot, Due, AtWork
<1>7. ASSUME SaveTaskId(l) PROVE Paying(l)' /\ (HoldsSlot(l)' => HoldsSlot(l))
  <2>1. /\ launch[l].pc = "enqueued" /\ launch'[l].pc = "returned"
        /\ launch'[l].via = launch[l].via /\ launch'[l].kind = launch[l].kind
        /\ UNCHANGED <<queue, run, delivered, ledger>>
    BY <1>0, <1>7 DEF SaveTaskId, Launch, ledgerVars
  <2>2. Request(l) /\ ~WriteBilling(l) /\ ~ClaimForRefund(l)
    BY <1>7, <2>1 DEF Request, WriteBilling, ClaimForRefund
  <2>3. lesson'.via = lesson.via
    BY <2>2, RequestTame DEF Tame
  <2> QED BY <2>1, <2>3 DEF Paying, HoldsSlot, Due, AtWork
<1>8. ~ClaimForRefund(l) /\ ~RefundLaunch(l) /\ ~Redraft(l)
  BY DEF Paying, ClaimForRefund, RefundLaunch, Redraft
<1> QED BY <1>1, <1>2, <1>3, <1>4, <1>5, <1>6, <1>7, <1>8

(* The task, up to its outcome and after its settlement.                   *)
LEMMA WorkPays ==
    ASSUME Typed, Settling, NEW l \in Launches, Paying(l),
           Start(l) \/ Work(l) \/ Fail(l), ~SettleClaim(l), ~SettleFinalize(l)
    PROVE  Paying(l)' /\ (HoldsSlot(l)' => HoldsSlot(l)) /\ slots' = slots
<1>0. /\ run \in [Launches -> Run] /\ run[l] \in Run /\ lesson \in LessonRow
      /\ queue \in [Launches -> QueueStates]
      /\ delivered \in [Launches -> SUBSET {"ok", "error", "cancel", "untouched"}]
  BY InRange DEF Typed, TypeOK
<1>1. CASE Start(l)
  <2>1. /\ queue[l] = "queued" /\ queue'[l] = "running"
        /\ run'[l].pc = "preparing" /\ run'[l].via = lesson.via
        /\ UNCHANGED <<launch, delivered, slots>>
    BY <1>0, <1>1 DEF Start, NoRun
  <2>2. lesson'.via = lesson.via
    BY <1>0, <1>1 DEF Start, LessonRow
  <2> QED BY <2>1, <2>2, NothingYet DEF Paying, HoldsSlot, Due, AtWork
<1>2. ASSUME Work(l) \/ Fail(l)
      PROVE  lesson'.via = lesson.via /\ UNCHANGED <<launch, ledger, slots>>
  <2>1. lesson'.via = lesson.via
    BY <1>2, TaskTame DEF Tame
  <2> QED BY <1>2, <2>1 DEF Work, Prepare, FinishSlide, ObserveCancel, Publish, Announce,
               SettleRecord, Close, Acknowledge, Fail, ledgerVars
<1>3. CASE Prepare(l) \/ FinishSlide(l) \/ ObserveCancel(l) \/ Publish(l)
  <2>1. UNCHANGED <<queue, delivered>>
    BY <1>3 DEF Prepare, FinishSlide, ObserveCancel, Publish
  <2>2. /\ run[l].pc \in {"preparing", "working"}
        /\ run'[l].pc \in {"working", "published", "settling"}
        /\ run'[l].via = run[l].via
    <3>1. CASE Prepare(l)
      BY <1>0, <3>1 DEF Prepare, Run
    <3>2. CASE FinishSlide(l)
      BY <1>0, <3>2 DEF FinishSlide, Run
    <3>3. CASE ObserveCancel(l)
      BY <1>0, <3>3 DEF ObserveCancel, Run
    <3>4. CASE Publish(l)
      BY <1>0, <3>4 DEF Publish, Run
    <3> QED BY <1>3, <3>1, <3>2, <3>3, <3>4
  <2> QED BY <1>2, <1>3, <2>1, <2>2, NothingYet DEF Paying, HoldsSlot, Due, AtWork, Work
<1>4. CASE Announce(l)
  <2>1. /\ run[l].pc = "published" /\ run'[l].pc = "settling"
        /\ run'[l].outcome = "ok" /\ run'[l].via = run[l].via
        /\ queue' = queue
    BY <1>0, <1>4 DEF Announce, Run
  <2> QED BY <1>2, <1>4, <2>1 DEF Paying, HoldsSlot, Due, AtWork, Work
<1>5. CASE Fail(l)
  <2>1. /\ run[l].pc \in {"preparing", "working", "published"}
        /\ run'[l].pc = "settling" /\ run'[l].via = run[l].via
        /\ delivered'[l] = delivered[l] \cup {"error"}
        /\ queue' = queue
    BY <1>0, <1>5 DEF Fail, Run
  <2>2. "ok" \notin delivered'[l]
    BY <2>1, NothingYet
  <2> QED BY <1>2, <1>5, <2>1, <2>2 DEF Paying, HoldsSlot, Due, AtWork
<1>6. CASE SettleRecord(l) \/ Close(l)
  <2>1. UNCHANGED <<queue, delivered>>
    BY <1>6 DEF SettleRecord, Close
  <2>2. /\ run[l].pc \in {"recording", "closing"} /\ run'[l].pc \in {"closing", "done"}
    <3>1. CASE SettleRecord(l)
      BY <1>0, <3>1 DEF SettleRecord, Run
    <3>2. CASE Close(l)
      BY <1>0, <3>2 DEF Close, NoRun
    <3> QED BY <1>6, <3>1, <3>2
  <2> QED BY <1>2, <1>6, <2>1, <2>2, NothingYet DEF Paying, HoldsSlot, Due, AtWork, Work
<1>7. CASE Acknowledge(l)
  <2>1. /\ run[l].pc = "done" /\ run'[l].pc = "none" /\ queue'[l] = "acked"
        /\ delivered' = delivered
    BY <1>0, <1>7 DEF Acknowledge, NoRun
  <2>2. launch[l].pc \in {"enqueued", "returned"}
    BY <2>1, NothingYet
  <2> QED BY <1>2, <1>7, <2>1, <2>2 DEF Paying, HoldsSlot, Due, AtWork, Work
<1> QED BY <1>1, <1>3, <1>4, <1>5, <1>6, <1>7 DEF Work

(* A task that finds its bill in the row claims it.                        *)
LEMMA ClaimPays ==
    ASSUME Typed, Settling, NEW l \in Launches, Paying(l), SettleClaim(l)
    PROVE  /\ Paying(l)' /\ (HoldsSlot(l)' => HoldsSlot(l))
           /\ UNCHANGED <<slots, ledger>>
<1>0. run \in [Launches -> Run] /\ run[l] \in Run
  BY InRange
<1>1. run[l].pc = "settling" /\ UNCHANGED <<launch, queue, delivered, slots, ledger>>
  BY DEF SettleClaim, ledgerVars
<1>2. run[l].via # "none" /\ lesson.via = launch[l].via
  BY <1>1 DEF Paying, Due, AtWork
<1>3. run' = [run EXCEPT ![l].pc = "finalizing", ![l].claimed = lesson.via,
                         ![l].seen.via = "none"]
  BY <1>2 DEF SettleClaim, Unbilled
<1>4. /\ run'[l].pc = "finalizing" /\ run'[l].claimed = lesson.via
      /\ run'[l].outcome = run[l].outcome
  BY <1>0, <1>3 DEF Run
<1>5. queue[l] = "running" /\ launch[l].pc \in {"enqueued", "returned"}
  BY <1>1, NothingYet
<1>6. Paying(l)'
  BY <1>1, <1>2, <1>4, <1>5 DEF Paying, Due, AtWork
<1>7. HoldsSlot(l)' => HoldsSlot(l)
  BY <1>1, <1>2, <1>4, <1>5 DEF HoldsSlot, Due, AtWork
<1> QED BY <1>1, <1>6, <1>7

(* What the second transaction of the settlement does with the hold it has *)
(* claimed: the cost of the outcome is charged, the rest released.         *)
LEMMA FinalizeCharges ==
    ASSUME Typed, Settling, NEW l \in Launches, SettleFinalize(l)
    PROVE  /\ \A k \in Launches \ {l} : ledger'[k] = ledger[k]
           /\ run[l].claimed = "credits" =>
                 /\ ledger'[l].reserves > 0 /\ ledger'[l].charged = Cost(l)
                 /\ ledger'[l].held = run[l].est
<1> USE GenerationAssumption
<1>0. /\ run[l] \in Run /\ run[l].est \in Nat /\ LedgerType /\ l \in Refs /\ Local(l)
      /\ run[l].pc = "finalizing" /\ opened = TRUE
  BY InRange DEF Settling, SettleFinalize
<1>1. launch[l].pc \in {"enqueued", "returned"} /\ Working(l)
  BY <1>0 DEF Local, Staged, Working
<1>2. run[l].ref \in {l, NoId}
  BY <1>0, <1>1 DEF Local, OwnBill
<1>3. CASE Captures(run[l].claimed, run[l].ref) /\ CanFinalize(run[l].ref)
  <2>1. run[l].ref = l /\ run[l].claimed = "credits"
    BY <1>2, <1>3 DEF Captures
  <2>2. HoldOpen(l) /\ ledger[l].last = run[l].est /\ RunRow(ledger[l]) /\ ledger[l] \in Row
    BY <1>0, <2>1 DEF Local, Backed, Holds, LedgerType
  <2>3. FinalizeGeneration(l, run[l].est, Cost(l))
    BY <1>3, <2>1 DEF SettleFinalize
  <2> DEFINE cost == Cost(l)
             final == Finalizing(ledger[l], run[l].est, cost)
  <2>4. cost \in Nat /\ cost <= run[l].est
    BY <1>0, CostBounds
  <2>5. Least(NonNeg(cost), run[l].est) = cost
    <3> HIDE DEF cost
    <3> QED BY <1>0, <2>4 DEF Least, NonNeg
  <2>6. ledger' = [ledger EXCEPT ![l] = final]
    BY <2>3, <2>5 DEF FinalizeGeneration
  <2> HIDE DEF cost
  <2>7. final.reserves = ledger[l].reserves /\ final.held = ledger[l].held
        /\ final.charged = ledger[l].charged + cost
    <3>1. ASSUME NEW row \in Row, NEW estimate \in Nat, cost <= estimate
          PROVE  /\ Finalizing(row, estimate, cost).reserves = row.reserves
                 /\ Finalizing(row, estimate, cost).held = row.held
                 /\ Finalizing(row, estimate, cost).charged = row.charged + cost
      <4> DEFINE settled == Finalizing(row, estimate, cost)
      <4>1. /\ settled.reserves = row.reserves /\ settled.held = row.held
            /\ settled.charged = row.charged + cost
        BY <2>4, <3>1, FinalizingRow
      <4> QED BY <4>1
    <3> QED BY <1>0, <2>2, <2>4, <3>1
  <2> HIDE DEF final
  <2>8. ledger[l].reserves = 1 /\ ledger[l].charged = 0 /\ ledger[l].held = ledger[l].last
    BY <2>2, RowColumns DEF RunRow, HoldOpen
  <2>9. ledger'[l] = final /\ \A k \in Launches \ {l} : ledger'[k] = ledger[k]
    BY <1>0, <2>6 DEF LedgerType
  <2> QED BY <2>2, <2>4, <2>7, <2>8, <2>9 DEF cost
<1>4. CASE ~(Captures(run[l].claimed, run[l].ref) /\ CanFinalize(run[l].ref))
  <2>1. ledger' = ledger
    BY <1>4 DEF SettleFinalize, ledgerVars
  <2>2. ASSUME run[l].claimed = "credits" PROVE FALSE
    <3>1. run[l].ref \in Launches /\ Holds(run[l].ref, run[l].est)
      BY <1>0, <2>2 DEF Local, Backed
    <3>2. run[l].ref = l
      BY <1>2, <3>1
    <3>3. ledger[l].finals = 0
      BY <1>0, <3>1, <3>2, RowColumns DEF LedgerType, Local, Backed, RunRow, Holds, HoldOpen
    <3> QED BY <1>0, <1>4, <2>2, <3>2, <3>3 DEF Captures, CanFinalize
  <2> QED BY <2>1, <2>2
<1> QED BY <1>3, <1>4

(* The settlement charges the hold of a delivered generation in full and   *)
(* keeps its trial slot; another one gives its slot back.                  *)
LEMMA SettlementPays ==
    ASSUME Typed, Settling, NEW l \in Launches, Paying(l), SettleFinalize(l)
    PROVE  /\ Paying(l)'
           /\ \/ slots' = slots /\ (HoldsSlot(l)' => HoldsSlot(l))
              \/ slots' = NonNeg(slots - 1) /\ HoldsSlot(l) /\ ~HoldsSlot(l)'
<1> DEFINE what == IF run[l].outcome # "cancel" \/ run[l].done >= 1
                   THEN run[l].outcome ELSE "untouched"
<1>0. /\ run \in [Launches -> Run] /\ run[l] \in Run
      /\ delivered \in [Launches -> SUBSET {"ok", "error", "cancel", "untouched"}]
  BY InRange DEF Typed, TypeOK
<1>1. /\ run[l].pc = "finalizing" /\ UNCHANGED <<launch, queue>>
      /\ run'[l].pc = "recording"
      /\ delivered'[l] = delivered[l] \cup {what}
  BY <1>0 DEF SettleFinalize, Run
<1>2. /\ queue[l] = "running" /\ launch[l].pc \in {"enqueued", "returned"}
      /\ run[l].claimed = launch[l].via /\ Due(l)
  BY <1>1, NothingYet DEF Paying, Due
<1>3. "ok" \in delivered'[l] => run[l].outcome = "ok"
  BY <1>1, <1>2 DEF Paying
<1>4. run[l].outcome = "ok" => Cost(l) = run[l].est
  BY DEF Cost
<1>5. launch[l].via = "credits" /\ run[l].outcome = "ok" =>
         ledger'[l].reserves > 0 /\ ledger'[l].charged = ledger'[l].held
  BY <1>2, <1>4, FinalizeCharges
<1> HIDE DEF what
<1>6. Paying(l)'
  BY <1>1, <1>2, <1>3, <1>5 DEF Paying, Due, AtWork
<1>7. ~Due(l)'
  BY <1>1, <1>2 DEF Due, AtWork
<1>8. CASE HoldsSlot(l) /\ ~KeepsTrialSlot(l)
  <2>1. slots' = NonNeg(slots - 1)
    BY <1>2, <1>8 DEF HoldsSlot, SettleFinalize, ReleaseSlot
  <2>2. "ok" \notin delivered'[l]
    BY <1>3, <1>8 DEF KeepsTrialSlot
  <2> QED BY <1>6, <1>7, <1>8, <2>1, <2>2 DEF HoldsSlot
<1>9. CASE ~HoldsSlot(l) \/ KeepsTrialSlot(l)
  <2>1. slots' = slots
    BY <1>2, <1>9 DEF HoldsSlot, SettleFinalize
  <2>2. HoldsSlot(l)' => HoldsSlot(l)
    BY <1>1, <1>2 DEF HoldsSlot
  <2> QED BY <1>6, <2>1, <2>2
<1> QED BY <1>8, <1>9

-----------------------------------------------------------------------------
(* A counter stays at or above the size of a set that gains at most the    *)
(* member it is incremented for, and loses the one it is decremented for.  *)
LEMMA CountCovers ==
    ASSUME NEW S, NEW T, NEW l, NEW n \in Nat, NEW m, IsFiniteSet(S),
           n >= Cardinality(S),
           \/ m = n /\ T \subseteq S
           \/ m = n + 1 /\ T \subseteq S \cup {l}
           \/ m = NonNeg(n - 1) /\ l \in S /\ T \subseteq S \ {l}
    PROVE  IsFiniteSet(T) /\ m >= Cardinality(T)
<1>0. Cardinality(S) \in Nat
  BY FS_CardinalityType
<1>1. CASE m = n /\ T \subseteq S
  <2>1. IsFiniteSet(T) /\ Cardinality(T) <= Cardinality(S) /\ Cardinality(T) \in Nat
    BY <1>1, FS_Subset, FS_CardinalityType
  <2> QED BY <1>0, <1>1, <2>1
<1>2. CASE m = n + 1 /\ T \subseteq S \cup {l}
  <2>1. IsFiniteSet(S \cup {l}) /\ Cardinality(S \cup {l}) <= Cardinality(S) + 1
        /\ Cardinality(S \cup {l}) \in Nat
    <3> DEFINE more == S \cup {l}
    <3>1. /\ IsFiniteSet(more)
          /\ Cardinality(more) = IF l \in S THEN Cardinality(S) ELSE Cardinality(S) + 1
      BY FS_AddElement
    <3> HIDE DEF more
    <3> QED BY <1>0, <3>1 DEF more
  <2>2. IsFiniteSet(T) /\ Cardinality(T) <= Cardinality(S \cup {l}) /\ Cardinality(T) \in Nat
    BY <1>2, <2>1, FS_Subset, FS_CardinalityType
  <2> QED BY <1>0, <1>2, <2>1, <2>2
<1>3. CASE m = NonNeg(n - 1) /\ l \in S /\ T \subseteq S \ {l}
  <2>1. IsFiniteSet(S \ {l}) /\ Cardinality(S \ {l}) = Cardinality(S) - 1
        /\ Cardinality(S \ {l}) \in Nat
    BY <1>3, FS_RemoveElement, FS_CardinalityType
  <2>2. IsFiniteSet(T) /\ Cardinality(T) <= Cardinality(S \ {l}) /\ Cardinality(T) \in Nat
    BY <1>3, <2>1, FS_Subset, FS_CardinalityType
  <2> QED BY <1>0, <1>3, <2>1, <2>2, NonNegNat
<1> QED BY <1>1, <1>2, <1>3

SlotHolders == {l \in Launches : HoldsSlot(l)}

(* While nothing has crashed and nobody asked for a cancel, every launch   *)
(* is paid with what it was billed, and the trial counter counts at least  *)
(* the slots in use.                                                       *)
PaidInFull ==
    crashes = 0 /\ cancels = 0 =>
        /\ canceller.pc = "idle"
        /\ \A l \in Launches : Paying(l)
        /\ IsFiniteSet(SlotHolders) /\ slots >= Cardinality(SlotHolders)

(* One step of a launch.                                                   *)
LEMMA LaunchPays ==
    ASSUME Typed, Settling, PaidInFull, Patience = "settled", crashes = 0, cancels = 0,
           NEW l \in Launches,
           \/ Request(l) \/ Start(l) \/ Work(l) \/ Fail(l)
           \/ \E kind \in Kinds, est \in Estimates : Admit(l, kind, est)
    PROVE  PaidInFull'
<1>0. /\ slots \in Nat /\ canceller.pc = "idle" /\ \A k \in Launches : Paying(k)
      /\ IsFiniteSet(SlotHolders) /\ slots >= Cardinality(SlotHolders)
  BY DEF PaidInFull, Typed, TypeOK
<1>1. canceller' = canceller
  BY StepsOnlyAt
<1>2. /\ Paying(l)'
      /\ \/ slots' = slots /\ (HoldsSlot(l)' => HoldsSlot(l))
         \/ slots' = slots + 1
         \/ slots' = NonNeg(slots - 1) /\ HoldsSlot(l) /\ ~HoldsSlot(l)'
  <2>1. CASE \E kind \in Kinds, est \in Estimates : Admit(l, kind, est)
    BY <1>0, <2>1, RequestPays DEF Admit
  <2>2. CASE Request(l)
    <3>1. ~BillTrial(l) => slots' = slots
      BY <1>0, <2>2, RequestPays DEF Request, BillCredits, RefuseUnpaid, WriteBilling,
                                     Enqueue, SaveTaskId
    <3> QED BY <1>0, <2>2, <3>1, RequestPays DEF Request
  <2>3. CASE Start(l) \/ Work(l) \/ Fail(l)
    BY <1>0, <2>3, WorkPays, ClaimPays, SettlementPays
  <2> QED BY <2>1, <2>2, <2>3
<1>3. ASSUME NEW k \in Launches \ {l}
      PROVE  Paying(k)' /\ (HoldsSlot(k)' <=> HoldsSlot(k))
  <2>1. /\ launch'[k] = launch[k] /\ queue'[k] = queue[k] /\ run'[k] = run[k]
        /\ delivered'[k] = delivered[k]
    BY <1>3, StepsOnlyAt
  <2>2. ledger'[k] = ledger[k]
    <3>1. CASE BillCredits(l)
      BY <1>3, <3>1, GenerationAssumption DEF BillCredits, ReserveCredits, Typed, TypeOK
    <3>2. CASE SettleFinalize(l)
      BY <1>3, <3>2, FinalizeCharges
    <3>3. CASE ledger' = ledger
      BY <3>3
    <3> QED BY <1>0, <3>1, <3>2, <3>3, RequestPays
            DEF Request, BillTrial, RefuseUnpaid, WriteBilling, Enqueue, SaveTaskId, Start,
                Work, Prepare, FinishSlide, ObserveCancel, Publish, Announce, SettleClaim,
                SettleRecord, Close, Acknowledge, Fail, Admit, ledgerVars
  <2>3. ASSUME Working(k) PROVE lesson' = lesson
    <3>1. ~Working(l)
      BY <1>3, <2>3 DEF Settling, OneAtATime
    <3>2. ~(Request(l) \/ Start(l) \/ Work(l) \/ Fail(l))
      <4>1. run[l].pc = "none" /\ launch[l].pc \in {"idle", "returned", "refused"}
            /\ queue[l] # "queued"
        BY <3>1 DEF Working, Settling, Local, Staged
      <4> QED BY <4>1 DEF Request, BillTrial, BillCredits, RefuseUnpaid, WriteBilling, Enqueue,
                SaveTaskId, ClaimForRefund, RefundLaunch, Redraft, Start, Work, Prepare,
                FinishSlide, ObserveCancel, Publish, Announce, SettleClaim, SettleFinalize,
                SettleRecord, Close, Acknowledge, Fail
    <3> QED BY <3>2 DEF Admit
  <2> QED BY <1>0, <2>1, <2>2, <2>3, PayingKept
<1>4. \/ slots' = slots /\ SlotHolders' \subseteq SlotHolders
      \/ slots' = slots + 1 /\ SlotHolders' \subseteq SlotHolders \cup {l}
      \/ slots' = NonNeg(slots - 1) /\ l \in SlotHolders /\ SlotHolders' \subseteq SlotHolders \ {l}
  <2>1. SlotHolders' = {k \in Launches : HoldsSlot(k)'}
    BY DEF SlotHolders
  <2>2. SlotHolders = {k \in Launches : HoldsSlot(k)}
    BY DEF SlotHolders
  <2> QED BY <1>2, <1>3, <2>1, <2>2
<1>5. IsFiniteSet(SlotHolders)' /\ (slots >= Cardinality(SlotHolders))'
  BY <1>0, <1>4, CountCovers
<1> QED BY <1>0, <1>1, <1>2, <1>3, <1>5 DEF PaidInFull

(* One step of any actor.                                                  *)
LEMMA PaidInFullStep ==
    ASSUME Patience = "settled", Typed, Settling, PaidInFull, [Next]_vars
    PROVE  PaidInFull'
<1>0. crashes \in Nat /\ cancels \in Nat
  BY DEF Typed, TypeOK
<1> SUFFICES ASSUME crashes' = 0, cancels' = 0 PROVE PaidInFull'
  BY DEF PaidInFull
<1>1. ASSUME NEW l \in Launches,
             \/ Request(l) \/ Start(l) \/ Work(l) \/ Fail(l)
             \/ \E kind \in Kinds, est \in Estimates : Admit(l, kind, est)
      PROVE  PaidInFull'
  <2>1. crashes = 0 /\ cancels = 0
    <3>1. cancels' = cancels
      BY <1>1, StepsOnlyAt
    <3>2. crashes' = crashes
      BY <1>1 DEF Admit, Request, BillTrial, BillCredits, RefuseUnpaid, WriteBilling, Enqueue,
                SaveTaskId, ClaimForRefund, RefundLaunch, Redraft, Start, Work, Prepare,
                FinishSlide, ObserveCancel, Publish, Announce, SettleClaim, SettleFinalize,
                SettleRecord, Close, Acknowledge, Fail
    <3> QED BY <3>1, <3>2
  <2> QED BY <1>1, <2>1, LaunchPays
<1>2. ASSUME NEW l \in Launches, Fault(l) PROVE FALSE
  BY <1>0, <1>2 DEF Fault, EnqueueFails, EndpointCrash, WorkerCrash, TimeLimitKill, LoseMessage
<1>3. ASSUME CancelLoad PROVE FALSE
  BY <1>0, <1>3 DEF CancelLoad
<1>4. ASSUME CancelCrash PROVE FALSE
  BY <1>0, <1>4 DEF CancelCrash
<1>5. ASSUME Cancel PROVE FALSE
  <2>1. cancels = 0 /\ crashes = 0
    BY <1>0, <1>5 DEF Cancel, CancelMark, CancelCooperatively, CancelImmediately, CancelClaim,
                CancelRefund, CancelRevert
  <2> QED BY <1>5, <2>1 DEF PaidInFull, Cancel, CancelMark, CancelCooperatively,
                CancelImmediately, CancelClaim, CancelRefund, CancelRevert
<1>6. CASE SweepStuck \/ UNCHANGED vars
  <2>1. UNCHANGED <<launch, queue, run, delivered, ledger, slots, canceller, crashes, cancels>>
    BY <1>6 DEF SweepStuck, vars, ledgerVars
  <2>2. lesson'.via = lesson.via
    BY <1>6, CancelTame DEF vars, Tame
  <2>3. \A l \in Launches : Paying(l)
    BY <2>1 DEF PaidInFull
  <2>4. \A l \in Launches : Paying(l)' /\ (HoldsSlot(l)' <=> HoldsSlot(l))
    BY <2>1, <2>2, <2>3, PayingKept
  <2>5. SlotHolders' = SlotHolders
    BY <2>4 DEF SlotHolders
  <2> QED BY <2>1, <2>4, <2>5 DEF PaidInFull
<1> QED BY <1>1, <1>2, <1>3, <1>4, <1>5, <1>6 DEF Next

(* Unless someone asked for a cancel, every finished generation is paid    *)
(* for, as long as nothing crashed.                                        *)
THEOREM FinishedIsPaid ==
    ASSUME Patience = "settled"
    PROVE  Spec => [](crashes = 0 => DeliveredIsPaid)
<1>1. Init => PaidInFull
  <2> SUFFICES ASSUME Init PROVE PaidInFull
    OBVIOUS
  <2>1. ASSUME NEW l \in Launches
        PROVE  /\ launch[l] = IdleLaunch /\ queue[l] = "none" /\ run[l] = NoRun
               /\ delivered[l] = {}
    BY DEF Init
  <2>2. \A l \in Launches : Paying(l) /\ ~HoldsSlot(l)
    BY <2>1 DEF Paying, HoldsSlot, Due, AtWork, IdleLaunch, NoRun
  <2>3. SlotHolders = {} /\ slots = 0 /\ canceller.pc = "idle"
    BY <2>2 DEF SlotHolders, Init, IdleCanceller
  <2> QED BY <2>2, <2>3, FS_EmptySet DEF PaidInFull
<1>2. Typed /\ Settling /\ PaidInFull => (crashes = 0 => DeliveredIsPaid)
  <2> SUFFICES ASSUME Typed, Settling, PaidInFull, crashes = 0, Quiet, cancels = 0
               PROVE  /\ slots >= Cardinality(TrialVideos({"ok"}))
                      /\ \A l \in Launches :
                            launch[l].via = "credits" /\ "ok" \in delivered[l]
                                => ledger[l].charged = ledger[l].held
    BY DEF DeliveredIsPaid
  <2>1. TrialVideos({"ok"}) \subseteq SlotHolders
    BY DEF TrialVideos, SlotHolders, HoldsSlot
  <2>2. slots \in Nat /\ IsFiniteSet(SlotHolders) /\ slots >= Cardinality(SlotHolders)
    BY DEF PaidInFull, Typed, TypeOK
  <2>3. slots >= Cardinality(TrialVideos({"ok"}))
    BY <2>1, <2>2, CountCovers
  <2>4. ASSUME NEW l \in Launches, launch[l].via = "credits", "ok" \in delivered[l]
        PROVE  ledger[l].charged = ledger[l].held
    <3>1. Paying(l) /\ queue[l] # "running" /\ run[l].pc = "none"
      BY DEF PaidInFull, Quiet, Settling, Local, Staged
    <3> QED BY <2>4, <3>1 DEF Paying
  <2> QED BY <2>3, <2>4
<1>3. Typed /\ Settling /\ PaidInFull /\ [Next]_vars => PaidInFull'
  BY PaidInFullStep
<1> QED BY <1>1, <1>2, <1>3, SettlingInvariant, PTL DEF Spec


-----------------------------------------------------------------------------
(* The slot of the trial a video takes until the teacher got it.           *)
Billed(l) ==
    \/ launch[l].pc \in {"written", "unqueued"}
    \/ queue[l] \in {"queued", "running"}

GotIt(l) ==
    /\ launch[l].kind = "video" /\ launch[l].via = "trial"
    /\ delivered[l] \cap {"ok", "cancel"} # {}

(* The claim on the slot is with the launch's request, in the row or with  *)
(* its task ...                                                            *)
SlotAt(l) ==
    /\ launch[l].kind = "video" /\ launch[l].via = "trial"
    /\ \/ launch[l].pc \in {"billed", "releasing"}
       \/ Billed(l) /\ lesson.via = "trial"
       \/ run[l].pc = "finalizing" /\ run[l].claimed = "trial"

(* ... or with the cancel endpoint, which revoked the message or claimed   *)
(* the bill.                                                               *)
SlotWithCancel ==
    /\ canceller.kind = "video"
    /\ \/ canceller.pc = "refunding" /\ canceller.claimed = "trial"
       \/ /\ canceller.pc = "claiming" /\ lesson.via = "trial"
          /\ \A l \in Launches : ~Billed(l)

InFlight == SlotWithCancel \/ \E l \in Launches : SlotAt(l) /\ ~GotIt(l)

(* The status of the row and the cancel endpoint tell the kind of the      *)
(* launch at work; nothing is delivered before the message is out; a run   *)
(* that found no bill, or has claimed it, leaves none in the row.          *)
Steady(l) ==
    /\ launch[l].pc \notin {"enqueued", "returned"} => delivered[l] = {}
    /\ run[l].pc # "none"
          /\ (run[l].via = "none" \/ run[l].pc \in {"finalizing", "recording", "closing", "done"})
          => lesson.via = "none"
    /\ Billed(l) =>
          /\ lesson.status = "processing" => launch[l].kind = "video"
          /\ lesson.status = "analyzing" => launch[l].kind = "vision"
          /\ canceller.pc # "idle" => canceller.kind = launch[l].kind

(* What a step for launch l does to the slot: nothing, or the slot is      *)
(* taken, given back, or has paid for a video the teacher got.             *)
SlotStep(l) ==
    \/ slots' = slots /\ (SlotAt(l) => SlotAt(l)' \/ GotIt(l)')
    \/ /\ slots' = slots + 1 /\ canceller.pc = "idle"
       /\ ~SlotAt(l) /\ SlotAt(l)' /\ ~GotIt(l)'
    \/ slots' = NonNeg(slots - 1)

Goes(l) == Steady(l)' /\ (GotIt(l) => GotIt(l)') /\ SlotStep(l)

(* Where a launch is, its message and its run are.                         *)
LEMMA Stages ==
    ASSUME Settling, NEW l \in Launches
    PROVE  /\ launch[l].pc \notin {"enqueued", "returned"} => queue[l] = "none"
           /\ run[l].pc # "none" => queue[l] = "running"
           /\ launch[l].pc \in {"admitted", "billed"} => canceller.pc = "idle"
           /\ queue[l] # "none" => launch[l].pc \in {"enqueued", "returned"}
           /\ queue[l] # "running" => run[l].pc = "none"
  BY DEF Settling, Local, Staged, Alone

(* The request, up to the message.                                         *)
LEMMA RequestGoes ==
    ASSUME Typed, Settling, NEW l \in Launches, Steady(l)
    PROVE  /\ \A kind \in Kinds, est \in Estimates : Admit(l, kind, est) => Goes(l)
           /\ Request(l) => Goes(l)
<1>0. /\ launch \in [Launches -> Launch] /\ launch[l] \in Launch
      /\ queue \in [Launches -> QueueStates] /\ lesson \in LessonRow
      /\ launch[l].seen \in LessonRow
  BY InRange
<1>1. ASSUME NEW kind \in Kinds, NEW est \in Estimates, Admit(l, kind, est)
      PROVE  Goes(l)
  <2>1. /\ launch[l].pc = "idle" /\ launch'[l].pc = "admitted" /\ launch'[l].via = "none"
        /\ UNCHANGED <<queue, run, delivered, slots>>
    BY <1>0, <1>1 DEF Admit
  <2> QED BY <2>1, Stages DEF Goes, Steady, SlotStep, SlotAt, GotIt, Billed
<1>2. CASE BillTrial(l)
  <2>1. /\ launch[l].pc = "admitted" /\ launch'[l].pc = "billed" /\ launch'[l].via = "trial"
        /\ launch'[l].kind = launch[l].kind
        /\ slots' = IF launch[l].kind = "video" THEN slots + 1 ELSE slots
        /\ UNCHANGED <<queue, run, delivered>>
    BY <1>0, <1>2 DEF BillTrial, Launch
  <2> QED BY <2>1, Stages DEF Goes, Steady, SlotStep, SlotAt, GotIt, Billed
<1>3. CASE BillCredits(l) \/ RefuseUnpaid(l)
  <2>1. /\ launch[l].pc = "admitted" /\ launch'[l].pc \in {"billed", "refused"}
        /\ launch'[l].via # "trial"
        /\ UNCHANGED <<queue, run, delivered, slots>>
    BY <1>0, <1>3 DEF BillCredits, RefuseUnpaid, Launch, IdleLaunch
  <2> QED BY <2>1, Stages DEF Goes, Steady, SlotStep, SlotAt, GotIt, Billed
<1>4. CASE WriteBilling(l)
  <2>1. canceller.pc = "idle" /\ canceller' = canceller /\ queue[l] = "none" /\ run[l].pc = "none"
    BY <1>4, Stages DEF WriteBilling
  <2> QED BY <1>4, <2>1, BillWritten DEF Goes, Steady, SlotStep, SlotAt, GotIt, Billed, Active
<1>5. CASE Enqueue(l)
  <2>1. /\ launch[l].pc = "written" /\ launch'[l].pc = "enqueued"
        /\ launch'[l].via = launch[l].via /\ launch'[l].kind = launch[l].kind
        /\ queue'[l] = "queued"
        /\ UNCHANGED <<lesson, run, delivered, slots, canceller>>
    BY <1>0, <1>5 DEF Enqueue, Launch
  <2> QED BY <2>1, Stages DEF Goes, Steady, SlotStep, SlotAt, GotIt, Billed
<1>6. CASE SaveTaskId(l)
  <2>1. /\ launch[l].pc = "enqueued" /\ launch'[l].pc = "returned"
        /\ launch'[l].via = launch[l].via /\ launch'[l].kind = launch[l].kind
        /\ UNCHANGED <<queue, run, delivered, slots, canceller>>
    BY <1>0, <1>6 DEF SaveTaskId, Launch
  <2>2. Request(l) /\ ~WriteBilling(l) /\ ~ClaimForRefund(l)
    BY <1>6, <2>1 DEF Request, WriteBilling, ClaimForRefund
  <2>3. Tame(lesson, lesson')
    BY <2>2, RequestTame
  <2> QED BY <2>1, <2>3 DEF Goes, Steady, SlotStep, SlotAt, GotIt, Billed, Tame, Active
<1>7. CASE ClaimForRefund(l)
  <2>1. /\ launch[l].pc = "unqueued" /\ launch'[l].pc = "releasing"
        /\ launch'[l].via = lesson.via /\ launch'[l].kind = launch[l].kind
        /\ UNCHANGED <<queue, run, delivered, slots, canceller>>
    <3> DEFINE seen == [launch[l].seen EXCEPT !.via = "none"]
    <3>1. launch' = [launch EXCEPT ![l] = [launch[l] EXCEPT
                        !.pc = "releasing", !.via = lesson.via, !.seen = seen]]
      BY <1>0, <1>7 DEF ClaimForRefund
    <3> HIDE DEF seen
    <3> QED BY <1>0, <1>7, <3>1 DEF ClaimForRefund, Launch
  <2> QED BY <2>1, Stages DEF Goes, Steady, SlotStep, SlotAt, GotIt, Billed
<1>8. CASE RefundLaunch(l)
  <2> DEFINE next == IF launch[l].kind = "vision"
                     THEN [launch[l] EXCEPT !.pc = "redrafting"]
                     ELSE [IdleLaunch EXCEPT !.pc = "refused"]
  <2>1. /\ launch[l].pc = "releasing" /\ launch'[l] = next
        /\ UNCHANGED <<lesson, queue, run, delivered, canceller>>
    BY <1>0, <1>8 DEF RefundLaunch
  <2>2. next.pc \in {"redrafting", "refused"}
    BY <1>0 DEF Launch, IdleLaunch
  <2>3. slots' = IF launch[l].via = "trial" /\ launch[l].kind = "video"
                 THEN NonNeg(slots - 1) ELSE slots
    BY <1>8 DEF RefundLaunch, ReleaseSlot
  <2> HIDE DEF next
  <2> QED BY <2>1, <2>2, <2>3, Stages DEF Goes, Steady, SlotStep, SlotAt, GotIt, Billed
<1>9. CASE Redraft(l)
  <2>1. /\ launch[l].pc = "redrafting" /\ launch'[l].pc = "refused"
        /\ UNCHANGED <<queue, run, delivered, slots, canceller>>
    BY <1>0, <1>9 DEF Redraft, IdleLaunch
  <2> QED BY <2>1, Stages DEF Goes, Steady, SlotStep, SlotAt, GotIt, Billed
<1> QED BY <1>1, <1>2, <1>3, <1>4, <1>5, <1>6, <1>7, <1>8, <1>9 DEF Request

(* The task.                                                               *)
LEMMA WorkGoes ==
    ASSUME Typed, Settling, NEW l \in Launches, Steady(l),
           Start(l) \/ Work(l) \/ Fail(l)
    PROVE  Goes(l)
<1>0. /\ run \in [Launches -> Run] /\ run[l] \in Run /\ lesson \in LessonRow
      /\ queue \in [Launches -> QueueStates]
      /\ delivered \in [Launches -> SUBSET {"ok", "error", "cancel", "untouched"}]
  BY InRange DEF Typed, TypeOK
<1>1. CASE Start(l)
  <2>1. /\ queue[l] = "queued" /\ queue'[l] = "running"
        /\ run'[l].pc = "preparing" /\ run'[l].via = lesson.via
        /\ UNCHANGED <<launch, delivered, slots, canceller>>
    BY <1>0, <1>1 DEF Start, NoRun
  <2>2. /\ lesson'.via = lesson.via
        /\ lesson'.status = IF launch[l].kind = "video" THEN "processing" ELSE "analyzing"
    BY <1>0, <1>1 DEF Start, LessonRow
  <2>3. launch[l].kind \in {"video", "vision"}
    BY InRange DEF Launch
  <2> QED BY <2>1, <2>2, <2>3, Stages DEF Goes, Steady, SlotStep, SlotAt, GotIt, Billed
<1>2. ASSUME Work(l) \/ Fail(l), SettleClaim(l) => Unbilled(l)
      PROVE  Tame(lesson, lesson') /\ UNCHANGED <<launch, canceller>>
  BY <1>2, TaskTame DEF Work, Prepare, FinishSlide, ObserveCancel, Publish, Announce,
           SettleClaim, SettleFinalize, SettleRecord, Close, Acknowledge, Fail
<1>s. ASSUME run[l].pc # "none" PROVE queue[l] = "running" /\ Billed(l)
  BY <1>s, Stages DEF Billed
<1>3. CASE Prepare(l) \/ FinishSlide(l) \/ ObserveCancel(l) \/ Publish(l)
  <2>1. UNCHANGED <<queue, delivered, slots>>
    BY <1>3 DEF Prepare, FinishSlide, ObserveCancel, Publish
  <2>2. /\ run[l].pc \in {"preparing", "working"}
        /\ run'[l].pc \in {"working", "published", "settling"}
        /\ run'[l].via = run[l].via
    <3>1. CASE Prepare(l)
      BY <1>0, <3>1 DEF Prepare, Run
    <3>2. CASE FinishSlide(l)
      BY <1>0, <3>2 DEF FinishSlide, Run
    <3>3. CASE ObserveCancel(l)
      BY <1>0, <3>3 DEF ObserveCancel, Run
    <3>4. CASE Publish(l)
      BY <1>0, <3>4 DEF Publish, Run
    <3> QED BY <1>3, <3>1, <3>2, <3>3, <3>4
  <2>3. Tame(lesson, lesson') /\ UNCHANGED <<launch, canceller>>
    BY <1>2, <1>3, <2>2 DEF Work, SettleClaim
  <2> QED BY <1>s, <2>1, <2>2, <2>3 DEF Goes, Steady, SlotStep, SlotAt, GotIt, Billed, Tame, Active
<1>4. CASE Announce(l) \/ Fail(l)
  <2>1. /\ run[l].pc \in {"preparing", "working", "published"} /\ run'[l].pc = "settling"
        /\ run'[l].via = run[l].via
        /\ delivered[l] \subseteq delivered'[l]
        /\ UNCHANGED <<queue, slots>>
    <3>1. CASE Announce(l)
      BY <1>0, <3>1 DEF Announce, Run
    <3>2. CASE Fail(l)
      <4> DEFINE new == Ended(run[l].seen, launch[l].kind, "error")
      <4>1. run' = [run EXCEPT ![l] = [run[l] EXCEPT !.pc = "settling", !.outcome = "error",
                                                     !.seen = new]]
        BY <3>2 DEF Fail
      <4> HIDE DEF new
      <4>2. run'[l].pc = "settling" /\ run'[l].via = run[l].via
        BY <1>0, <4>1 DEF Run
      <4> QED BY <1>0, <3>2, <4>2 DEF Fail
    <3> QED BY <1>4, <3>1, <3>2
  <2>2. Tame(lesson, lesson') /\ UNCHANGED <<launch, canceller>>
    BY <1>2, <1>4, <2>1 DEF Work, SettleClaim
  <2>3. launch[l].pc \in {"enqueued", "returned"}
    BY <1>s, <2>1, Stages
  <2> QED BY <1>s, <2>1, <2>2, <2>3 DEF Goes, Steady, SlotStep, SlotAt, GotIt, Billed, Tame, Active
<1>5. CASE SettleClaim(l)
  <2>1. run[l].pc = "settling" /\ UNCHANGED <<launch, queue, delivered, slots, canceller>>
    BY <1>5 DEF SettleClaim
  <2>2. CASE Unbilled(l)
    <3>1. run'[l].pc = "closing" /\ lesson' = lesson /\ lesson.via = "none"
      <4>1. run' = [run EXCEPT ![l].pc = "closing"] /\ lesson' = lesson
        BY <1>5, <2>2 DEF SettleClaim
      <4>2. lesson.via = "none"
        BY <2>1, <2>2 DEF Steady, Unbilled
      <4> QED BY <1>0, <4>1, <4>2
    <3> QED BY <1>s, <2>1, <3>1 DEF Goes, Steady, SlotStep, SlotAt, GotIt, Billed
  <2>3. CASE ~Unbilled(l)
    <3>1. run' = [run EXCEPT ![l].pc = "finalizing", ![l].claimed = lesson.via,
                             ![l].seen.via = "none"]
      BY <1>5, <2>3 DEF SettleClaim
    <3>2. run'[l].pc = "finalizing" /\ run'[l].claimed = lesson.via
      BY <1>0, <3>1 DEF Run
    <3>3. lesson'.via = "none" /\ lesson'.status = lesson.status
      BY <1>0, <1>5, <2>3 DEF SettleClaim, Claimed, LessonRow
    <3> QED BY <1>s, <2>1, <3>2, <3>3 DEF Goes, Steady, SlotStep, SlotAt, GotIt, Billed
  <2> QED BY <2>2, <2>3
<1>6. CASE SettleFinalize(l)
  <2> DEFINE what == IF run[l].outcome # "cancel" \/ run[l].done >= 1
                     THEN run[l].outcome ELSE "untouched"
  <2>1. /\ run[l].pc = "finalizing" /\ run'[l].pc = "recording"
        /\ UNCHANGED <<lesson, launch, queue, canceller>>
        /\ delivered'[l] = delivered[l] \cup {what}
    BY <1>0, <1>6 DEF SettleFinalize, Run
  <2>2. lesson.via = "none"
    BY <2>1 DEF Steady
  <2>3. launch[l].pc \in {"enqueued", "returned"}
    BY <1>s, <2>1, Stages
  <2>4. KeepsTrialSlot(l) => what \in {"ok", "cancel"}
    BY DEF KeepsTrialSlot
  <2>5. \/ slots' = NonNeg(slots - 1)
        \/ slots' = slots /\ ~(run[l].claimed = "trial" /\ launch[l].kind = "video"
                               /\ ~KeepsTrialSlot(l))
    BY <1>6 DEF SettleFinalize, ReleaseSlot
  <2> HIDE DEF what
  <2> QED BY <1>s, <2>1, <2>2, <2>3, <2>4, <2>5
          DEF Goes, Steady, SlotStep, SlotAt, GotIt, Billed
<1>7. CASE SettleRecord(l) \/ Close(l)
  <2>1. UNCHANGED <<queue, delivered, slots>>
    BY <1>7 DEF SettleRecord, Close
  <2>2. /\ run[l].pc \in {"recording", "closing"} /\ run'[l].pc \in {"closing", "done"}
    <3>1. CASE SettleRecord(l)
      BY <1>0, <3>1 DEF SettleRecord, Run
    <3>2. CASE Close(l)
      BY <1>0, <3>2 DEF Close, NoRun
    <3> QED BY <1>7, <3>1, <3>2
  <2>3. Tame(lesson, lesson') /\ UNCHANGED <<launch, canceller>>
    BY <1>2, <1>7, <2>2 DEF Work, SettleClaim
  <2>4. lesson.via = "none"
    BY <2>2 DEF Steady
  <2> QED BY <1>s, <2>1, <2>2, <2>3, <2>4
          DEF Goes, Steady, SlotStep, SlotAt, GotIt, Billed, Tame, Active
<1>8. CASE Acknowledge(l)
  <2>1. /\ run[l].pc = "done" /\ run'[l].pc = "none" /\ queue'[l] = "acked"
        /\ UNCHANGED <<lesson, launch, canceller, delivered, slots>>
    BY <1>0, <1>8 DEF Acknowledge, NoRun
  <2>2. launch[l].pc \in {"enqueued", "returned"} /\ lesson.via = "none"
    BY <1>s, <2>1, Stages DEF Steady
  <2> QED BY <2>1, <2>2 DEF Goes, Steady, SlotStep, SlotAt, GotIt, Billed
<1> QED BY <1>1, <1>3, <1>4, <1>5, <1>6, <1>7, <1>8 DEF Work

(* A crash loses at most the claim on the slot.                            *)
LEMMA FaultGoes ==
    ASSUME Typed, Settling, NEW l \in Launches, Steady(l), Fault(l)
    PROVE  /\ Steady(l)' /\ (GotIt(l) => GotIt(l)')
           /\ slots' = slots /\ crashes' = crashes + 1
<1>0. /\ launch \in [Launches -> Launch] /\ launch[l] \in Launch
      /\ queue \in [Launches -> QueueStates] /\ run \in [Launches -> Run]
  BY InRange
<1>1. slots' = slots /\ crashes' = crashes + 1
      /\ UNCHANGED <<lesson, delivered, canceller>>
  BY DEF Fault, EnqueueFails, EndpointCrash, WorkerCrash, TimeLimitKill, LoseMessage
<1>2. CASE EnqueueFails(l)
  <2>1. /\ launch[l].pc = "written" /\ launch'[l].pc = "unqueued"
        /\ launch'[l].via = launch[l].via /\ launch'[l].kind = launch[l].kind
        /\ UNCHANGED <<queue, run>>
    BY <1>0, <1>2 DEF EnqueueFails, Launch
  <2> QED BY <1>1, <2>1, Stages DEF Steady, GotIt, Billed
<1>3. CASE EndpointCrash(l)
  <2> DEFINE next == IF launch[l].pc = "enqueued"
                     THEN [launch[l] EXCEPT !.pc = "returned", !.seen = NewLesson]
                     ELSE [IdleLaunch EXCEPT !.pc = "refused"]
  <2>1. launch'[l] = next /\ UNCHANGED <<queue, run>>
        /\ launch[l].pc \notin {"idle", "returned", "refused"}
    BY <1>0, <1>3 DEF EndpointCrash
  <2>2. IF launch[l].pc = "enqueued"
        THEN next.pc = "returned" /\ next.via = launch[l].via /\ next.kind = launch[l].kind
        ELSE next.pc = "refused"
    BY <1>0 DEF Launch, IdleLaunch
  <2> HIDE DEF next
  <2> QED BY <1>1, <2>1, <2>2, Stages DEF Steady, GotIt, Billed
<1>4. CASE WorkerCrash(l) \/ TimeLimitKill(l) \/ LoseMessage(l)
  <2>1. launch' = launch /\ (run'[l].pc = "none" \/ run' = run)
    BY <1>0, <1>4 DEF WorkerCrash, TimeLimitKill, LoseMessage, NoRun
  <2>2. queue[l] \in {"running", "queued"}
    BY <1>4, Stages DEF WorkerCrash, TimeLimitKill, LoseMessage
  <2>3. launch[l].pc \in {"enqueued", "returned"} /\ Billed(l)
    BY <2>2, Stages DEF Billed
  <2> QED BY <1>1, <2>1, <2>3 DEF Steady, GotIt, Billed
<1> QED BY <1>1, <1>2, <1>3, <1>4 DEF Fault

-----------------------------------------------------------------------------
(* The bound on a counter that only a token in flight lets run ahead of a  *)
(* set, or a crash for good.                                               *)
LEMMA CountBound ==
    ASSUME NEW S, NEW T, NEW l, NEW n \in Nat, NEW m, NEW c \in Nat, NEW d \in Nat,
           NEW b \in BOOLEAN, NEW a \in BOOLEAN,
           IsFiniteSet(S), S \subseteq T, T \subseteq S \cup {l}, c <= d,
           n <= Cardinality(S) + (IF b THEN 1 ELSE 0) + c,
           \/ m = n /\ (b => a \/ l \in T \ S \/ d > c)
           \/ m = n + 1 /\ ~b /\ a
           \/ m = NonNeg(n - 1)
    PROVE  IsFiniteSet(T) /\ m <= Cardinality(T) + (IF a THEN 1 ELSE 0) + d
<1>1. IsFiniteSet(T) /\ Cardinality(S) \in Nat /\ Cardinality(T) \in Nat
      /\ Cardinality(T) = IF l \in T \ S THEN Cardinality(S) + 1 ELSE Cardinality(S)
  <2> DEFINE more == S \cup {l}
  <2>1. /\ IsFiniteSet(more)
        /\ Cardinality(more) = IF l \in S THEN Cardinality(S) ELSE Cardinality(S) + 1
    BY FS_AddElement
  <2>2. T = IF l \in T \ S THEN more ELSE S
    OBVIOUS
  <2> HIDE DEF more
  <2>3. Cardinality(S) \in Nat
    BY FS_CardinalityType
  <2> QED BY <2>1, <2>2, <2>3
<1> QED BY <1>1, NonNegNat DEF NonNeg

Got == {l \in Launches : GotIt(l)}

(* The trial counter is ahead of the videos the teacher got by at most the *)
(* slot in flight and one slot per crash.                                  *)
SlotsCounted ==
    /\ \A l \in Launches : Steady(l)
    /\ IsFiniteSet(Got)
    /\ slots <= Cardinality(Got) + (IF InFlight THEN 1 ELSE 0) + crashes

(* While launch l is at work no other one has a slot in flight.            *)
LEMMA SlotIsHere ==
    ASSUME Settling, NEW l \in Launches, \A k \in Launches : Working(k) => k = l
    PROVE  InFlight <=> SlotWithCancel \/ (SlotAt(l) /\ ~GotIt(l))
<1>1. \A k \in Launches : SlotAt(k) => Working(k)
  BY DEF SlotAt, Billed, Working, Settling, Local, Staged
<1> QED BY <1>1 DEF InFlight

(* A step of a launch does not disturb the slot a cancel is giving back.   *)
LEMMA CancelKeepsSlot ==
    ASSUME Typed, Settling, Patience = "settled", NEW l \in Launches, SlotWithCancel,
           \/ Request(l) \/ Start(l) \/ Work(l) \/ Fail(l)
           \/ \E kind \in Kinds, est \in Estimates : Admit(l, kind, est)
    PROVE  SlotWithCancel'
<1>1. canceller' = canceller
  BY StepsOnlyAt
<1>2. SUFFICES ASSUME canceller.pc = "claiming", lesson.via = "trial",
                      \A k \in Launches : ~Billed(k)
               PROVE  lesson'.via = "trial" /\ \A k \in Launches : ~Billed(k)'
  BY <1>1 DEF SlotWithCancel
<1>3. ~(\E kind \in Kinds, est \in Estimates : Admit(l, kind, est))
  BY <1>2 DEF Admit, ClientReady, Quiet
<1>4. ~(Start(l) \/ Work(l) \/ Fail(l))
  <2>1. run[l].pc = "none" /\ queue[l] # "queued"
    BY <1>2, Stages DEF Billed
  <2> QED BY <2>1 DEF Start, Work, Prepare, FinishSlide, ObserveCancel, Publish, Announce,
                SettleClaim, SettleFinalize, SettleRecord, Close, Acknowledge, Fail
<1>5. Request(l) /\ ~WriteBilling(l) /\ ~ClaimForRefund(l) /\ ~Enqueue(l) /\ ~BillTrial(l)
      /\ ~BillCredits(l) /\ ~RefuseUnpaid(l)
  BY <1>2, <1>3, <1>4, Stages DEF Billed, WriteBilling, ClaimForRefund, Enqueue, BillTrial,
          BillCredits, RefuseUnpaid
<1>6. lesson'.via = lesson.via
  BY <1>5, RequestTame DEF Tame
<1>7. queue' = queue /\ launch'[l].pc \notin {"written", "unqueued"}
  <2>1. launch \in [Launches -> Launch] /\ launch[l] \in Launch
    BY InRange
  <2>2. CASE SaveTaskId(l)
    BY <2>1, <2>2 DEF SaveTaskId, Launch
  <2>3. CASE RefundLaunch(l)
    <3> DEFINE next == IF launch[l].kind = "vision"
                       THEN [launch[l] EXCEPT !.pc = "redrafting"]
                       ELSE [IdleLaunch EXCEPT !.pc = "refused"]
    <3>1. launch'[l] = next /\ queue' = queue
      BY <2>1, <2>3 DEF RefundLaunch
    <3>2. next.pc \in {"redrafting", "refused"}
      BY <2>1 DEF Launch, IdleLaunch
    <3> HIDE DEF next
    <3> QED BY <3>1, <3>2
  <2>4. CASE Redraft(l)
    BY <2>1, <2>4 DEF Redraft, IdleLaunch
  <2> QED BY <1>5, <2>2, <2>3, <2>4 DEF Request
<1>8. \A k \in Launches \ {l} : launch'[k] = launch[k]
  BY StepsOnlyAt
<1> QED BY <1>2, <1>6, <1>7, <1>8 DEF Billed

(* One step of a launch, or a crash in it.                                 *)
LEMMA LaunchCounts ==
    ASSUME Typed, Settling, SlotsCounted, Patience = "settled", NEW l \in Launches,
           \/ Request(l) \/ Start(l) \/ Work(l) \/ Fail(l) \/ Fault(l)
           \/ \E kind \in Kinds, est \in Estimates : Admit(l, kind, est)
    PROVE  SlotsCounted'
<1>0. slots \in Nat /\ crashes \in Nat /\ \A k \in Launches : Steady(k)
  BY DEF SlotsCounted, Typed, TypeOK
<1>1. /\ canceller' = canceller
      /\ \A k \in Launches \ {l} :
            /\ launch'[k] = launch[k] /\ queue'[k] = queue[k] /\ run'[k] = run[k]
            /\ delivered'[k] = delivered[k]
  BY StepsOnlyAt
<1>2. Working(l) \/ \E kind \in Kinds, est \in Estimates : Admit(l, kind, est)
  <2>1. run[l].pc # "none" => queue[l] = "running"
    BY Stages
  <2> QED BY <2>1 DEF Working, Request, BillTrial, BillCredits, RefuseUnpaid, WriteBilling,
                Enqueue, SaveTaskId, ClaimForRefund, RefundLaunch, Redraft, Start, Work, Prepare,
                FinishSlide, ObserveCancel, Publish, Announce, SettleClaim, SettleFinalize,
                SettleRecord, Close, Acknowledge, Fail, Fault, EnqueueFails, EndpointCrash,
                WorkerCrash, TimeLimitKill, LoseMessage
<1>3. \A k \in Launches : Working(k) => k = l
  BY <1>2, Sole DEF Admit, ClientReady, Quiet, Working
<1>4. ASSUME NEW k \in Launches \ {l}
      PROVE  Steady(k)' /\ (GotIt(k)' <=> GotIt(k))
  <2>1. run[k].pc = "none" /\ ~Billed(k)
    BY <1>3, Stages DEF Working, Billed
  <2> QED BY <1>0, <1>1, <2>1 DEF Steady, GotIt, Billed
<1>5. ASSUME Steady(l)', GotIt(l) => GotIt(l)',
             \/ slots' = slots /\ (InFlight => InFlight' \/ (GotIt(l)' /\ ~GotIt(l)) \/ crashes' > crashes)
             \/ slots' = slots + 1 /\ ~InFlight /\ InFlight'
             \/ slots' = NonNeg(slots - 1),
             crashes' \in Nat, crashes <= crashes'
      PROVE  SlotsCounted'
  <2>1. \A k \in Launches : Steady(k)'
    BY <1>4, <1>5
  <2>2. Got \subseteq Got' /\ Got' \subseteq Got \cup {l}
        /\ (l \in Got <=> GotIt(l)) /\ (l \in Got' <=> GotIt(l)')
    BY <1>4, <1>5 DEF Got
  <2>3. InFlight \in BOOLEAN /\ InFlight' \in BOOLEAN
    BY DEF InFlight, SlotWithCancel
  <2>4. IsFiniteSet(Got) /\ slots <= Cardinality(Got) + (IF InFlight THEN 1 ELSE 0) + crashes
    BY DEF SlotsCounted
  <2>5. IsFiniteSet(Got') /\ slots' <= Cardinality(Got') + (IF InFlight' THEN 1 ELSE 0) + crashes'
    <3> HIDE DEF Got, InFlight
    <3>1. \/ slots' = slots /\ (InFlight => InFlight' \/ l \in Got' \ Got \/ crashes' > crashes)
          \/ slots' = slots + 1 /\ ~InFlight /\ InFlight'
          \/ slots' = NonNeg(slots - 1)
      BY <1>5, <2>2
    <3> QED BY <1>0, <1>5, <2>2, <2>3, <2>4, <3>1, CountBound
  <2> QED BY <2>1, <2>5 DEF SlotsCounted
<1>6. CASE Fault(l)
  BY <1>0, <1>5, <1>6, FaultGoes
<1>7. CASE ~Fault(l)
  <2>1. Goes(l)
    BY <1>0, <1>7, RequestGoes, WorkGoes
  <2>2. crashes' = crashes
    BY <1>7 DEF Admit, Request, BillTrial, BillCredits, RefuseUnpaid, WriteBilling, Enqueue,
                SaveTaskId, ClaimForRefund, RefundLaunch, Redraft, Start, Work, Prepare,
                FinishSlide, ObserveCancel, Publish, Announce, SettleClaim, SettleFinalize,
                SettleRecord, Close, Acknowledge, Fail
  <2>3. SlotWithCancel => SlotWithCancel'
    BY <1>7, CancelKeepsSlot
  <2>4. InFlight <=> SlotWithCancel \/ (SlotAt(l) /\ ~GotIt(l))
    BY <1>3, SlotIsHere
  <2>5. SlotWithCancel' \/ (SlotAt(l)' /\ ~GotIt(l)') => InFlight'
    BY DEF InFlight
  <2>6. \/ slots' = slots /\ (InFlight => InFlight' \/ (GotIt(l)' /\ ~GotIt(l)))
        \/ slots' = slots + 1 /\ ~InFlight /\ InFlight'
        \/ slots' = NonNeg(slots - 1)
    <3>1. canceller.pc = "idle" => ~SlotWithCancel
      BY DEF SlotWithCancel
    <3>2. \/ slots' = slots /\ (SlotAt(l) => SlotAt(l)' \/ GotIt(l)')
          \/ slots' = slots + 1 /\ canceller.pc = "idle" /\ ~SlotAt(l) /\ SlotAt(l)' /\ ~GotIt(l)'
          \/ slots' = NonNeg(slots - 1)
      BY <2>1 DEF Goes, SlotStep
    <3> QED BY <2>3, <2>4, <2>5, <3>1, <3>2
  <2> QED BY <1>0, <1>5, <2>1, <2>2, <2>6 DEF Goes
<1> QED BY <1>6, <1>7

(* One step of the cancel endpoint or the sweep.                           *)
LEMMA CancelCounts ==
    ASSUME Typed, Settling, SlotsCounted, CancelLoad \/ Cancel \/ CancelCrash \/ SweepStuck
    PROVE  SlotsCounted'
<1>0. /\ slots \in Nat /\ crashes \in Nat /\ \A k \in Launches : Steady(k)
      /\ canceller \in Canceller /\ lesson \in LessonRow
      /\ queue \in [Launches -> QueueStates]
  BY DEF SlotsCounted, Typed, TypeOK
<1>1. UNCHANGED <<launch, run, delivered>>
  BY DEF CancelLoad, Cancel, CancelMark, CancelCooperatively, CancelImmediately, CancelClaim,
         CancelRefund, CancelRevert, CancelCrash, SweepStuck
<1>i. IdleCanceller.pc = "idle"
  BY DEF IdleCanceller
(* The actions that keep the message and the claim.                        *)
<1>2. ASSUME lesson'.via = lesson.via,
             lesson'.status = lesson.status \/ lesson'.status \notin Active,
             queue' = queue,
             canceller'.pc \notin {"idle", "claiming", "refunding"}
                => \/ canceller'.kind = canceller.kind /\ canceller.pc # "idle"
                   \/ /\ lesson' = lesson /\ lesson.status \in Active
                      /\ canceller'.kind = IF lesson.status = "processing" THEN "video" ELSE "vision",
             canceller'.pc \in {"claiming", "refunding"} => canceller' = canceller
      PROVE  /\ \A l \in Launches : Steady(l)'
             /\ ~SlotWithCancel \/ canceller' = canceller => (InFlight => InFlight')
  <2>1. \A l \in Launches : (Billed(l)' <=> Billed(l)) /\ (SlotAt(l)' <=> SlotAt(l))
                            /\ (GotIt(l)' <=> GotIt(l))
    BY <1>1, <1>2 DEF Billed, SlotAt, GotIt
  <2>2. ASSUME NEW l \in Launches PROVE Steady(l)'
    <3>1. Steady(l) /\ launch[l].kind \in {"video", "vision"}
      BY <1>0, InRange DEF Launch
    <3>2. Billed(l) /\ canceller'.pc # "idle" => canceller'.kind = launch[l].kind
      BY <1>2, <3>1 DEF Steady, Active
    <3> QED BY <1>1, <1>2, <2>1, <3>1, <3>2 DEF Steady, Active
  <2>3. ASSUME canceller' = canceller PROVE SlotWithCancel => SlotWithCancel'
    BY <1>2, <2>1, <2>3 DEF SlotWithCancel
  <2> QED BY <2>1, <2>2, <2>3 DEF InFlight
<1>3. ASSUME \A l \in Launches : Steady(l)', crashes' \in Nat, crashes <= crashes',
             \/ slots' = slots /\ (InFlight => InFlight' \/ crashes' > crashes)
             \/ slots' = NonNeg(slots - 1)
      PROVE  SlotsCounted'
  <2>1. Got' = Got
    BY <1>1 DEF Got, GotIt
  <2>2. InFlight \in BOOLEAN /\ InFlight' \in BOOLEAN
    BY DEF InFlight, SlotWithCancel
  <2>3. IsFiniteSet(Got) /\ slots <= Cardinality(Got) + (IF InFlight THEN 1 ELSE 0) + crashes
    BY DEF SlotsCounted
  <2>4. IsFiniteSet(Got') /\ slots' <= Cardinality(Got') + (IF InFlight' THEN 1 ELSE 0) + crashes'
    <3> HIDE DEF Got, InFlight
    <3> QED BY <1>0, <1>3, <2>1, <2>2, <2>3, CountBound
  <2> QED BY <1>3, <2>4 DEF SlotsCounted
<1>4. CASE CancelLoad
  <2>1. /\ canceller.pc = "idle" /\ lesson' = lesson /\ queue' = queue /\ slots' = slots
        /\ crashes' = crashes /\ lesson.status \in Active
    BY <1>4 DEF CancelLoad
  <2>2. /\ canceller'.pc = "loaded"
        /\ canceller'.kind = IF lesson.status = "processing" THEN "video" ELSE "vision"
    BY <1>4 DEF CancelLoad, IdleCanceller
  <2>3. ~SlotWithCancel
    BY <2>1 DEF SlotWithCancel
  <2> QED BY <1>0, <1>2, <1>3, <2>1, <2>2, <2>3
<1>5. CASE CancelMark
  <2>1. /\ canceller.pc = "loaded" /\ canceller'.pc = "asked" /\ canceller'.kind = canceller.kind
        /\ queue' = queue /\ slots' = slots /\ crashes' = crashes
    <3> DEFINE new == [canceller.seen EXCEPT !.cancel = TRUE]
    <3>1. canceller' = [canceller EXCEPT !.pc = "asked", !.seen = new]
      BY <1>5 DEF CancelMark
    <3> HIDE DEF new
    <3> QED BY <1>0, <1>5, <3>1 DEF CancelMark, Canceller
  <2>2. Tame(lesson, lesson')
    BY <1>5, CancelTame DEF Cancel, CancelClaim, CancelMark
  <2>3. ~SlotWithCancel
    BY <2>1 DEF SlotWithCancel
  <2> QED BY <1>0, <1>2, <1>3, <2>1, <2>2, <2>3 DEF Tame
<1>6. CASE CancelCooperatively \/ CancelRevert
  <2>1. /\ canceller.pc \in {"asked", "reverting"} /\ canceller' = IdleCanceller
        /\ queue' = queue /\ slots' = slots /\ crashes' = crashes
    BY <1>6 DEF CancelCooperatively, CancelRevert
  <2>2. Tame(lesson, lesson')
    BY <1>6, <2>1, CancelTame DEF Cancel, CancelClaim
  <2>3. ~SlotWithCancel
    BY <2>1 DEF SlotWithCancel
  <2> QED BY <1>0, <1>i, <1>2, <1>3, <2>1, <2>2, <2>3 DEF Tame
<1>7. CASE CancelImmediately
  <2>1. /\ canceller.pc = "asked" /\ canceller'.pc = "claiming"
        /\ canceller'.kind = canceller.kind
        /\ lesson' = lesson /\ slots' = slots
        /\ crashes' = crashes + 1 \/ crashes' = crashes
    BY <1>0, <1>7 DEF CancelImmediately, Canceller
  <2>2. \A l \in Launches : queue'[l] = queue[l] \/ (queue[l] = "queued" /\ queue'[l] = "revoked")
    BY <1>0, <1>7 DEF CancelImmediately
  <2>3. \A l \in Launches : Billed(l)' => Billed(l)
    BY <1>1, <2>2 DEF Billed
  <2>4. \A l \in Launches : Steady(l)'
    BY <1>0, <1>1, <2>1, <2>3 DEF Steady
  <2>5. InFlight => InFlight'
    <3> SUFFICES ASSUME InFlight PROVE InFlight'
      OBVIOUS
    <3>1. ~SlotWithCancel
      BY <2>1 DEF SlotWithCancel
    <3>2. PICK l \in Launches : SlotAt(l) /\ ~GotIt(l)
      BY <3>1 DEF InFlight
    <3>3. ~GotIt(l)'
      BY <1>1, <3>2 DEF GotIt
    <3>4. CASE Billed(l)' \/ ~Billed(l)
      <4>1. SlotAt(l)'
        BY <1>1, <2>1, <2>3, <3>2, <3>4 DEF SlotAt
      <4> QED BY <3>3, <4>1 DEF InFlight
    <3>5. CASE Billed(l) /\ ~Billed(l)'
      <4>1. queue[l] = "queued" /\ launch[l].pc \in {"enqueued", "returned"} /\ run[l].pc = "none"
        BY <1>1, <2>2, <3>5, Stages DEF Billed
      <4>2. lesson.via = "trial" /\ launch[l].kind = "video"
        BY <3>2, <4>1 DEF SlotAt
      <4>3. canceller.kind = "video"
        BY <1>0, <2>1, <3>5, <4>2 DEF Steady
      <4>4. Working(l)
        BY <4>1 DEF Working
      <4>5. \A k \in Launches : Billed(k) => k = l
        BY <4>4, Sole DEF Billed, Working
      <4>6. SlotWithCancel'
        BY <2>1, <2>3, <3>5, <4>2, <4>3, <4>5 DEF SlotWithCancel
      <4> QED BY <4>6 DEF InFlight
    <3> QED BY <3>4, <3>5
  <2> QED BY <1>0, <1>3, <2>1, <2>4, <2>5
<1>8. CASE CancelClaim
  <2>1. /\ canceller.pc = "claiming" /\ canceller'.pc = "refunding"
        /\ canceller'.kind = canceller.kind /\ canceller'.claimed = lesson.via
        /\ queue' = queue /\ slots' = slots /\ crashes' = crashes
    <3> DEFINE seen == [canceller.seen EXCEPT !.via = "none"]
    <3>1. canceller' = [canceller EXCEPT !.pc = "refunding", !.claimed = lesson.via,
                                         !.seen = seen]
      BY <1>0, <1>8 DEF CancelClaim, Canceller
    <3> HIDE DEF seen
    <3> QED BY <1>0, <1>8, <3>1 DEF CancelClaim, Canceller
  <2>2. lesson'.via = "none" /\ lesson'.status = lesson.status
    BY <1>0, <1>8 DEF CancelClaim, Claimed, LessonRow
  <2>3. \A l \in Launches : Steady(l)'
    BY <1>0, <1>1, <2>1, <2>2 DEF Steady, Billed
  <2>4. ASSUME InFlight PROVE InFlight'
    <3>1. CASE SlotWithCancel
      <4>1. SlotWithCancel'
        BY <2>1, <3>1 DEF SlotWithCancel
      <4> QED BY <4>1 DEF InFlight
    <3>2. CASE ~SlotWithCancel
      <4>1. PICK l \in Launches : SlotAt(l) /\ ~GotIt(l)
        BY <2>4, <3>2 DEF InFlight
      <4>2. CASE Billed(l) /\ lesson.via = "trial"
        <5>1. canceller.kind = "video"
          BY <1>0, <2>1, <4>1, <4>2 DEF Steady, SlotAt
        <5>2. SlotWithCancel'
          BY <2>1, <4>2, <5>1 DEF SlotWithCancel
        <5> QED BY <5>2 DEF InFlight
      <4>3. CASE ~(Billed(l) /\ lesson.via = "trial")
        <5>1. SlotAt(l)' /\ ~GotIt(l)'
          BY <1>1, <2>1, <4>1, <4>3 DEF SlotAt, GotIt, Billed
        <5> QED BY <5>1 DEF InFlight
      <4> QED BY <4>2, <4>3
    <3> QED BY <3>1, <3>2
  <2> QED BY <1>0, <1>3, <2>1, <2>3, <2>4
<1>9. CASE CancelRefund
  <2>1. /\ canceller.pc = "refunding" /\ canceller'.pc = "reverting"
        /\ canceller'.kind = canceller.kind
        /\ lesson' = lesson /\ queue' = queue /\ crashes' = crashes
    BY <1>0, <1>9 DEF CancelRefund, Canceller
  <2>2. /\ \A l \in Launches : Steady(l)'
        /\ ~SlotWithCancel => (InFlight => InFlight')
    BY <1>2, <2>1
  <2>3. \/ slots' = NonNeg(slots - 1)
        \/ slots' = slots /\ ~SlotWithCancel
    BY <1>9, <2>1 DEF CancelRefund, ReleaseSlot, SlotWithCancel
  <2> QED BY <1>0, <1>3, <2>1, <2>2, <2>3
<1>10. CASE CancelCrash
  <2>1. /\ canceller' = IdleCanceller /\ crashes' = crashes + 1
        /\ UNCHANGED <<lesson, queue, slots>>
    BY <1>10 DEF CancelCrash
  <2>2. \A l \in Launches : Steady(l)'
    BY <1>i, <1>2, <2>1
  <2> QED BY <1>0, <1>3, <2>1, <2>2
<1>11. CASE SweepStuck
  <2>1. UNCHANGED <<queue, slots, crashes, canceller>>
    BY <1>11 DEF SweepStuck
  <2>2. Tame(lesson, lesson')
    BY <1>11, CancelTame
  <2>3. /\ \A l \in Launches : Steady(l)'
        /\ InFlight => InFlight'
    BY <1>2, <2>1, <2>2 DEF Tame
  <2> QED BY <1>0, <1>3, <2>1, <2>3
<1> QED BY <1>4, <1>5, <1>6, <1>7, <1>8, <1>9, <1>10, <1>11 DEF Cancel

(* The count of trial slots is kept by every step, a crash or a claim given *)
(* back included.                                                          *)
LEMMA SlotsCountedInvariant ==
    ASSUME Patience = "settled"
    PROVE  Spec => []SlotsCounted
<1>1. Init => SlotsCounted
  <2> SUFFICES ASSUME Init PROVE SlotsCounted
    OBVIOUS
  <2>1. \A l \in Launches : /\ launch[l] = IdleLaunch /\ queue[l] = "none" /\ run[l] = NoRun
                            /\ delivered[l] = {}
    BY DEF Init
  <2>2. \A l \in Launches : Steady(l) /\ ~GotIt(l)
    BY <2>1 DEF Steady, GotIt, Billed, IdleLaunch, NoRun
  <2>3. Got = {} /\ slots = 0 /\ crashes = 0
    BY <2>2 DEF Got, Init
  <2>4. IsFiniteSet(Got) /\ Cardinality(Got) = 0
    BY <2>3, FS_EmptySet
  <2> QED BY <2>2, <2>3, <2>4 DEF SlotsCounted
<1>2. Patience = "settled" /\ Typed /\ Settling /\ SlotsCounted /\ [Next]_vars => SlotsCounted'
  <2> SUFFICES ASSUME Patience = "settled", Typed, Settling, SlotsCounted, [Next]_vars
               PROVE  SlotsCounted'
    OBVIOUS
  <2>1. CASE UNCHANGED vars
    BY <2>1 DEF vars, SlotsCounted, Steady, Billed, InFlight, SlotWithCancel, SlotAt, GotIt, Got
  <2> QED BY <2>1, LaunchCounts, CancelCounts DEF Next
<1> QED BY <1>1, <1>2, SettlingInvariant, PTL DEF Spec

(* Nothing runs any more: no claim on a slot is on its way.                *)
LEMMA SlotsAtRest ==
    ASSUME Typed, Settling, SlotsCounted, Quiet
    PROVE  /\ slots \in Nat /\ crashes \in Nat
           /\ Cardinality(TrialVideos({"ok", "cancel"})) \in Nat
           /\ slots <= Cardinality(TrialVideos({"ok", "cancel"})) + crashes
<1>1. Got = TrialVideos({"ok", "cancel"})
  BY DEF Got, GotIt, TrialVideos
<1>2. ~InFlight
  BY Stages DEF InFlight, SlotWithCancel, SlotAt, Billed, Quiet
<1>3. slots \in Nat /\ crashes \in Nat /\ Cardinality(Got) \in Nat
  BY FS_CardinalityType DEF Typed, TypeOK, SlotsCounted
<1> QED BY <1>1, <1>2, <1>3 DEF SlotsCounted

(* When nothing is running any more, the trial counter counts the videos   *)
(* the teacher got, and at most one slot more for every crash.             *)
THEOREM CrashesLeakOneSlot ==
    ASSUME Patience = "settled"
    PROVE  Spec => [](Quiet => slots <= Cardinality(TrialVideos({"ok", "cancel"})) + crashes)
BY SlotsAtRest, SlotsCountedInvariant, SettlingInvariant, PTL

(* The trial counter never counts a video the teacher did not get, as long *)
(* as nothing crashed.                                                     *)
THEOREM TrialCountsFair ==
    ASSUME Patience = "settled"
    PROVE  Spec => [](crashes = 0 => TrialSlotsFair)
<1>1. Typed /\ Settling /\ SlotsCounted => (crashes = 0 => TrialSlotsFair)
  BY SlotsAtRest DEF TrialSlotsFair
<1> QED BY <1>1, SlotsCountedInvariant, SettlingInvariant, PTL
=============================================================================
