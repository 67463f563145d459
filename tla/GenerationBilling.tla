-------------------------- MODULE GenerationBilling --------------------------
(***************************************************************************)
(* The generation of one lesson's video ("video") or slide texts           *)
(* ("vision"), from the click to the settled bill.  Four kinds of actors   *)
(* share the lesson row, the owner's credit account and the trial counter: *)
(*   - the launching endpoint (routers/lessons.generate_video,             *)
(*     routers/slides.analyze_lesson_slides): admit, bill, write, enqueue; *)
(*   - the Celery task (tasks/video_pipeline, tasks/vision_pipeline):      *)
(*     start, slides, publish or fail or cancel, settle, acknowledge;      *)
(*   - the cancel endpoint (routers/lessons.cancel_generation_impl);       *)
(*   - the startup sweep (main._reconcile_stuck_lessons).                  *)
(* One action is one committed transaction or one call to the broker.      *)
(* Celery redelivers the message of a task whose worker died (acks_late    *)
(* with reject_on_worker_lost).                                            *)
(*                                                                         *)
(* Endpoint and task each work on an ORM copy of the row, loaded once and  *)
(* not expired by commits (expire_on_commit=False): their UPDATE carries   *)
(* only the columns whose new value differs from that copy.                *)
(***************************************************************************)
EXTENDS CreditLedger, FiniteSets

CONSTANTS
    Launches,       \* clicks; a launch is also its billing_ref and task id
    NoId,           \* NULL billing_ref or task id
    Kinds,          \* the kinds of generation explored
    Estimates,      \* the prices a launch can be quoted
    StartCredits,   \* the owner's balance at the start
    FreePlan,       \* the owner's plan is "free", so the trial applies
    TrialLimit,     \* TRIAL_LECTURES
    Slides,         \* slides of the deck
    BaseCost,       \* VIDEO_*_BASE_CREDITS, plus 1 credit per slide
    Patience,       \* what the client waits for before it launches again
    MaxCrashes,     \* bound on crashes, lost messages and lost revokes
    MaxCancels,     \* bound on cancel requests
    MaxSweeps       \* bound on backend restarts that run the sweep

ASSUME GenerationAssumption ==
    /\ Refs = Launches
    /\ NoId \notin Launches
    /\ Kinds \subseteq {"video", "vision"}
    /\ Estimates \subseteq Nat \ {0}
    /\ StartCredits \in Nat
    /\ FreePlan \in BOOLEAN
    /\ TrialLimit \in Nat
    /\ Slides \in Nat \ {0}
    /\ BaseCost \in Nat
    /\ Patience \in {"none", "answered", "status", "settled"}
    /\ MaxCrashes \in Nat /\ MaxCancels \in Nat /\ MaxSweeps \in Nat

Statuses == {"draft", "analyzing", "ready_for_edit", "processing",
             "published", "error", "cancelled"}
Active == {"processing", "analyzing"}
Vias == {"none", "credits", "trial"}
Ids == Launches \cup {NoId}

(* The columns of the lessons row that these actors write.                 *)
LessonRow == [status : Statuses, via : Vias, ref : Ids, est : Nat,
              spent : Nat, cancel : BOOLEAN, auto : BOOLEAN,
              videoTask : Ids, visionTask : Ids]

NewLesson == [status |-> "draft", via |-> "none", ref |-> NoId, est |-> 0,
              spent |-> 0, cancel |-> FALSE, auto |-> FALSE,
              videoTask |-> NoId, visionTask |-> NoId]

VARIABLES
    lesson,     \* the lessons row
    slots,      \* usage_counters row (owner, "lifetime", "trial_lecture")
    launch,     \* per launch: the request that handles it
    queue,      \* per launch: where its Celery message is
    started,    \* launches whose task left PENDING in the result backend
    run,        \* per launch: the worker executing its task
    cp,         \* slides in the Redis checkpoint job:{lesson_id}:checkpoint
    canceller,  \* the cancel request being served
    delivered,  \* history: the outcomes each launch's task has reached
    crashes, cancels, sweeps    \* counters of the bounds

genVars == <<lesson, slots, launch, queue, started, run, cp, canceller,
             delivered, crashes, cancels, sweeps>>
vars == <<opened, balance, reserved, credited, ledger, lesson, slots, launch,
          queue, started, run, cp, canceller, delivered, crashes, cancels,
          sweeps>>

LaunchPcs == {"idle", "admitted", "billed", "written", "unqueued",
              "releasing", "redrafting", "enqueued", "returned", "refused"}
Launch == [pc : LaunchPcs, kind : {"video", "vision"}, est : Nat,
           via : Vias, seen : LessonRow]
IdleLaunch == [pc |-> "idle", kind |-> "video", est |-> 0, via |-> "none",
               seen |-> NewLesson]

QueueStates == {"none", "queued", "running", "acked", "revoked", "lost"}

RunPcs == {"none", "preparing", "working", "published", "settling",
           "finalizing", "recording", "closing", "done"}
Outcomes == {"none", "ok", "error", "cancel"}
Run == [pc : RunPcs, outcome : Outcomes, via : Vias, ref : Ids, est : Nat,
        done : Nat, claimed : Vias, seen : LessonRow]
NoRun == [pc |-> "none", outcome |-> "none", via |-> "none", ref |-> NoId,
          est |-> 0, done |-> 0, claimed |-> "none", seen |-> NewLesson]

Canceller == [pc : {"idle", "loaded", "asked", "claiming", "refunding",
                    "reverting"},
              kind : {"video", "vision"}, claimed : Vias, seen : LessonRow]
IdleCanceller == [pc |-> "idle", kind |-> "video", claimed |-> "none",
                  seen |-> NewLesson]

-----------------------------------------------------------------------------
(* The ORM's unit of work: a column is written when its new value differs  *)
(* from the loaded copy, whatever the row holds by now.                    *)
Column(stored, loaded, new) == IF new # loaded THEN new ELSE stored

Flush(row, seen, new) ==
    [status     |-> Column(row.status, seen.status, new.status),
     via        |-> Column(row.via, seen.via, new.via),
     ref        |-> Column(row.ref, seen.ref, new.ref),
     est        |-> Column(row.est, seen.est, new.est),
     spent      |-> Column(row.spent, seen.spent, new.spent),
     cancel     |-> Column(row.cancel, seen.cancel, new.cancel),
     auto       |-> Column(row.auto, seen.auto, new.auto),
     videoTask  |-> Column(row.videoTask, seen.videoTask, new.videoTask),
     visionTask |-> Column(row.visionTask, seen.visionTask, new.visionTask)]

TaskOf(row, kind) == IF kind = "video" THEN row.videoTask ELSE row.visionTask

WithTask(row, kind, id) ==
    IF kind = "video" THEN [row EXCEPT !.videoTask = id]
                      ELSE [row EXCEPT !.visionTask = id]

Ended_StatusKept(row, kind, status) ==
    WithTask([row EXCEPT !.cancel = FALSE], kind, NoId)

(* _set_status with a status that ends the pipeline.                       *)
Ended(row, kind, status) ==
    WithTask([row EXCEPT !.status = status, !.cancel = FALSE], kind, NoId)

(* claim_billing on the row it has locked.                                 *)
Claimed_Kept(row) == row

Claimed(row) == [row EXCEPT !.via = "none"]

(* What a claim is worth: credits held under a ref.                        *)
Captures_Trial(claim, ref) == claim = "trial" /\ ref # NoId

Captures(claim, ref) == claim = "credits" /\ ref # NoId

(* partial_video_cost clamped to the estimate; partial_vision_cost, the    *)
(* pro rata share rounded up.                                              *)
PartialCost(kind, est, done) ==
    IF kind = "video"
    THEN Least(est, BaseCost + done)
    ELSE Least(est, (est * done + Slides - 1) \div Slides)

(* usage_counters: one slot back, clamped at zero.                         *)
ReleaseSlot == slots' = NonNeg(slots - 1)

Quiet ==
    /\ \A l \in Launches :
          /\ launch[l].pc \in {"idle", "returned", "refused"}
          /\ queue[l] \notin {"queued", "running"}
    /\ canceller.pc = "idle"

(* When the client may click again.  The endpoint itself only looks at     *)
(* lesson.status (Admit); a page with one button waits for its answer; one *)
(* that follows the progress stream for a final status; the most patient   *)
(* until nothing is left to do.                                            *)
ClientReady ==
    CASE Patience = "none" -> TRUE
      [] Patience = "answered" ->
            \A l \in Launches : launch[l].pc \in {"idle", "returned", "refused"}
      [] Patience = "status" ->
            \A l \in Launches : /\ launch[l].pc \in {"idle", "returned", "refused"}
                                /\ queue[l] # "queued"
      [] Patience = "settled" -> Quiet

-----------------------------------------------------------------------------
(* The launching endpoint.                                                 *)

(* Dependencies loaded the row; "one active generation per lesson".        *)
Admit(l, kind, est) ==
    /\ launch[l].pc = "idle"
    /\ ClientReady
    /\ lesson.status \notin Active
    /\ launch' = [launch EXCEPT ![l] =
                    [pc |-> "admitted", kind |-> kind, est |-> est,
                     via |-> "none", seen |-> lesson]]
    /\ UNCHANGED <<ledgerVars, lesson, slots, queue, started, run, cp,
                   canceller, delivered, crashes, cancels, sweeps>>

(* A free account's deck within the trial caps is billed to the trial      *)
(* while slots remain: generate_video takes a slot, analyze only looks.    *)
BillTrial(l) ==
    /\ launch[l].pc = "admitted"
    /\ FreePlan
    /\ slots < TrialLimit
    /\ slots' = IF launch[l].kind = "video" THEN slots + 1 ELSE slots
    /\ launch' = [launch EXCEPT ![l].pc = "billed", ![l].via = "trial"]
    /\ UNCHANGED <<ledgerVars, lesson, queue, started, run, cp, canceller,
                   delivered, crashes, cancels, sweeps>>

BillCredits(l) ==
    /\ launch[l].pc = "admitted"
    /\ ReserveCredits(l, launch[l].est)
    /\ launch' = [launch EXCEPT ![l].pc = "billed", ![l].via = "credits"]
    /\ UNCHANGED <<lesson, slots, queue, started, run, cp, canceller,
                   delivered, crashes, cancels, sweeps>>

(* 402: neither the trial nor the balance covers the launch.               *)
RefuseUnpaid(l) ==
    /\ launch[l].pc = "admitted"
    /\ ~CanReserve(launch[l].est)
    /\ launch' = [launch EXCEPT ![l] = [IdleLaunch EXCEPT !.pc = "refused"]]
    /\ UNCHANGED <<ledgerVars, lesson, slots, queue, started, run, cp,
                   canceller, delivered, crashes, cancels, sweeps>>

(* The billing state the worker will read; analyze also moves the status.  *)
WriteBilling(l) ==
    LET me   == launch[l]
        paid == me.via = "credits"
        new  == [me.seen EXCEPT
                    !.est = IF paid THEN me.est ELSE 0,
                    !.spent = 0,
                    !.ref = IF paid THEN l ELSE NoId,
                    !.via = me.via,
                    !.cancel = FALSE,
                    !.auto = @ \/ me.kind = "vision",
                    !.status = IF me.kind = "vision" THEN "analyzing" ELSE @]
    IN  /\ me.pc = "billed"
        /\ lesson' = Flush(lesson, me.seen, new)
        /\ launch' = [launch EXCEPT ![l].pc = "written", ![l].seen = new]
        /\ UNCHANGED <<ledgerVars, slots, queue, started, run, cp, canceller,
                       delivered, crashes, cancels, sweeps>>

Enqueue(l) ==
    /\ launch[l].pc = "written"
    /\ queue' = [queue EXCEPT ![l] = "queued"]
    /\ launch' = [launch EXCEPT ![l].pc = "enqueued"]
    /\ UNCHANGED <<ledgerVars, lesson, slots, started, run, cp, canceller,
                   delivered, crashes, cancels, sweeps>>

(* lesson.{video,analyze}_task_id = task.id, after apply_async returned.   *)
SaveTaskId(l) ==
    LET me  == launch[l]
        new == WithTask(me.seen, me.kind, l)
    IN  /\ me.pc = "enqueued"
        /\ lesson' = Flush(lesson, me.seen, new)
        /\ launch' = [launch EXCEPT ![l].pc = "returned", ![l].seen = NewLesson]
        /\ UNCHANGED <<ledgerVars, slots, queue, started, run, cp, canceller,
                       delivered, crashes, cancels, sweeps>>

(* apply_async raised: claim_billing, then give back what was taken.       *)
EnqueueFails(l) ==
    /\ launch[l].pc = "written"
    /\ crashes < MaxCrashes
    /\ crashes' = crashes + 1
    /\ launch' = [launch EXCEPT ![l].pc = "unqueued"]
    /\ UNCHANGED <<ledgerVars, lesson, slots, queue, started, run, cp,
                   canceller, delivered, cancels, sweeps>>

(* claim_billing also nulls the column of the session's own copy.          *)
ClaimForRefund(l) ==
    /\ launch[l].pc = "unqueued"
    /\ lesson' = Claimed(lesson)
    /\ launch' = [launch EXCEPT ![l].pc = "releasing",
                                ![l].via = lesson.via,
                                ![l].seen.via = "none"]
    /\ UNCHANGED <<ledgerVars, slots, queue, started, run, cp, canceller,
                   delivered, crashes, cancels, sweeps>>

RefundLaunch(l) ==
    LET me == launch[l]
    IN  /\ me.pc = "releasing"
        /\ IF me.via = "credits"
           THEN ReleaseCredits(l, me.est)
           ELSE UNCHANGED ledgerVars
        /\ IF me.via = "trial" /\ me.kind = "video"
           THEN ReleaseSlot
           ELSE UNCHANGED slots
        /\ launch' = [launch EXCEPT ![l] =
                        IF me.kind = "vision"
                        THEN [me EXCEPT !.pc = "redrafting"]
                        ELSE [IdleLaunch EXCEPT !.pc = "refused"]]
        /\ UNCHANGED <<lesson, queue, started, run, cp, canceller, delivered,
                       crashes, cancels, sweeps>>

(* A claim that found nothing rolled back and so expired the session's     *)
(* copy: the status is then written whatever it was.                       *)
Redraft(l) ==
    LET me == launch[l]
    IN  /\ me.pc = "redrafting"
        /\ lesson' = IF me.via = "none"
                     THEN [lesson EXCEPT !.status = "draft"]
                     ELSE Flush(lesson, me.seen,
                                [me.seen EXCEPT !.status = "draft"])
        /\ launch' = [launch EXCEPT ![l] = [IdleLaunch EXCEPT !.pc = "refused"]]
        /\ UNCHANGED <<ledgerVars, slots, queue, started, run, cp, canceller,
                       delivered, crashes, cancels, sweeps>>

(* The backend process dies (deploy, OOM) inside the request.              *)
EndpointCrash(l) ==
    /\ launch[l].pc \notin {"idle", "returned", "refused"}
    /\ crashes < MaxCrashes
    /\ crashes' = crashes + 1
    /\ launch' = [launch EXCEPT ![l] =
                    IF @.pc = "enqueued"
                    THEN [@ EXCEPT !.pc = "returned", !.seen = NewLesson]
                    ELSE [IdleLaunch EXCEPT !.pc = "refused"]]
    /\ UNCHANGED <<ledgerVars, lesson, slots, queue, started, run, cp,
                   canceller, delivered, cancels, sweeps>>

-----------------------------------------------------------------------------
(* The Celery task.                                                        *)

(* The row is loaded and the status moved; the billing context the task    *)
(* will settle with is the one the row holds now.                          *)
Start(l) ==
    LET new == [lesson EXCEPT !.status = IF launch[l].kind = "video"
                                         THEN "processing" ELSE "analyzing"]
    IN  /\ queue[l] = "queued"
        /\ queue' = [queue EXCEPT ![l] = "running"]
        /\ started' = started \cup {l}
        /\ lesson' = new
        /\ run' = [run EXCEPT ![l] =
                    [NoRun EXCEPT !.pc = "preparing", !.via = lesson.via,
                                  !.ref = lesson.ref, !.est = lesson.est,
                                  !.seen = new]]
        /\ UNCHANGED <<ledgerVars, slots, launch, cp, canceller, delivered,
                       crashes, cancels, sweeps>>

(* Slides rendered, narration ready.  A video resumes from the segments    *)
(* its checkpoint and disk still hold; vision starts over.                 *)
Prepare(l) ==
    /\ run[l].pc = "preparing"
    /\ run' = [run EXCEPT ![l].pc = "working",
                          ![l].done = IF launch[l].kind = "video" THEN cp ELSE 0]
    /\ UNCHANGED <<ledgerVars, lesson, slots, launch, queue, started, cp,
                   canceller, delivered, crashes, cancels, sweeps>>

SpentSoFar(l, done) ==
    IF run[l].via = "credits"
    THEN PartialCost(launch[l].kind, run[l].est, done) ELSE 0

SlidesLeft_OneMore(l) == run[l].done <= Slides

SlidesLeft(l) == run[l].done < Slides

(* The per-slide checkpoint: persist the spend; a video then honours a     *)
(* cancel, vision does before its next slide (ObserveCancel).  Encoding    *)
(* runs behind the synthesis, so fewer segments may be in the checkpoint.  *)
FinishSlide(l) ==
    LET me   == run[l]
        done == me.done + 1
        new  == [me.seen EXCEPT !.spent = SpentSoFar(l, done)]
        stop == launch[l].kind = "video" /\ lesson.cancel
    IN  /\ me.pc = "working"
        /\ SlidesLeft(l)
        /\ lesson' = Flush(lesson, me.seen, new)
        /\ run' = [run EXCEPT ![l] =
                    [me EXCEPT !.done = done, !.seen = new,
                               !.pc = IF stop THEN "settling" ELSE @,
                               !.outcome = IF stop THEN "cancel" ELSE @]]
        /\ cp' \in IF launch[l].kind = "video" THEN {cp} \cup cp..done ELSE {cp}
        /\ UNCHANGED <<ledgerVars, slots, launch, queue, started, canceller,
                       delivered, crashes, cancels, sweeps>>

(* The checks between the steps before the first slide, before each        *)
(* synthesis or vision call, and after each encoded segment.               *)
ObserveCancel(l) ==
    /\ \/ run[l].pc = "preparing" /\ launch[l].kind = "video"
       \/ run[l].pc = "working" /\ (SlidesLeft(l) \/ launch[l].kind = "video")
    /\ lesson.cancel
    /\ run' = [run EXCEPT ![l].pc = "settling", ![l].outcome = "cancel"]
    /\ UNCHANGED <<ledgerVars, lesson, slots, launch, queue, started, cp,
                   canceller, delivered, crashes, cancels, sweeps>>

(* The result is stored and _set_status commits it.                        *)
Publish(l) ==
    LET me   == run[l]
        kind == launch[l].kind
        new  == Ended(me.seen, kind,
                      IF kind = "video" THEN "published" ELSE "ready_for_edit")
    IN  /\ me.pc = "working"
        /\ me.done = Slides
        /\ lesson' = Flush(lesson, me.seen, new)
        /\ run' = [run EXCEPT ![l] = [me EXCEPT !.pc = "published", !.seen = new]]
        /\ UNCHANGED <<ledgerVars, slots, launch, queue, started, cp, canceller,
                       delivered, crashes, cancels, sweeps>>

(* Notification and final progress event sent, the checkpoint deleted; the *)
(* bill is settled only afterwards, in the `finally` block.                *)
Announce(l) ==
    /\ run[l].pc = "published"
    /\ run' = [run EXCEPT ![l].pc = "settling", ![l].outcome = "ok"]
    /\ cp' = IF launch[l].kind = "video" THEN 0 ELSE cp
    /\ delivered' = [delivered EXCEPT ![l] = @ \cup {"ok"}]
    /\ UNCHANGED <<ledgerVars, lesson, slots, launch, queue, started,
                   canceller, crashes, cancels, sweeps>>

(* Any exception of a provider, of the storage or of ffmpeg; for vision,   *)
(* also one of the result backend at the last progress report, when the    *)
(* texts are already ready_for_edit.                                       *)
Fail(l) ==
    LET me  == run[l]
        new == Ended(me.seen, launch[l].kind, "error")
    IN  /\ \/ me.pc \in {"preparing", "working"}
           \/ me.pc = "published" /\ launch[l].kind = "vision"
        /\ lesson' = Flush(lesson, me.seen, new)
        /\ run' = [run EXCEPT ![l] = [me EXCEPT !.pc = "settling",
                                                !.outcome = "error", !.seen = new]]
        /\ delivered' = [delivered EXCEPT ![l] = @ \cup {"error"}]
        /\ UNCHANGED <<ledgerVars, slots, launch, queue, started, cp,
                       canceller, crashes, cancels, sweeps>>

Unbilled_OnError(l) == run[l].via = "none" \/ run[l].outcome = "error"

Unbilled(l) == run[l].via = "none"

(* _settle, first transaction: sync_claim_billing.  A run that started     *)
(* without billing settles nothing.                                        *)
SettleClaim(l) ==
    /\ run[l].pc = "settling"
    /\ IF Unbilled(l)
       THEN /\ run' = [run EXCEPT ![l].pc = "closing"]
            /\ UNCHANGED lesson
       ELSE /\ run' = [run EXCEPT ![l].pc = "finalizing",
                                  ![l].claimed = lesson.via,
                                  ![l].seen.via = "none"]
            /\ lesson' = Claimed(lesson)
    /\ UNCHANGED <<ledgerVars, slots, launch, queue, started, cp, canceller,
                   delivered, crashes, cancels, sweeps>>

Cost_Full(l) == run[l].est

(* What the outcome costs: everything, the slides done, nothing.           *)
Cost(l) ==
    CASE run[l].outcome = "ok"     -> run[l].est
      [] run[l].outcome = "cancel" -> SpentSoFar(l, run[l].done)
      [] OTHER                     -> 0

KeepsTrialSlot_Always(l) == TRUE

KeepsTrialSlot_CancelOnly(l) == run[l].outcome = "cancel" /\ run[l].done >= 1

KeepsTrialSlot(l) ==
    \/ run[l].outcome = "ok"
    \/ run[l].outcome = "cancel" /\ run[l].done >= 1

(* _settle, second transaction: finalize the hold or return the slot.  A   *)
(* hold found already finalized is left alone; that rollback expires the   *)
(* session's copy like the one of a claim that found nothing.              *)
SettleFinalize(l) ==
    LET me      == run[l]
        capture == Captures(me.claimed, me.ref)
        partial == me.outcome # "cancel" \/ me.done >= 1
    IN  /\ me.pc = "finalizing"
        /\ IF capture /\ CanFinalize(me.ref)
           THEN FinalizeGeneration(me.ref, me.est, Cost(l))
           ELSE UNCHANGED ledgerVars
        /\ IF me.claimed = "trial" /\ launch[l].kind = "video" /\ ~KeepsTrialSlot(l)
           THEN ReleaseSlot
           ELSE UNCHANGED slots
        /\ delivered' = [delivered EXCEPT ![l] =
                            @ \cup {IF partial THEN me.outcome ELSE "untouched"}]
        /\ run' = [run EXCEPT
                    ![l].pc = "recording",
                    ![l].claimed = IF capture /\ ~CanFinalize(me.ref)
                                   THEN "none" ELSE @]
        /\ UNCHANGED <<lesson, launch, queue, started, cp, canceller, crashes,
                       cancels, sweeps>>

(* _settle, third transaction: credits_spent.  A claim that found nothing  *)
(* expired the session's copy, which is loaded again here.                 *)
SettleRecord(l) ==
    LET me  == run[l]
        old == IF me.claimed = "none" THEN lesson ELSE me.seen
        new == [old EXCEPT !.spent = IF me.via = "credits" THEN Cost(l) ELSE 0]
    IN  /\ me.pc = "recording"
        /\ lesson' = Flush(lesson, old, new)
        /\ run' = [run EXCEPT ![l].pc = "closing", ![l].seen = new]
        /\ UNCHANGED <<ledgerVars, slots, launch, queue, started, cp,
                       canceller, delivered, crashes, cancels, sweeps>>

(* A cancelled run moves the status after it settled.                      *)
Close(l) ==
    LET me  == run[l]
        new == IF me.outcome = "cancel"
               THEN Ended(me.seen, launch[l].kind, "cancelled") ELSE me.seen
    IN  /\ me.pc = "closing"
        /\ lesson' = Flush(lesson, me.seen, new)
        /\ run' = [run EXCEPT ![l] = [NoRun EXCEPT !.pc = "done"]]
        /\ UNCHANGED <<ledgerVars, slots, launch, queue, started, cp,
                       canceller, delivered, crashes, cancels, sweeps>>

Acknowledge(l) ==
    /\ run[l].pc = "done"
    /\ run' = [run EXCEPT ![l] = NoRun]
    /\ queue' = [queue EXCEPT ![l] = "acked"]
    /\ UNCHANGED <<ledgerVars, lesson, slots, launch, started, cp, canceller,
                   delivered, crashes, cancels, sweeps>>

(* The worker process dies: its message goes back to the queue.            *)
WorkerCrash(l) ==
    /\ queue[l] = "running"
    /\ crashes < MaxCrashes
    /\ crashes' = crashes + 1
    /\ run' = [run EXCEPT ![l] = NoRun]
    /\ queue' = [queue EXCEPT ![l] = "queued"]
    /\ UNCHANGED <<ledgerVars, lesson, slots, launch, started, cp, canceller,
                   delivered, cancels, sweeps>>

(* task_time_limit: Celery kills the process and acknowledges the message. *)
TimeLimitKill(l) ==
    /\ run[l].pc \in {"preparing", "working", "published"}
    /\ crashes < MaxCrashes
    /\ crashes' = crashes + 1
    /\ run' = [run EXCEPT ![l] = NoRun]
    /\ queue' = [queue EXCEPT ![l] = "acked"]
    /\ UNCHANGED <<ledgerVars, lesson, slots, launch, started, cp, canceller,
                   delivered, cancels, sweeps>>

(* Redis is flushed: the queued message and the checkpoint are gone.       *)
LoseMessage(l) ==
    /\ queue[l] = "queued"
    /\ crashes < MaxCrashes
    /\ crashes' = crashes + 1
    /\ queue' = [queue EXCEPT ![l] = "lost"]
    /\ cp' = 0
    /\ UNCHANGED <<ledgerVars, lesson, slots, launch, started, run, canceller,
                   delivered, cancels, sweeps>>

-----------------------------------------------------------------------------
(* The cancel endpoint.                                                    *)

CancelLoad ==
    /\ canceller.pc = "idle"
    /\ cancels < MaxCancels
    /\ lesson.status \in Active
    /\ cancels' = cancels + 1
    /\ canceller' = [IdleCanceller EXCEPT
                        !.pc = "loaded",
                        !.kind = IF lesson.status = "processing"
                                 THEN "video" ELSE "vision",
                        !.seen = lesson]
    /\ UNCHANGED <<ledgerVars, lesson, slots, launch, queue, started, run, cp,
                   delivered, crashes, sweeps>>

CancelMark ==
    LET new == [canceller.seen EXCEPT !.cancel = TRUE]
    IN  /\ canceller.pc = "loaded"
        /\ lesson' = Flush(lesson, canceller.seen, new)
        /\ canceller' = [canceller EXCEPT !.pc = "asked", !.seen = new]
        /\ UNCHANGED <<ledgerVars, slots, launch, queue, started, run, cp,
                       delivered, crashes, cancels, sweeps>>

CancelTask == TaskOf(canceller.seen, canceller.kind)

(* The task already left PENDING, or the result backend cannot tell.       *)
CancelCooperatively ==
    /\ canceller.pc = "asked"
    /\ CancelTask # NoId
    /\ canceller' = IdleCanceller
    /\ UNCHANGED <<ledgerVars, lesson, slots, launch, queue, started, run, cp,
                   delivered, crashes, cancels, sweeps>>

(* No task id, or its state is PENDING: revoke it.  A revoke is a          *)
(* broadcast that a restarting worker may miss.                            *)
CancelImmediately ==
    /\ canceller.pc = "asked"
    /\ CancelTask = NoId \/ CancelTask \notin started
    /\ \/ /\ queue' = [l \in Launches |->
                          IF l = CancelTask /\ queue[l] = "queued"
                          THEN "revoked" ELSE queue[l]]
          /\ UNCHANGED crashes
       \/ /\ CancelTask # NoId
          /\ crashes < MaxCrashes
          /\ crashes' = crashes + 1
          /\ UNCHANGED queue
    /\ canceller' = [canceller EXCEPT !.pc = "claiming"]
    /\ UNCHANGED <<ledgerVars, lesson, slots, launch, started, run, cp,
                   delivered, cancels, sweeps>>

CancelClaim ==
    /\ canceller.pc = "claiming"
    /\ lesson' = Claimed(lesson)
    /\ canceller' = [canceller EXCEPT !.pc = "refunding",
                                      !.claimed = lesson.via,
                                      !.seen.via = "none"]
    /\ UNCHANGED <<ledgerVars, slots, launch, queue, started, run, cp,
                   delivered, crashes, cancels, sweeps>>

CancelRefund ==
    LET me == canceller
    IN  /\ me.pc = "refunding"
        /\ IF Captures(me.claimed, me.seen.ref) /\ HoldOpen(me.seen.ref)
           THEN ReleaseReservationIfHeld(me.seen.ref)
           ELSE UNCHANGED ledgerVars
        /\ IF me.claimed = "trial" /\ me.kind = "video"
           THEN ReleaseSlot
           ELSE UNCHANGED slots
        /\ canceller' = [me EXCEPT !.pc = "reverting"]
        /\ UNCHANGED <<lesson, launch, queue, started, run, cp, delivered,
                       crashes, cancels, sweeps>>

CancelRevert ==
    LET me  == canceller
        to  == IF me.kind = "video" /\ me.seen.auto
               THEN "ready_for_edit" ELSE "draft"
    IN  /\ me.pc = "reverting"
        /\ lesson' = IF me.claimed = "none"
                     THEN Ended(lesson, me.kind, to)
                     ELSE Flush(lesson, me.seen, Ended(me.seen, me.kind, to))
        /\ canceller' = IdleCanceller
        /\ UNCHANGED <<ledgerVars, slots, launch, queue, started, run, cp,
                       delivered, crashes, cancels, sweeps>>

CancelCrash ==
    /\ canceller.pc # "idle"
    /\ crashes < MaxCrashes
    /\ crashes' = crashes + 1
    /\ canceller' = IdleCanceller
    /\ UNCHANGED <<ledgerVars, lesson, slots, launch, queue, started, run, cp,
                   delivered, cancels, sweeps>>

-----------------------------------------------------------------------------
(* _reconcile_stuck_lessons on a backend start.  The grace period exceeds  *)
(* a run's time limit, so no worker is on the lesson; a message may still  *)
(* be queued.                                                              *)
SweepStuck ==
    LET kind == IF lesson.status = "processing" THEN "video" ELSE "vision"
    IN  /\ sweeps < MaxSweeps
        /\ lesson.status \in Active
        /\ TaskOf(lesson, kind) # NoId
        /\ \A l \in Launches : queue[l] # "running"
        /\ sweeps' = sweeps + 1
        /\ lesson' = Ended(lesson, kind, "error")
        /\ UNCHANGED <<ledgerVars, slots, launch, queue, started, run, cp,
                       canceller, delivered, crashes, cancels>>

-----------------------------------------------------------------------------
Init ==
    /\ opened = TRUE
    /\ balance = StartCredits
    /\ reserved = 0
    /\ credited = StartCredits
    /\ ledger = [l \in Refs |-> NoRows]
    /\ lesson = NewLesson
    /\ slots = 0
    /\ launch = [l \in Launches |-> IdleLaunch]
    /\ queue = [l \in Launches |-> "none"]
    /\ started = {}
    /\ run = [l \in Launches |-> NoRun]
    /\ cp = 0
    /\ canceller = IdleCanceller
    /\ delivered = [l \in Launches |-> {}]
    /\ crashes = 0 /\ cancels = 0 /\ sweeps = 0

Request(l) ==
    \/ BillTrial(l) \/ BillCredits(l) \/ RefuseUnpaid(l)
    \/ WriteBilling(l) \/ Enqueue(l) \/ SaveTaskId(l)
    \/ ClaimForRefund(l) \/ RefundLaunch(l) \/ Redraft(l)

Work(l) ==
    \/ Prepare(l) \/ FinishSlide(l) \/ ObserveCancel(l) \/ Publish(l) \/ Announce(l)
    \/ SettleClaim(l) \/ SettleFinalize(l) \/ SettleRecord(l)
    \/ Close(l) \/ Acknowledge(l)

Cancel ==
    \/ CancelMark \/ CancelCooperatively \/ CancelImmediately
    \/ CancelClaim \/ CancelRefund \/ CancelRevert

Fault(l) ==
    \/ EnqueueFails(l) \/ EndpointCrash(l) \/ WorkerCrash(l)
    \/ TimeLimitKill(l) \/ LoseMessage(l)

Next ==
    \/ \E l \in Launches, kind \in Kinds, est \in Estimates : Admit(l, kind, est)
    \/ \E l \in Launches : Request(l) \/ Start(l) \/ Work(l) \/ Fail(l) \/ Fault(l)
    \/ CancelLoad \/ Cancel \/ CancelCrash
    \/ SweepStuck

Spec == Init /\ [][Next]_vars

(* The event loop runs an accepted request to its end, the workers take    *)
(* every queued message and run it; nobody has to click, crash or fail.    *)
Fairness ==
    /\ \A l \in Launches :
          WF_vars(Request(l)) /\ WF_vars(Start(l)) /\ WF_vars(Work(l))
    /\ WF_vars(Cancel)

LiveSpec == Spec /\ Fairness

-----------------------------------------------------------------------------
(* Every variable ranges over what its column, key or handler can hold.    *)
TypeOK ==
    /\ opened = TRUE
    /\ balance \in Nat /\ reserved \in Nat /\ credited \in Nat
    /\ ledger \in [Refs -> Row]
    /\ lesson \in LessonRow
    /\ slots \in Nat
    /\ launch \in [Launches -> Launch]
    /\ queue \in [Launches -> QueueStates]
    /\ started \subseteq Launches
    /\ run \in [Launches -> Run]
    /\ cp \in 0..Slides
    /\ canceller \in Canceller
    /\ delivered \in [Launches -> SUBSET {"ok", "error", "cancel", "untouched"}]
    /\ crashes \in Nat /\ cancels \in Nat /\ sweeps \in Nat

(* No launch is charged and refunded more than it reserved: the endpoint's *)
(* compensation, the cancel endpoint and a redelivered task never settle   *)
(* the same hold twice.                                                    *)
SettledWithinHold ==
    \A l \in Launches :
        ledger[l].charged + ledger[l].released <= ledger[l].held

(* claim_billing: of the task, the cancel endpoint and the compensation of *)
(* the launching endpoint, at most one has the right to settle.            *)
Claimants ==
    {<<"task", l>> : l \in {l \in Launches : run[l].claimed # "none"}} \cup
    {<<"endpoint", l>> : l \in {l \in Launches :
                            launch[l].pc = "releasing" /\ launch[l].via # "none"}} \cup
    {<<"cancel", l>> : l \in IF canceller.claimed = "none" THEN {} ELSE {NoId}}

OneSettler == \A a, b \in Claimants : a = b

(* When nothing is running any more, no hold is left on the account.       *)
HoldsSettled ==
    Quiet => \A l \in Launches : ~HoldOpen(l)

(* A teacher pays only for slides the task really processed; a cooperative *)
(* cancel before the first slide costs the base price at most.             *)
ChargedOnlyIfDelivered ==
    \A l \in Launches :
        ledger[l].charged > (IF "untouched" \in delivered[l] THEN BaseCost ELSE 0)
            => delivered[l] \cap {"ok", "cancel"} # {}

TrialVideos(outcomes) ==
    {l \in Launches : /\ launch[l].kind = "video"
                      /\ launch[l].via = "trial"
                      /\ delivered[l] \cap outcomes # {}}

(* The trial counter never counts a video the teacher did not get.         *)
TrialSlotsFair ==
    Quiet => slots <= Cardinality(TrialVideos({"ok", "cancel"}))

(* Unless someone asked for a cancel, every finished generation is paid    *)
(* for: its whole estimate is charged or its trial slot stays used.        *)
DeliveredIsPaid ==
    Quiet /\ cancels = 0 =>
        /\ slots >= Cardinality(TrialVideos({"ok"}))
        /\ \A l \in Launches :
              launch[l].via = "credits" /\ "ok" \in delivered[l]
                   => ledger[l].charged = ledger[l].held

(* An immediate cancel that reports success has given everything back.     *)
ImmediateCancelRefunds ==
    canceller.pc = "reverting" /\ canceller.claimed = "credits"
        => /\ ~HoldOpen(canceller.seen.ref)
           /\ ledger[canceller.seen.ref].charged = 0

(* A task that has ended for good leaves its lesson's hold settled, even   *)
(* when its worker died on the way and Celery delivered it again.          *)
EndedRunSettled ==
    \A l \in Launches :
        queue[l] = "acked" /\ delivered[l] # {} => ~HoldOpen(l)

(* The actors together use the credit account within the contract of       *)
(* LedgerService: a fresh billing_ref per launch, settled with the amount  *)
(* that was reserved under it, refunded only while its hold is open.       *)
Contract == INSTANCE LedgerService
    WITH RunRefs <- Launches, DirectRefs <- {}, Credits <- {},
         MaxCredited <- 0, MaxGrants <- 0, MaxRenewals <- 0, MaxReserves <- 0,
         grantSeen <- -1, grants <- 0, renewals <- 0

UsesLedgerAsAgreed == [][Contract!Next]_ledgerVars

(* "Clear video_task_id once the video pipeline is no longer active."      *)
NoStaleTask ==
    Quiet => lesson.videoTask = NoId /\ lesson.visionTask = NoId

(* "one active generation per lesson"                                      *)
OneActiveGeneration ==
    \A k, l \in Launches :
        queue[k] \in {"queued", "running"} /\ queue[l] \in {"queued", "running"}
            => k = l

(* "Queued task (Celery state PENDING) -> revoke + full refund": a queued  *)
(* task must be one the cancel endpoint is willing to look at.             *)
QueuedIsCancellable ==
    \A l \in Launches :
        launch[l].pc = "returned" /\ queue[l] = "queued"
            => lesson.status \in Active

(* "Running task -> cooperative: only the cancel_requested flag is set":   *)
(* the endpoint never takes the immediate path while the task runs.        *)
RunningIsCooperative ==
    [][canceller.pc = "claiming" /\ canceller'.pc = "refunding"
        => \A l \in Launches : run[l].pc \notin {"preparing", "working", "published"}]_vars

(* Without crashes every hold is taken down again, whatever the provider   *)
(* does and whenever a cancel arrives.                                     *)
EveryHoldSettles ==
    \A l \in Launches : HoldOpen(l) ~> ~HoldOpen(l)

(* ... and the lesson does not stay in a status that blocks new launches.  *)
ActiveEnds == (lesson.status \in Active) ~> (lesson.status \notin Active)

=============================================================================
