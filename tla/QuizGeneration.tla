--------------------------- MODULE QuizGeneration ---------------------------
(***************************************************************************)
(* Generating a lesson's quiz: the endpoint bills a trial slot or a hold,  *)
(* sends the task and only then saves its id in the quizzes row, which is  *)
(* also the lock against a second generation.  The task works on the row   *)
(* it loaded when it started, replaces the questions, clears the lock and  *)
(* settles in separate commits; a worker that dies is redelivered.         *)
(***************************************************************************)
EXTENDS QuizQuestions, CreditLedger

CONSTANTS
    QLaunches,      \* clicks on "generate"; each has its own billing_ref
    QEstimate,      \* CREDIT_WEIGHTS["quiz_generate"]
    QTrialLimit,    \* trial quizzes of the plan
    QFree,          \* the owner is on the free plan
    MaxQuizFaults   \* bound on dead workers and endpoints (exploration only)

ASSUME QuizLaunchAssumption ==
    /\ QLaunches \subseteq Refs /\ QEstimate \in Nat
    /\ QTrialLimit \in Nat /\ MaxQuizFaults \in Nat

VARIABLES
    asked,      \* per launch: the request of generate_quiz
    job,        \* per launch: its message and the run of generate_quiz_task
    quizSlots,  \* usage counter TRIAL_QUIZ
    made,       \* launches whose questions were stored (history)
    quizFaults  \* faults so far

quizVars == <<questionVars, ledgerVars, asked, job, quizSlots, made, quizFaults>>

Asked == [pc : {"idle", "checked", "billed", "sent", "answered", "refused", "dead"},
          via : {"none", "trial", "credits"}, offered : BOOLEAN]

Job == [pc : {"none", "queued", "generating", "persisting", "stored",
              "announcing", "failing", "refunding", "ended"},
        seen : QLaunches \cup {NoId}, targets : SUBSET Keys, disturbed : BOOLEAN]

NoJob == [pc |-> "none", seen |-> NoId, targets |-> {}, disturbed |-> FALSE]

TakeSlot == quizSlots < QTrialLimit /\ quizSlots' = quizSlots + 1

-----------------------------------------------------------------------------
(* generate_quiz: one active generation per quiz, by the task column; the  *)
(* trial state is read here and the slot taken in a later commit.          *)
QuizClick(l) ==
    /\ asked[l].pc = "idle"
    /\ quizRow.task = NoId
    /\ quizRow' = EnsureQuiz(quizRow)
    /\ asked' = [asked EXCEPT ![l] = [pc |-> "checked", via |-> "none",
                    offered |-> QFree /\ quizSlots < QTrialLimit]]
    /\ UNCHANGED <<rows, pins, editor, ledgerVars, job, quizSlots, made, quizFaults>>

QuizBill(l) ==
    /\ asked[l].pc = "checked"
    /\ \/ /\ asked[l].offered
          /\ TakeSlot
          /\ asked' = [asked EXCEPT ![l].pc = "billed", ![l].via = "trial"]
          /\ UNCHANGED ledgerVars
       \/ /\ ~(asked[l].offered /\ quizSlots < QTrialLimit)
          /\ ReserveCredits(l, QEstimate)
          /\ asked' = [asked EXCEPT ![l].pc = "billed", ![l].via = "credits"]
          /\ UNCHANGED quizSlots
       \/ /\ ~(asked[l].offered /\ quizSlots < QTrialLimit)
          /\ ~CanReserve(QEstimate)
          /\ asked' = [asked EXCEPT ![l].pc = "refused"]
          /\ UNCHANGED <<ledgerVars, quizSlots>>
    /\ UNCHANGED <<questionVars, job, made, quizFaults>>

QuizEnqueue(l) ==
    /\ asked[l].pc = "billed"
    /\ asked' = [asked EXCEPT ![l].pc = "sent"]
    /\ job' = [job EXCEPT ![l].pc = "queued"]
    /\ UNCHANGED <<questionVars, ledgerVars, quizSlots, made, quizFaults>>

SlotBack_Unclamped == quizSlots' = quizSlots - 1

(* sync_release_slot and release_slot: UPDATE ... WHERE used > 0.          *)
SlotBack == quizSlots' = NonNeg(quizSlots - 1)

(* The broker refused: the hold or the slot is given back (503).           *)
QuizUnqueue(l) ==
    /\ asked[l].pc = "billed"
    /\ IF asked[l].via = "credits"
       THEN ReleaseCredits(l, QEstimate) /\ UNCHANGED quizSlots
       ELSE SlotBack /\ UNCHANGED ledgerVars
    /\ asked' = [asked EXCEPT ![l].pc = "refused"]
    /\ UNCHANGED <<questionVars, job, made, quizFaults>>

QuizSaveTask(l) ==
    /\ asked[l].pc = "sent"
    /\ quizRow' = [quizRow EXCEPT !.task = l]
    /\ asked' = [asked EXCEPT ![l].pc = "answered"]
    /\ UNCHANGED <<rows, pins, editor, ledgerVars, job, quizSlots, made, quizFaults>>

(* The API process dies inside the request.                                *)
QuizEndpointDies(l) ==
    /\ asked[l].pc \in {"checked", "billed", "sent"}
    /\ quizFaults < MaxQuizFaults
    /\ quizFaults' = quizFaults + 1
    /\ asked' = [asked EXCEPT ![l].pc = "dead"]
    /\ UNCHANGED <<questionVars, ledgerVars, job, quizSlots, made>>

-----------------------------------------------------------------------------
Goes(l, pc) == job' = [job EXCEPT ![l].pc = pc]

(* generate_quiz_task assembles the material and loads the quiz row, which *)
(* stays in the session for the whole run.                                 *)
QuizStart(l) ==
    /\ job[l].pc = "queued"
    /\ quizRow' = EnsureQuiz(quizRow)
    /\ job' = [job EXCEPT ![l].pc = "generating", ![l].seen = quizRow.task]
    /\ UNCHANGED <<rows, pins, editor, ledgerVars, asked, quizSlots, made, quizFaults>>

(* The UPDATE that retires questions sees the rows current by now ...      *)
QuizRetires(l) ==
    /\ job[l].pc = "generating"
    /\ job' = [job EXCEPT ![l].pc = "persisting", ![l].targets = Current(rows)]
    /\ UNCHANGED <<questionVars, ledgerVars, asked, quizSlots, made, quizFaults>>

(* _clear_generation_task on a loaded row: NULL is written only over a     *)
(* value the session saw.                                                  *)
Unlocked(row, seen) == IF seen = NoId THEN row ELSE [row EXCEPT !.task = NoId]

(* ... and one commit stores the new ones and clears the lock.             *)
QuizCommit(l) ==
    /\ job[l].pc = "persisting"
    /\ Unused(rows) # {}
    /\ rows' = Replacing(rows, job[l].targets, {Fresh(rows)})
    /\ quizRow' = Unlocked(quizRow, job[l].seen)
    /\ made' = made \cup {l}
    /\ Goes(l, "stored")
    /\ UNCHANGED <<pins, editor, ledgerVars, asked, quizSlots, quizFaults>>

QuizSettled_SlotKept(l, success) ==
    /\ IF asked[l].via = "credits" /\ CanFinalize(l)
       THEN FinalizeGeneration(l, QEstimate, IF success THEN QEstimate ELSE 0)
       ELSE UNCHANGED ledgerVars
    /\ UNCHANGED quizSlots

(* _settle: the credits path is guarded by the journal, the trial path by  *)
(* nothing.                                                                *)
QuizSettled(l, success) ==
    /\ IF asked[l].via = "credits" /\ CanFinalize(l)
       THEN FinalizeGeneration(l, QEstimate, IF success THEN QEstimate ELSE 0)
       ELSE UNCHANGED ledgerVars
    /\ IF asked[l].via = "trial" /\ ~success THEN SlotBack ELSE UNCHANGED quizSlots

QuizCharges(l) ==
    /\ job[l].pc = "stored"
    /\ QuizSettled(l, TRUE)
    /\ Goes(l, "announcing")
    /\ UNCHANGED <<questionVars, asked, made, quizFaults>>

(* The model, the material or a progress report failed, also the last one, *)
(* after everything was stored and charged: roll back, ...                 *)
QuizFails(l) ==
    /\ job[l].pc \in {"generating", "persisting", "announcing"}
    /\ Goes(l, "failing")
    /\ UNCHANGED <<questionVars, ledgerVars, asked, quizSlots, made, quizFaults>>

(* ... read the quiz again, clear the lock whoever holds it, ...           *)
QuizFailUnlocks(l) ==
    /\ job[l].pc = "failing"
    /\ quizRow' = Unlocked(quizRow, quizRow.task)
    /\ Goes(l, "refunding")
    /\ UNCHANGED <<rows, pins, editor, ledgerVars, asked, quizSlots, made, quizFaults>>

(* ... and settle as a failure.                                            *)
QuizRefunds(l) ==
    /\ job[l].pc = "refunding"
    /\ QuizSettled(l, FALSE)
    /\ Goes(l, "ended")
    /\ UNCHANGED <<questionVars, asked, made, quizFaults>>

QuizEnds(l) ==
    /\ job[l].pc = "announcing"
    /\ Goes(l, "ended")
    /\ UNCHANGED <<questionVars, ledgerVars, asked, quizSlots, made, quizFaults>>

(* acks_late and reject_on_worker_lost: the task runs again from the start,*)
(* also when only its acknowledgement was missing.                         *)
QuizWorkerDies(l) ==
    /\ job[l].pc \notin {"none", "queued"}
    /\ quizFaults < MaxQuizFaults
    /\ quizFaults' = quizFaults + 1
    /\ job' = [job EXCEPT ![l] = [NoJob EXCEPT !.pc = "queued", !.disturbed = TRUE]]
    /\ UNCHANGED <<questionVars, ledgerVars, asked, quizSlots, made>>

GenerateStep(l) ==
    \/ QuizClick(l) \/ QuizBill(l) \/ QuizEnqueue(l) \/ QuizUnqueue(l)
    \/ QuizSaveTask(l) \/ QuizEndpointDies(l)
    \/ QuizStart(l) \/ QuizRetires(l) \/ QuizCommit(l) \/ QuizCharges(l)
    \/ QuizFails(l) \/ QuizFailUnlocks(l) \/ QuizRefunds(l) \/ QuizEnds(l)
    \/ QuizWorkerDies(l)

GenerateNext == \E l \in QLaunches : GenerateStep(l)

GenerateInit ==
    /\ asked = [l \in QLaunches |->
                    [pc |-> "idle", via |-> "none", offered |-> FALSE]]
    /\ job = [l \in QLaunches |-> NoJob]
    /\ quizSlots = 0 /\ made = {} /\ quizFaults = 0

(* Both sides of one quiz, on an account in any state.                     *)
QuizNext ==
    \/ GenerateNext
    \/ AuthoringNext /\ UNCHANGED <<ledgerVars, asked, job, quizSlots, made, quizFaults>>

QuizSpec == QuestionsInit /\ GenerateInit /\ [][QuizNext]_quizVars

-----------------------------------------------------------------------------
GenerateTypeOK ==
    /\ asked \in [QLaunches -> Asked]
    /\ job \in [QLaunches -> Job]
    /\ quizSlots \in 0..QTrialLimit
    /\ made \subseteq QLaunches
    /\ quizFaults \in 0..MaxQuizFaults

(* "or full-price reservation": the slots the counter shows are no more    *)
(* than the trial launches that are on their way or delivered questions; a *)
(* refused, failed or redelivered one costs the teacher no slot.  Only a   *)
(* request that died between billing and sending keeps one for nothing.    *)
NoSlotForNothing ==
    quizSlots <= Cardinality({l \in QLaunches :
        /\ asked[l].via = "trial"
        /\ \/ asked[l].pc \in {"billed", "dead"}
           \/ job[l].pc \notin {"none", "ended"}
           \/ l \in made})

(* A credit launch whose task has ended holds nothing any more, was        *)
(* charged only if its questions were stored, and was charged in full if   *)
(* they were and no worker died; redelivery and late failures of an        *)
(* already settled run change nothing.                                     *)
QuizChargedIfMade ==
    \A l \in QLaunches :
        (job[l].pc = "ended" /\ asked[l].via = "credits") =>
            /\ Outstanding(l) = 0
            /\ ledger[l].charged > 0 => l \in made
            /\ (l \in made /\ ~job[l].disturbed) => ledger[l].charged = QEstimate

(* The lock names a generation that is still going on: the task clears it  *)
(* when it finishes, in success and in failure.                            *)
LockedWhileGenerating ==
    quizRow.task # NoId => job[quizRow.task].pc # "ended"

=============================================================================
