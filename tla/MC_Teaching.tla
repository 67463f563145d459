----------------------------- MODULE MC_Teaching -----------------------------
(* The teaching side on one small instance.  Components that share no state *)
(* are not interleaved: each behaviour plays one scenario, chosen at first. *)
EXTENDS QuizGeneration, QuizAttempts, Submissions, Courses, TLC

CONSTANTS q1, q2, q3, e1, e2, l1, l2, p1, a1, a2, a3, s1, s2, u1, u2, g1, g2,
          f1, r1, r2

(* The names the scenarios use are among those of the components, and the   *)
(* account's bills are told apart by who pays them.                         *)
ASSUME InstanceAssumption ==
    /\ e1 \in Editors /\ l1 \in QLaunches /\ u1 \in Submitters
    /\ f1 \in StudentFiles /\ MaxText # 0
    /\ IsFiniteSet(QLaunches)
    /\ RetentionRefs \cap (QLaunches \cup GradeRefs) = {}

VARIABLE scenario

MCRefs == {l1, l2, g1, g2, r1, r2}
MCQuestions == {q1, q2, q3}
MCEditors == {e1, e2}
MCLaunches == {l1, l2}
MCSittings == {p1}
MCAttempts == {a1, a2, a3}
MCStarters == {s1, s2}
MCSubmitters == {u1, u2}
MCGradeRefs == {g1, g2}
MCStudentFiles == {f1}
MCRetentionRefs == {r1, r2}

Scenarios == {"authoring", "editing", "generating", "starting", "attempts",
              "submitting", "retention", "enrolment"}

launchVars == <<asked, job, quizSlots, made, quizFaults>>
workVars == <<assignment, submission, files, stored, spent, completed, pupil, tutor,
              purge, remind, today, seenText, crossed, anchor, granted, lapped,
              premature, torn>>
allVars == <<scenario, quizVars, gradingVars, workVars, courseVars>>

(* Teachers' requests alone, on two questions.                             *)
Authoring ==
    /\ scenario = "authoring"
    /\ AuthoringNext
    /\ q3 \in Unused(rows')
    /\ UNCHANGED <<ledgerVars, launchVars, gradingVars>>

(* One generation while a question is edited.                              *)
Editing ==
    /\ scenario = "editing"
    /\ UNCHANGED gradingVars
    /\ \/ GenerateStep(l1) /\ UNCHANGED quizFaults
       \/ /\ \/ UpdateQuestion(e1)
             \/ \E key \in Keys : LoadQuestion(e1, "edit", key)
             \/ rows = <<>> /\ CreateQuestion
          /\ UNCHANGED <<ledgerVars, launchVars>>

(* Generations with dying workers and endpoints.                           *)
Generating == scenario = "generating" /\ GenerateNext /\ UNCHANGED gradingVars

(* Double clicks on "start" and a closed quiz handed in; then attempts     *)
(* started one by one, the second submission after the first.              *)
Starting ==
    \/ \E s \in Starters : StartChecks(s) \/ StartCounts(s) \/ StartInserts(s)
    \/ \E a \in Attempts : SubmitLoads(u1, a)
    \/ SubmitReadsProgress(u1)
    \/ SubmitWrites(u1)

Sitting ==
    /\ \/ scenario = "starting" /\ Starting
       \/ /\ scenario = "attempts" /\ AttemptsNext
          /\ starter'[s2] = 0
          /\ submitter'[u2] # submitter[u2] =>
                submitter[u2] # Idle \/ submitter[u1] # Idle
    /\ UNCHANGED <<questionVars, launchVars>>

Quizzes ==
    /\ Authoring \/ Editing \/ Generating \/ Sitting
    /\ UNCHANGED <<workVars, courseVars>>

(* One submission until it is graded; and one that is handed in, through    *)
(* its retention.                                                           *)
Submitting ==
    /\ \/ scenario = "submitting" /\ (SubmittingNext \/ ReviewNext)
       \/ scenario = "retention" /\ (ReviewNext \/ RetentionNext)
    /\ UNCHANGED <<questionVars, launchVars, gradingVars, courseVars>>

Enrolment ==
    /\ scenario = "enrolment" /\ CoursesNext
    /\ UNCHANGED <<quizVars, gradingVars, workVars>>

HandedIn ==
    /\ assignment = "published"
    /\ submission = [NoSubmission EXCEPT !.status = "submitted", !.text = 1]
    /\ files = {f1} /\ stored = {f1} /\ spent = {f1} /\ completed = TRUE
    /\ pupil = Resting /\ tutor = Resting /\ purge = Resting /\ remind = Resting
    /\ today = 1 /\ seenText = 0 /\ crossed = FALSE
    /\ anchor = Never /\ granted = 0 /\ lapped = FALSE
    /\ premature = FALSE /\ torn = FALSE

Next == UNCHANGED scenario /\ (Quizzes \/ Submitting \/ Enrolment)

Init ==
    /\ scenario \in Scenarios
    /\ credited = IF scenario \in {"submitting", "retention"} THEN 2 ELSE 3
    /\ opened = TRUE /\ balance = credited /\ reserved = 0
    /\ ledger = [ref \in Refs |-> NoRows]
    /\ QuestionsInit /\ GenerateInit /\ AttemptsInit /\ CoursesInit
    /\ IF scenario = "retention" THEN HandedIn ELSE SubmissionsInit
    /\ scenario # "attempts" => openQuiz = (scenario # "starting")

Spec == Init /\ [][Next]_allVars

TypeOK ==
    /\ scenario \in Scenarios
    /\ CASE scenario \in {"authoring", "editing", "generating"} ->
              QuestionsTypeOK(QLaunches \cup {NoId}) /\ GenerateTypeOK
         [] scenario \in {"starting", "attempts"} -> AttemptsTypeOK
         [] scenario \in {"submitting", "retention"} -> SubmissionsTypeOK
         [] OTHER -> CoursesTypeOK

=============================================================================
