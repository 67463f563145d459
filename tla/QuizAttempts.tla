---------------------------- MODULE QuizAttempts ----------------------------
(***************************************************************************)
(* One student's attempts at one quiz and their grading: closed questions  *)
(* are graded inside submit, open ones by a task that meters every answer  *)
(* (free monthly slot, else a credit hold, else manual review), asks the   *)
(* language model and writes scores, attempt and lesson progress in one    *)
(* commit.  Requests and tasks work on rows they loaded earlier; a commit  *)
(* writes the columns that differ from what was loaded.                    *)
(***************************************************************************)
EXTENDS CreditLedger, FiniteSets

CONSTANTS
    Attempts,       \* quiz_attempts rows that may come to exist
    Starters,       \* start_attempt requests
    Submitters,     \* submit_attempt requests; each open one has a task
    AttemptsAllowed,\* quizzes.attempts_allowed
    PassScore,      \* pass_threshold, in points
    GradeRefs,      \* fresh billing_refs of grading holds
    GradeCost,      \* CREDIT_WEIGHTS["quiz_grade_overage"]
    FreeGrades,     \* AI_GRADING_FREE_ANSWERS_PER_MONTH
    DailyGrades,    \* GRADING_MAX_ATTEMPTS_PER_QUIZ_PER_DAY
    MaxEdits,       \* bound on teacher writes and late saves (exploration only)
    MaxGradeFaults  \* bound on dead workers and refusals (exploration only)

ASSUME GradingAssumption ==
    /\ GradeRefs \subseteq Refs \ {"none"} /\ GradeCost \in Nat \ {0}
    /\ FreeGrades \in Nat /\ DailyGrades \in Nat /\ AttemptsAllowed \in Nat
    /\ IsFiniteSet(Attempts) /\ Attempts # {} /\ AttemptsAllowed <= Cardinality(Attempts)

VARIABLES
    openQuiz,   \* the quiz has an open question next to the closed one
    attempt,    \* quiz_attempts
    answer,     \* quiz_answers, per attempt and question
    progress,   \* the student's lesson_progress row
    starter, submitter, grader, editing,    \* requests and tasks in flight
    daySlots, freeSlots,                    \* usage counters
    edits, gradeFaults

gradingVars == <<openQuiz, attempt, answer, progress, starter, submitter,
                 grader, editing, daySlots, freeSlots, edits, gradeFaults>>
attemptVars == <<gradingVars, ledgerVars>>

Null == -1
Checked == -1    \* a start request between its two queries
Points == {Null, 0, 1}
Questions2 == IF openQuiz THEN {"closed", "open"} ELSE {"closed"}

AttemptRow == [status : {"absent", "in_progress", "submitted", "graded"},
               number : Nat, score : {Null, 0, 1, 2}]
AnswerRow == [exists : BOOLEAN, right : BOOLEAN, awarded : Points,
              review : BOOLEAN, manual : BOOLEAN]
Sheet == [{"closed", "open"} -> AnswerRow]
ProgressRow == [exists : BOOLEAN, best : {Null, 0, 1, 2}, done : BOOLEAN]

NoAttempt == [status |-> "absent", number |-> 0, score |-> Null]
NoAnswer == [exists |-> FALSE, right |-> FALSE, awarded |-> Null,
             review |-> FALSE, manual |-> FALSE]
BlankSheet == [q \in {"closed", "open"} |-> NoAnswer]
NoProgress == [exists |-> FALSE, best |-> Null, done |-> FALSE]

(* The unit of work: columns that differ from the loaded ones are written. *)
Flushed(loaded, new, current) ==
    [f \in DOMAIN new |-> IF new[f] # loaded[f] THEN new[f] ELSE current[f]]

FlushedSheet(loaded, new, current) ==
    [q \in DOMAIN new |-> Flushed(loaded[q], new[q], current[q])]

(* aggregate_score with equal weights; what is not awarded counts zero.    *)
Aggregate(sheet) ==
    SumFunction([q \in Questions2 |-> NonNeg(sheet[q].awarded)])

Passed(score) == score >= PassScore

(* _mark_lesson_progress_if_passed and _mark_progress_passed.              *)
Marked_Latest(row, score) ==
    [row EXCEPT !.exists = TRUE, !.best = score, !.done = Passed(score)]

Marked(row, score) ==
    IF Passed(score)
    THEN [exists |-> TRUE, done |-> TRUE,
          best |-> IF score > row.best THEN score ELSE row.best]
    ELSE row

Idle == [pc |-> "idle", a |-> CHOOSE a \in Attempts : TRUE, row |-> NoAttempt,
         sheet |-> BlankSheet, prog |-> NoProgress, ref |-> "none", mark |-> Null]

-----------------------------------------------------------------------------
Existing == {a \in Attempts : attempt[a].status # "absent"}

(* start_attempt: an open attempt is looked for, then the attempts are     *)
(* counted, then the row is inserted; UNIQUE (quiz, student, number)       *)
(* refuses the loser of a double click.                                    *)
StartChecks(s) ==
    /\ starter[s] = 0
    /\ \A a \in Existing : attempt[a].status # "in_progress"
    /\ starter' = [starter EXCEPT ![s] = Checked]
    /\ UNCHANGED <<openQuiz, attempt, answer, progress, submitter, grader,
                   editing, daySlots, freeSlots, edits, gradeFaults, ledgerVars>>

StartCounts(s) ==
    LET used == Cardinality(Existing) IN
    /\ starter[s] = Checked
    /\ starter' = [starter EXCEPT ![s] = IF used < AttemptsAllowed THEN used + 1 ELSE 0]
    /\ UNCHANGED <<openQuiz, attempt, answer, progress, submitter, grader,
                   editing, daySlots, freeSlots, edits, gradeFaults, ledgerVars>>

NumberFree_Unchecked(n) == TRUE

NumberFree(n) == \A a \in Existing : attempt[a].number # n

StartInserts(s) ==
    /\ starter[s] > 0
    /\ IF NumberFree(starter[s])
       THEN LET a == CHOOSE x \in Attempts : attempt[x].status = "absent"
            IN  attempt' = [attempt EXCEPT ![a] =
                    [status |-> "in_progress", number |-> starter[s], score |-> Null]]
       ELSE UNCHANGED attempt
    /\ starter' = [starter EXCEPT ![s] = 0]
    /\ UNCHANGED <<openQuiz, answer, progress, submitter, grader,
                   editing, daySlots, freeSlots, edits, gradeFaults, ledgerVars>>

(* save_attempt_progress on an attempt it loaded in progress.              *)
SaveLoads(a) ==
    /\ editing.pc = "idle"
    /\ edits < MaxEdits
    /\ attempt[a].status = "in_progress"
    /\ edits' = edits + 1
    /\ editing' = [Idle EXCEPT !.pc = "saving", !.a = a, !.sheet = answer[a]]
    /\ UNCHANGED <<openQuiz, attempt, answer, progress, starter, submitter, grader,
                   daySlots, freeSlots, gradeFaults, ledgerVars>>

(* An insert beside rows created meanwhile violates UNIQUE (attempt,       *)
(* question): the request fails.                                           *)
SaveWrites ==
    LET me == editing
        new == [q \in DOMAIN me.sheet |->
                    IF q \in Questions2
                    THEN [me.sheet[q] EXCEPT !.exists = TRUE, !.right = TRUE]
                    ELSE me.sheet[q]]
        clash == \E q \in Questions2 : answer[me.a][q].exists # me.sheet[q].exists
    IN  /\ me.pc = "saving"
        /\ answer' = IF clash THEN answer
                     ELSE [answer EXCEPT ![me.a] = FlushedSheet(me.sheet, new, @)]
        /\ editing' = Idle
        /\ UNCHANGED <<openQuiz, attempt, progress, starter, submitter, grader,
                       daySlots, freeSlots, edits, gradeFaults, ledgerVars>>

-----------------------------------------------------------------------------
SubmitLoads(u, a) ==
    /\ submitter[u].pc = "idle"
    /\ attempt[a].status = "in_progress"
    /\ submitter' = [submitter EXCEPT ![u] =
            [Idle EXCEPT !.pc = IF openQuiz THEN "metering" ELSE "marking",
                         !.a = a, !.row = attempt[a], !.sheet = answer[a]]]
    /\ UNCHANGED <<openQuiz, attempt, answer, progress, starter, grader, editing,
                   daySlots, freeSlots, edits, gradeFaults, ledgerVars>>

(* _reserve_grading_slot: one daily slot, never given back.                *)
SubmitTakesSlot(u) ==
    /\ submitter[u].pc = "metering"
    /\ IF daySlots < DailyGrades
       THEN /\ daySlots' = daySlots + 1
            /\ submitter' = [submitter EXCEPT ![u].pc = "writing"]
       ELSE /\ submitter' = [submitter EXCEPT ![u] = Idle]
            /\ UNCHANGED daySlots
    /\ UNCHANGED <<openQuiz, attempt, answer, progress, starter, grader, editing,
                   freeSlots, edits, gradeFaults, ledgerVars>>

(* Without open questions: get_or_create_lesson_progress before the commit.*)
SubmitReadsProgress(u) ==
    /\ submitter[u].pc = "marking"
    /\ submitter' = [submitter EXCEPT ![u].pc = "writing", ![u].prog = progress]
    /\ UNCHANGED <<openQuiz, attempt, answer, progress, starter, grader, editing,
                   daySlots, freeSlots, edits, gradeFaults, ledgerVars>>

(* grade_question on the closed one; the open one waits for review.        *)
Provisional(sheet) ==
    [q \in DOMAIN sheet |->
        IF q \notin Questions2 THEN sheet[q]
        ELSE IF q = "open"
        THEN [sheet[q] EXCEPT !.exists = TRUE, !.awarded = Null, !.review = TRUE]
        ELSE [sheet[q] EXCEPT !.exists = TRUE, !.review = FALSE,
                              !.awarded = IF sheet[q].right THEN 1 ELSE 0]]

SubmitWrites(u) ==
    LET me == submitter[u]
        new == Provisional(me.sheet)
        score == Aggregate(new)
        row == [me.row EXCEPT !.score = score,
                    !.status = IF openQuiz THEN "submitted" ELSE "graded"]
        clash == \E q \in Questions2 : answer[me.a][q].exists # me.sheet[q].exists
    IN  /\ me.pc = "writing"
        /\ IF clash
           THEN /\ submitter' = [submitter EXCEPT ![u] = Idle]
                /\ UNCHANGED <<attempt, answer, progress>>
           ELSE /\ answer' = [answer EXCEPT ![me.a] = FlushedSheet(me.sheet, new, @)]
                /\ attempt' = [attempt EXCEPT ![me.a] = Flushed(me.row, row, @)]
                /\ progress' = IF openQuiz THEN progress
                               ELSE Flushed(me.prog, Marked(me.prog, score), progress)
                /\ submitter' = [submitter EXCEPT ![u] =
                        [Idle EXCEPT !.pc = IF openQuiz THEN "enqueuing" ELSE "done",
                                     !.a = me.a]]
        /\ UNCHANGED <<openQuiz, starter, grader, editing, daySlots, freeSlots, edits,
                       gradeFaults, ledgerVars>>

(* grade_attempt_task.apply_async after the commit.                        *)
SubmitEnqueues(u) ==
    /\ submitter[u].pc = "enqueuing"
    /\ grader' = [grader EXCEPT ![u] = [Idle EXCEPT !.pc = "queued", !.a = submitter[u].a]]
    /\ submitter' = [submitter EXCEPT ![u] = [Idle EXCEPT !.pc = "done"]]
    /\ UNCHANGED <<openQuiz, attempt, answer, progress, starter, editing, daySlots,
                   freeSlots, edits, gradeFaults, ledgerVars>>

(* The broker refuses: the attempt stays submitted, and nobody grades it   *)
(* but the teacher.                                                        *)
SubmitStrands(u) ==
    /\ submitter[u].pc = "enqueuing"
    /\ gradeFaults < MaxGradeFaults
    /\ gradeFaults' = gradeFaults + 1
    /\ submitter' = [submitter EXCEPT ![u] = [Idle EXCEPT !.pc = "done"]]
    /\ UNCHANGED <<openQuiz, attempt, answer, progress, starter, grader, editing,
                   daySlots, freeSlots, edits, ledgerVars>>

-----------------------------------------------------------------------------
(* grade_attempt_task: the answers are loaded and kept; the open one is    *)
(* graded only while it needs review.                                      *)
GradeLoads(u) ==
    LET a == grader[u].a IN
    /\ grader[u].pc = "queued"
    /\ grader' = [grader EXCEPT ![u].sheet = answer[a], ![u].pc =
                    IF answer[a]["open"].review THEN "metering" ELSE "reading"]
    /\ UNCHANGED <<openQuiz, attempt, answer, progress, starter, submitter, editing,
                   daySlots, freeSlots, edits, gradeFaults, ledgerVars>>

(* _authorize_grading: a free slot, a hold under a fresh ref, or neither.  *)
GradeAuthorized(u) ==
    /\ grader[u].pc = "metering"
    /\ \/ /\ freeSlots < FreeGrades
          /\ freeSlots' = freeSlots + 1
          /\ grader' = [grader EXCEPT ![u].pc = "asking"]
          /\ UNCHANGED ledgerVars
       \/ /\ freeSlots >= FreeGrades
          /\ \E ref \in GradeRefs :
                /\ ledger[ref].reserves = 0
                /\ ReserveCredits(ref, GradeCost)
                /\ grader' = [grader EXCEPT ![u].pc = "asking", ![u].ref = ref]
          /\ UNCHANGED freeSlots
       \/ /\ freeSlots >= FreeGrades
          /\ ~CanReserve(GradeCost)
          /\ grader' = [grader EXCEPT ![u].pc = "reading"]
          /\ UNCHANGED <<freeSlots, ledgerVars>>
    /\ UNCHANGED <<openQuiz, attempt, answer, progress, starter, submitter, editing,
                   daySlots, edits, gradeFaults>>

(* _grade_one_open: a score, or a failure that leaves the answer to the    *)
(* teacher.                                                                *)
GradeAsks(u, mark) ==
    /\ grader[u].pc = "asking"
    /\ grader' = [grader EXCEPT ![u].pc = "reading", ![u].mark = mark]
    /\ UNCHANGED <<openQuiz, attempt, answer, progress, starter, submitter, editing,
                   daySlots, freeSlots, edits, gradeFaults, ledgerVars>>

(* session.refresh(attempt) reloads its columns (not the answers), and the *)
(* progress row is queried.                                                *)
GradeReads(u) ==
    /\ grader[u].pc = "reading"
    /\ grader' = [grader EXCEPT ![u].pc = "committing",
                    ![u].row = attempt[grader[u].a], ![u].prog = progress]
    /\ UNCHANGED <<openQuiz, attempt, answer, progress, starter, submitter, editing,
                   daySlots, freeSlots, edits, gradeFaults, ledgerVars>>

WithMark(sheet, mark) ==
    IF mark = Null THEN sheet
    ELSE [sheet EXCEPT !["open"].awarded = mark, !["open"].review = FALSE]

(* _recompute_attempt counts what the session holds.                       *)
Recomputed_BeforeMarks(loaded, new) == Aggregate(loaded)
Recomputed(loaded, new) == Aggregate(new)

(* Another request inserted the progress row this one is about to insert:  *)
(* its commit would violate UNIQUE (enrollment, lesson).                   *)
LosesRace(loaded, mine) == mine.exists /\ ~loaded.exists /\ progress.exists

GradeCommits(u) ==
    LET me == grader[u]
        new == WithMark(me.sheet, me.mark)
        score == Recomputed(me.sheet, new)
        mine == Marked(me.prog, score)
    IN  /\ me.pc = "committing"
        /\ ~LosesRace(me.prog, mine)
        /\ answer' = [answer EXCEPT ![me.a] = FlushedSheet(me.sheet, new, @)]
        /\ attempt' = [attempt EXCEPT ![me.a] =
                Flushed(me.row, [me.row EXCEPT !.score = score, !.status = "graded"], @)]
        /\ progress' = Flushed(me.prog, mine, progress)
        /\ grader' = [grader EXCEPT ![u] =
                [Idle EXCEPT !.pc = "settling", !.a = me.a, !.ref = me.ref,
                             !.mark = me.mark]]
        /\ UNCHANGED <<openQuiz, starter, submitter, editing, daySlots, freeSlots,
                       edits, gradeFaults, ledgerVars>>

(* _settle_grading: charge what the model graded, release the rest.        *)
SettledMark_Always(u) == GradeCost
SettledMark(u) == IF grader[u].mark # Null THEN GradeCost ELSE 0

GradeSettles(u) ==
    LET ref == grader[u].ref IN
    /\ grader[u].pc = "settling"
    /\ IF ref # "none" /\ CanFinalize(ref)
       THEN FinalizeGeneration(ref, GradeCost, SettledMark(u))
       ELSE UNCHANGED ledgerVars
    /\ grader' = [grader EXCEPT ![u].pc = "ended"]
    /\ UNCHANGED <<openQuiz, attempt, answer, progress, starter, submitter, editing,
                   daySlots, freeSlots, edits, gradeFaults>>

(* Any exception: rolled back; the holds already committed stay.           *)
GradeFails(u) ==
    /\ grader[u].pc \in {"metering", "asking", "reading", "committing"}
    /\ gradeFaults < MaxGradeFaults
    /\ gradeFaults' = gradeFaults + 1
    /\ grader' = [grader EXCEPT ![u] = [Idle EXCEPT !.pc = "failed"]]
    /\ UNCHANGED <<openQuiz, attempt, answer, progress, starter, submitter, editing,
                   daySlots, freeSlots, edits, ledgerVars>>

GradeLosesRace(u) ==
    LET me == grader[u] IN
    /\ me.pc = "committing"
    /\ LosesRace(me.prog,
            Marked(me.prog, Recomputed(me.sheet, WithMark(me.sheet, me.mark))))
    /\ grader' = [grader EXCEPT ![u] = [Idle EXCEPT !.pc = "failed"]]
    /\ UNCHANGED <<openQuiz, attempt, answer, progress, starter, submitter, editing,
                   daySlots, freeSlots, edits, gradeFaults, ledgerVars>>

GradeWorkerDies(u) ==
    /\ grader[u].pc \notin {"idle", "queued", "ended", "failed"}
    /\ gradeFaults < MaxGradeFaults
    /\ gradeFaults' = gradeFaults + 1
    /\ grader' = [grader EXCEPT ![u] = [Idle EXCEPT !.pc = "queued", !.a = grader[u].a]]
    /\ UNCHANGED <<openQuiz, attempt, answer, progress, starter, submitter, editing,
                   daySlots, freeSlots, edits, ledgerVars>>

-----------------------------------------------------------------------------
(* override_answer_score: one answer of an attempt, and the attempt's score*)
(* from the answers this request loaded.                                   *)
OverrideLoads(a) ==
    /\ editing.pc = "idle"
    /\ edits < MaxEdits
    /\ \E q \in Questions2 : answer[a][q].exists
    /\ edits' = edits + 1
    /\ editing' = [Idle EXCEPT !.pc = "overriding", !.a = a,
                               !.row = attempt[a], !.sheet = answer[a]]
    /\ UNCHANGED <<openQuiz, attempt, answer, progress, starter, submitter, grader,
                   daySlots, freeSlots, gradeFaults, ledgerVars>>

OverrideWrites(q, points) ==
    LET me == editing
        new == [me.sheet EXCEPT ![q].awarded = points, ![q].review = FALSE,
                                ![q].manual = TRUE]
        row == [me.row EXCEPT !.score = Aggregate(new),
                    !.status = IF \A p \in Questions2 : ~new[p].review
                               THEN "graded" ELSE @]
    IN  /\ me.pc = "overriding"
        /\ me.sheet[q].exists
        /\ answer' = [answer EXCEPT ![me.a] = FlushedSheet(me.sheet, new, @)]
        /\ attempt' = [attempt EXCEPT ![me.a] = Flushed(me.row, row, @)]
        /\ editing' = Idle
        /\ UNCHANGED <<openQuiz, progress, starter, submitter, grader, daySlots,
                       freeSlots, edits, gradeFaults, ledgerVars>>

(* set_student_grade: the teacher's grade decides completion outright.     *)
GradeByHandLoads ==
    /\ editing.pc = "idle"
    /\ edits < MaxEdits
    /\ edits' = edits + 1
    /\ editing' = [Idle EXCEPT !.pc = "byhand", !.prog = progress]
    /\ UNCHANGED <<openQuiz, attempt, answer, progress, starter, submitter, grader,
                   daySlots, freeSlots, gradeFaults, ledgerVars>>

GradeByHandWrites(score) ==
    LET new == [editing.prog EXCEPT !.exists = TRUE, !.done = Passed(score)]
    IN  /\ editing.pc = "byhand"
        /\ progress' = IF LosesRace(editing.prog, new) THEN progress
                       ELSE Flushed(editing.prog, new, progress)
        /\ editing' = Idle
        /\ UNCHANGED <<openQuiz, attempt, answer, starter, submitter, grader,
                       daySlots, freeSlots, edits, gradeFaults, ledgerVars>>

AttemptsNext ==
    \/ \E s \in Starters : StartChecks(s) \/ StartCounts(s) \/ StartInserts(s)
    \/ \E a \in Attempts : SaveLoads(a) \/ OverrideLoads(a)
    \/ SaveWrites
    \/ \E u \in Submitters :
        \/ \E a \in Attempts : SubmitLoads(u, a)
        \/ SubmitTakesSlot(u) \/ SubmitReadsProgress(u) \/ SubmitWrites(u)
        \/ SubmitEnqueues(u) \/ SubmitStrands(u)
        \/ GradeLoads(u) \/ GradeAuthorized(u) \/ GradeReads(u)
        \/ \E mark \in Points : GradeAsks(u, mark)
        \/ GradeCommits(u) \/ GradeSettles(u) \/ GradeFails(u)
        \/ GradeLosesRace(u) \/ GradeWorkerDies(u)
    \/ \E q \in Questions2, points \in {0, 1} : OverrideWrites(q, points)
    \/ GradeByHandLoads
    \/ \E score \in {0, 2} : GradeByHandWrites(score)

AttemptsInit ==
    /\ openQuiz \in BOOLEAN
    /\ attempt = [a \in Attempts |-> NoAttempt]
    /\ answer = [a \in Attempts |-> BlankSheet]
    /\ progress = NoProgress
    /\ starter = [s \in Starters |-> 0]
    /\ submitter = [u \in Submitters |-> Idle]
    /\ grader = [u \in Submitters |-> Idle]
    /\ editing = Idle
    /\ daySlots = 0 /\ freeSlots = 0 /\ edits = 0 /\ gradeFaults = 0

(* From a quiz nobody has attempted, with the teacher's credits.           *)
AttemptsSpec ==
    AttemptsInit /\ AccountFunded /\ [][AttemptsNext]_attemptVars

-----------------------------------------------------------------------------
AttemptsTypeOK ==
    /\ attempt \in [Attempts -> AttemptRow]
    /\ answer \in [Attempts -> Sheet]
    /\ progress \in ProgressRow
    /\ daySlots \in 0..DailyGrades /\ freeSlots \in 0..FreeGrades

(* Double clicks on "start" never give a student more attempts than the    *)
(* quiz allows.                                                            *)
AttemptsWithinAllowance ==
    Cardinality(Existing) <= AttemptsAllowed

(* A grading task that ended has no hold left, and its hold was charged    *)
(* exactly if the language model graded the answer.                        *)
GradingPaidIfGraded ==
    \A u \in Submitters :
        (grader[u].pc = "ended" /\ grader[u].ref # "none") =>
            /\ Outstanding(grader[u].ref) = 0
            /\ ledger[grader[u].ref].charged > 0 <=> grader[u].mark # Null

Scored(a) == attempt[a].status = "graded" => attempt[a].score = Aggregate(answer[a])

Stale(loaded) ==
    loaded.sheet # answer[loaded.a] \/ loaded.row # attempt[loaded.a]

StaleCopyWritten ==
    \/ editing.pc = "overriding" /\ editing' # editing /\ Stale(editing)
    \/ \E u \in Submitters :
          \/ /\ grader[u].pc = "committing" /\ grader'[u].pc = "settling"
             /\ Stale(grader[u])
          \/ /\ submitter[u].pc = "writing" /\ submitter' # submitter
             /\ Stale(submitter[u])

(* A graded attempt's score is the sum of its answers' scores.  The only   *)
(* steps that part them write over answers that changed since they were    *)
(* loaded: a task or a request that worked on an old copy.                 *)
OnlyStaleCopiesMisscore ==
    [][(\A a \in Attempts : Scored(a) => Scored(a)') \/ StaleCopyWritten]_attemptVars

(* "a later worse attempt never regresses a previously passed lesson":     *)
(* only the teacher's own grade takes completion back.                     *)
CompletionKept ==
    [][progress.done /\ editing.pc # "byhand" => progress'.done]_attemptVars

=============================================================================
