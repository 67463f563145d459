---------------------------- MODULE Submissions ----------------------------
(***************************************************************************)
(* One student's submission to one assignment: drafting, handing in,       *)
(* attachments, grading and reopening on loaded copies, and the retention  *)
(* of its files: a free window after grading, extensions a teacher pays    *)
(* for, a reminder before the end and the daily purge.  A day is a step of *)
(* `today`; bytes and rows of a file are separate.                         *)
(***************************************************************************)
EXTENDS CreditLedger, FiniteSets

CONSTANTS
    StudentFiles, FeedbackFiles,   \* attachment ids by kind
    MaxFiles,       \* ATTACHMENT_MAX_FILES
    MaxText,        \* bound on versions of the text (exploration only)
    BaseDays,       \* ATTACHMENT_RETENTION_DAYS_AFTER_GRADED
    ExtensionDays,  \* RETENTION_EXTENSION_DAYS
    ReminderDays,   \* RETENTION_REMINDER_DAYS_BEFORE
    LastDay,        \* bound on time (exploration only)
    RetentionRefs,  \* fresh billing_refs of extensions
    ExtensionPrice  \* estimate_retention_extension

ASSUME SubmissionsAssumption ==
    /\ RetentionRefs \subseteq Refs /\ ExtensionPrice \in Nat
    /\ BaseDays \in Nat /\ ExtensionDays \in Nat /\ MaxText \in Nat /\ LastDay \in Nat \ {0}

VARIABLES
    assignment,           \* assignments.status
    submission,           \* assignment_submissions
    files, stored, spent, \* attachment rows, bytes in storage, ids used up
    completed,            \* lesson_progress.is_completed
    pupil, tutor, purge, remind,   \* requests and tasks in flight
    today,
    seenText, crossed,    \* history: the text that was graded; written meanwhile
    anchor, granted, lapped,       \* history: deadline before the extensions, their number
    premature, torn       \* history: purged before the deadline; moved during a purge

submissionVars == <<assignment, submission, files, stored, spent, completed, pupil,
                    tutor, purge, remind, today, seenText, crossed, anchor, granted,
                    lapped, premature, torn, ledgerVars>>

Never == 0
SubmissionRow == [status : {"absent", "draft", "submitted", "returned"}, text : 0..MaxText,
                  gradedAt : Nat, retain : Nat, reminded : BOOLEAN]
NoSubmission == [status |-> "absent", text |-> 0, gradedAt |-> Never,
                 retain |-> Never, reminded |-> FALSE]
Resting == [pc |-> "idle", row |-> NoSubmission, files |-> {}, ref |-> "none"]

Flushes(loaded, new) ==
    submission' = [f \in DOMAIN new |->
        IF new[f] # loaded[f] THEN new[f] ELSE submission[f]]

(* effective_deadline and the purge and reminder conditions built on it.   *)
Deadline(row) ==
    IF row.retain # Never THEN row.retain
    ELSE IF row.gradedAt = Never THEN Never ELSE row.gradedAt + BaseDays

Expired_BaseOnly(row) == row.gradedAt # Never /\ row.gradedAt + BaseDays < today
Expired(row) == row.gradedAt # Never /\ Deadline(row) < today

ReminderDue(row) ==
    /\ row.gradedAt # Never /\ ~row.reminded
    /\ Deadline(row) < today + ReminderDays /\ ~(Deadline(row) < today)

Locked_Never(row) == FALSE
Locked(row) == row.status = "returned"

-----------------------------------------------------------------------------
(* The student's requests: get_or_create_submission commits a draft row,   *)
(* the rest works on the copy.                                             *)
PupilLoads(pc) ==
    LET row == IF submission.status = "absent"
               THEN [submission EXCEPT !.status = "draft"] ELSE submission
    IN  /\ pupil.pc = "idle" /\ assignment = "published" /\ ~Locked(row)
        /\ submission' = row
        /\ pupil' = [Resting EXCEPT !.pc = pc, !.row = row, !.files = files]
        /\ UNCHANGED <<assignment, files, stored, spent, completed, tutor, purge, remind,
                       today, seenText, crossed, anchor, granted, lapped, premature,
                       torn, ledgerVars>>

(* get_own_submission, for removing a file: published or not.              *)
PupilOpens ==
    /\ pupil.pc = "idle" /\ submission.status # "absent" /\ ~Locked(submission)
    /\ pupil' = [Resting EXCEPT !.pc = "removing", !.row = submission, !.files = files]
    /\ UNCHANGED <<assignment, submission, files, stored, spent, completed, tutor, purge,
                   remind, today, seenText, crossed, anchor, granted, lapped, premature,
                   torn, ledgerVars>>

SaveDraft(text) ==
    /\ pupil.pc = "saving" /\ Flushes(pupil.row, [pupil.row EXCEPT !.text = text])
    /\ pupil' = Resting
    /\ UNCHANGED <<assignment, files, stored, spent, completed, tutor, purge, remind, today,
                   seenText, crossed, anchor, granted, lapped, premature, torn, ledgerVars>>

Submit(text) ==
    /\ pupil.pc = "submitting"
    /\ text # 0 \/ pupil.files \cap StudentFiles # {}
    /\ Flushes(pupil.row, [pupil.row EXCEPT !.text = text, !.status = "submitted"])
    /\ pupil' = Resting
    /\ UNCHANGED <<assignment, files, stored, spent, completed, tutor, purge, remind, today,
                   seenText, crossed, anchor, granted, lapped, premature, torn, ledgerVars>>

(* add_attachment by student or teacher: the bytes first, then the row.    *)
StoreBytes(me, kind) ==
    /\ Cardinality(me.files \cap kind) < MaxFiles
    /\ kind \ spent # {}
    /\ LET f == CHOOSE x \in kind \ spent : TRUE
       IN  stored' = stored \cup {f} /\ spent' = spent \cup {f}

PupilStores ==
    /\ pupil.pc = "uploading"
    /\ StoreBytes(pupil, StudentFiles)
    /\ pupil' = [pupil EXCEPT !.pc = "inserting", !.files = spent' \ spent]
    /\ UNCHANGED <<assignment, submission, files, completed, tutor, purge, remind, today,
                   seenText, crossed, anchor, granted, lapped, premature, torn, ledgerVars>>

PupilInserts ==
    /\ pupil.pc = "inserting"
    /\ files' = files \cup pupil.files
    /\ pupil' = Resting
    /\ UNCHANGED <<assignment, submission, stored, spent, completed, tutor, purge, remind,
                   today, seenText, crossed, anchor, granted, lapped, premature, torn,
                   ledgerVars>>

(* remove_attachment: the bytes first, then the row.                       *)
PupilUnstores(f) ==
    /\ pupil.pc = "removing" /\ f \in pupil.files \cap StudentFiles
    /\ stored' = stored \ {f}
    /\ pupil' = [pupil EXCEPT !.pc = "deleting", !.files = {f}]
    /\ UNCHANGED <<assignment, submission, files, spent, completed, tutor, purge, remind,
                   today, seenText, crossed, anchor, granted, lapped, premature, torn,
                   ledgerVars>>

PupilDeletes ==
    /\ pupil.pc = "deleting"
    /\ files' = files \ pupil.files
    /\ pupil' = Resting
    /\ UNCHANGED <<assignment, submission, stored, spent, completed, tutor, purge, remind,
                   today, seenText, crossed, anchor, granted, lapped, premature, torn,
                   ledgerVars>>

PupilGivesUp ==
    /\ pupil.pc # "idle" /\ pupil' = Resting
    /\ UNCHANGED <<assignment, submission, files, stored, spent, completed, tutor, purge,
                   remind, today, seenText, crossed, anchor, granted, lapped, premature,
                   torn, ledgerVars>>

-----------------------------------------------------------------------------
SetStatus(status) ==
    /\ assignment \notin {status, "gone"} /\ assignment' = status
    /\ UNCHANGED <<submission, files, stored, spent, completed, pupil, tutor, purge,
                   remind, today, seenText, crossed, anchor, granted, lapped, premature,
                   torn, ledgerVars>>

TutorLoads(pc) ==
    /\ tutor.pc = "idle" /\ submission.status # "absent"
    /\ tutor' = [Resting EXCEPT !.pc = pc, !.row = submission, !.files = files]
    /\ UNCHANGED <<assignment, submission, files, stored, spent, completed, pupil, purge,
                   remind, today, seenText, crossed, anchor, granted, lapped, premature,
                   torn, ledgerVars>>

(* grade_submission: refused for a draft; passing completes the lesson.    *)
Grade(passed) ==
    /\ tutor.pc = "grading" /\ tutor.row.status # "draft"
    /\ Flushes(tutor.row, [tutor.row EXCEPT !.status = "returned", !.gradedAt = today])
    /\ completed' = (completed \/ passed)
    /\ seenText' = tutor.row.text
    /\ crossed' = (pupil.pc # "idle" \/ submission.text # tutor.row.text)
    /\ anchor' = IF submission.retain = Never THEN Never ELSE anchor
    /\ torn' = (torn \/ purge.pc # "idle")
    /\ tutor' = Resting
    /\ UNCHANGED <<assignment, files, stored, spent, pupil, purge, remind, today, granted,
                   lapped, premature, ledgerVars>>

(* reopen_submission keeps grade, graded_at and deadline on the row.       *)
Reopen ==
    /\ tutor.pc = "reopening"
    /\ Flushes(tutor.row, [tutor.row EXCEPT !.status = "submitted"])
    /\ tutor' = Resting
    /\ UNCHANGED <<assignment, files, stored, spent, completed, pupil, purge, remind, today,
                   seenText, crossed, anchor, granted, lapped, premature, torn, ledgerVars>>

TutorStores ==
    /\ tutor.pc = "uploading"
    /\ StoreBytes(tutor, FeedbackFiles)
    /\ tutor' = [tutor EXCEPT !.pc = "inserting", !.files = spent' \ spent]
    /\ UNCHANGED <<assignment, submission, files, completed, pupil, purge, remind, today,
                   seenText, crossed, anchor, granted, lapped, premature, torn, ledgerVars>>

TutorInserts ==
    /\ tutor.pc = "inserting"
    /\ files' = files \cup tutor.files
    /\ tutor' = Resting
    /\ UNCHANGED <<assignment, submission, stored, spent, completed, pupil, purge, remind,
                   today, seenText, crossed, anchor, granted, lapped, premature, torn,
                   ledgerVars>>

(* remove_attachment by the teacher.                                       *)
TutorUnstores(f) ==
    /\ tutor.pc = "removing" /\ f \in tutor.files \cap FeedbackFiles
    /\ stored' = stored \ {f}
    /\ tutor' = [tutor EXCEPT !.pc = "deleting", !.files = {f}]
    /\ UNCHANGED <<assignment, submission, files, spent, completed, pupil, purge, remind,
                   today, seenText, crossed, anchor, granted, lapped, premature, torn,
                   ledgerVars>>

TutorDeletes ==
    /\ tutor.pc = "deleting"
    /\ files' = files \ tutor.files
    /\ tutor' = Resting
    /\ UNCHANGED <<assignment, submission, stored, spent, completed, pupil, purge, remind,
                   today, seenText, crossed, anchor, granted, lapped, premature, torn,
                   ledgerVars>>

(* delete_assignment: every file's bytes, then the row with its cascade.   *)
AssignmentUnstores ==
    /\ tutor.pc = "dropping"
    /\ stored' = stored \ files
    /\ tutor' = [tutor EXCEPT !.pc = "dropped"]
    /\ UNCHANGED <<assignment, submission, files, spent, completed, pupil, purge, remind,
                   today, seenText, crossed, anchor, granted, lapped, premature, torn,
                   ledgerVars>>

AssignmentDeletes ==
    /\ tutor.pc = "dropped"
    /\ submission' = NoSubmission /\ files' = {} /\ assignment' = "gone"
    /\ tutor' = Resting /\ pupil' = Resting
    /\ UNCHANGED <<stored, spent, completed, purge, remind, today, seenText, crossed,
                   anchor, granted, lapped, premature, torn, ledgerVars>>

-----------------------------------------------------------------------------
(* extend_retention: refused without files, paid by reserve and charge;    *)
(* the new deadline counts from the one this request has loaded.           *)
ExtendReserves(ref) ==
    /\ tutor.pc = "extending" /\ tutor.row.gradedAt # Never /\ files # {}
    /\ ledger[ref].reserves = 0
    /\ ReserveCredits(ref, ExtensionPrice)
    /\ tutor' = [tutor EXCEPT !.pc = "paying", !.ref = ref]
    /\ UNCHANGED <<assignment, submission, files, stored, spent, completed, pupil, purge,
                   remind, today, seenText, crossed, anchor, granted, lapped, premature, torn>>

Extended_FromToday(row) == today + ExtensionDays
Extended(row) == Deadline(row) + ExtensionDays

ExtendCommits ==
    LET new == [tutor.row EXCEPT !.retain = Extended(tutor.row), !.reminded = FALSE] IN
    /\ tutor.pc = "paying"
    /\ Flushes(tutor.row, new)
    /\ anchor' = IF granted = 0 THEN Deadline(tutor.row) ELSE anchor
    /\ granted' = granted + 1
    /\ lapped' = (lapped \/ Deadline(tutor.row) # Deadline(submission))
    /\ torn' = (torn \/ purge.pc # "idle")
    /\ tutor' = [tutor EXCEPT !.pc = "charging"]
    /\ UNCHANGED <<assignment, files, stored, spent, completed, pupil, purge, remind, today,
                   seenText, crossed, premature, ledgerVars>>

ExtendFails ==
    /\ tutor.pc = "paying"
    /\ ReleaseCredits(tutor.ref, ExtensionPrice)
    /\ tutor' = Resting
    /\ UNCHANGED <<assignment, submission, files, stored, spent, completed, pupil, purge,
                   remind, today, seenText, crossed, anchor, granted, lapped, premature, torn>>

ExtendCharges ==
    /\ tutor.pc = "charging"
    /\ ChargeCredits(tutor.ref, ExtensionPrice)
    /\ tutor' = Resting
    /\ UNCHANGED <<assignment, submission, files, stored, spent, completed, pupil, purge,
                   remind, today, seenText, crossed, anchor, granted, lapped, premature, torn>>

TutorGivesUp ==
    /\ tutor.pc # "idle" /\ tutor' = Resting
    /\ UNCHANGED <<assignment, submission, files, stored, spent, completed, pupil, purge,
                   remind, today, seenText, crossed, anchor, granted, lapped, premature,
                   torn, ledgerVars>>

-----------------------------------------------------------------------------
(* _purge_expired_submission_attachments: selected once, then one file     *)
(* after the other: bytes, row; committed at the end.                      *)
RetentionScans ==
    /\ purge.pc = "idle" /\ Expired(submission) /\ files # {}
    /\ purge' = [Resting EXCEPT !.pc = "purging", !.files = files]
    /\ UNCHANGED <<assignment, submission, files, stored, spent, completed, pupil, tutor,
                   remind, today, seenText, crossed, anchor, granted, lapped, premature,
                   torn, ledgerVars>>

PurgeBytes(f) ==
    /\ purge.pc = "purging" /\ f \in purge.files \cap stored
    /\ stored' = stored \ {f}
    /\ premature' = (premature \/ (assignment # "gone" /\ ~Expired(submission)))
    /\ UNCHANGED <<assignment, submission, files, spent, completed, pupil, tutor, purge,
                   remind, today, seenText, crossed, anchor, granted, lapped, torn,
                   ledgerVars>>

PurgeCommits ==
    /\ purge.pc = "purging" /\ purge.files \cap stored = {}
    /\ files' = files \ purge.files
    /\ purge' = Resting
    /\ UNCHANGED <<assignment, submission, stored, spent, completed, pupil, tutor, remind,
                   today, seenText, crossed, anchor, granted, lapped, premature, torn,
                   ledgerVars>>

(* A dead worker, or a rollback because one of the rows is gone.           *)
PurgeRollsBack ==
    /\ purge.pc = "purging" /\ purge' = Resting
    /\ UNCHANGED <<assignment, submission, files, stored, spent, completed, pupil, tutor,
                   remind, today, seenText, crossed, anchor, granted, lapped, premature,
                   torn, ledgerVars>>

(* notify_expiring_attachments: the flag is committed once the mail is     *)
(* queued, and rolled back when it is not.                                 *)
RemindScans ==
    /\ remind.pc = "idle" /\ ReminderDue(submission)
    /\ remind' = [Resting EXCEPT !.pc = "mailing", !.row = submission]
    /\ UNCHANGED <<assignment, submission, files, stored, spent, completed, pupil, tutor,
                   purge, today, seenText, crossed, anchor, granted, lapped, premature,
                   torn, ledgerVars>>

RemindMails ==
    /\ remind.pc = "mailing"
    /\ \/ submission.status = "absent" /\ UNCHANGED submission
       \/ /\ submission.status # "absent"
          /\ Flushes(remind.row, [remind.row EXCEPT !.reminded = TRUE])
       \/ UNCHANGED submission
    /\ remind' = Resting
    /\ UNCHANGED <<assignment, files, stored, spent, completed, pupil, tutor, purge, today,
                   seenText, crossed, anchor, granted, lapped, premature, torn, ledgerVars>>

DayPasses ==
    /\ today < LastDay /\ today' = today + 1
    /\ UNCHANGED <<assignment, submission, files, stored, spent, completed, pupil, tutor,
                   purge, remind, seenText, crossed, anchor, granted, lapped, premature,
                   torn, ledgerVars>>

SubmittingNext ==
    \/ \E pc \in {"saving", "submitting", "uploading"} : PupilLoads(pc)
    \/ PupilOpens
    \/ \E text \in 0..MaxText : SaveDraft(text) \/ Submit(text)
    \/ PupilStores \/ PupilInserts \/ PupilDeletes \/ PupilGivesUp
    \/ \E f \in StudentFiles : PupilUnstores(f)
    \/ \E status \in {"draft", "published"} : SetStatus(status)
    \/ \E pc \in {"uploading", "removing"} : TutorLoads(pc)
    \/ TutorStores \/ TutorInserts \/ TutorDeletes
    \/ \E f \in FeedbackFiles : TutorUnstores(f)

ReviewNext ==
    \/ \E pc \in {"grading", "reopening"} : TutorLoads(pc)
    \/ \E passed \in BOOLEAN : Grade(passed)
    \/ Reopen \/ TutorGivesUp

RetentionNext ==
    \/ \E pc \in {"dropping", "extending"} : TutorLoads(pc)
    \/ AssignmentUnstores \/ AssignmentDeletes
    \/ \E ref \in RetentionRefs : ExtendReserves(ref)
    \/ ExtendCommits \/ ExtendFails \/ ExtendCharges
    \/ RetentionScans \/ PurgeCommits \/ PurgeRollsBack
    \/ \E f \in StudentFiles \cup FeedbackFiles : PurgeBytes(f)
    \/ RemindScans \/ RemindMails \/ DayPasses

SubmissionsNext == SubmittingNext \/ ReviewNext \/ RetentionNext

SubmissionsInit ==
    /\ assignment = "published" /\ submission = NoSubmission
    /\ files = {} /\ stored = {} /\ spent = {} /\ completed = FALSE
    /\ pupil = Resting /\ tutor = Resting /\ purge = Resting /\ remind = Resting
    /\ today = 1 /\ seenText = 0 /\ crossed = FALSE
    /\ anchor = Never /\ granted = 0 /\ lapped = FALSE
    /\ premature = FALSE /\ torn = FALSE

(* From an assignment just published, with credits for extensions.         *)
SubmissionsSpec ==
    SubmissionsInit /\ AccountFunded /\ [][SubmissionsNext]_submissionVars

-----------------------------------------------------------------------------
SubmissionsTypeOK ==
    /\ assignment \in {"draft", "published", "gone"} /\ submission \in SubmissionRow
    /\ files \cup stored \subseteq spent /\ spent \subseteq StudentFiles \cup FeedbackFiles
    /\ today \in 1..LastDay /\ granted \in Nat /\ anchor \in Nat
    /\ {completed, crossed, lapped, premature, torn} \subseteq BOOLEAN

(* A returned submission holds the text its grade was given for: the 409   *)
(* on locked rows is only passed by a request that loaded the row before   *)
(* the grade came.                                                         *)
GradedWorkStands ==
    submission.status = "returned" /\ ~crossed => submission.text = seenText

(* Files go only after the deadline in force, unless a grade or an         *)
(* extension moved it during the purge; "Extensions stack, so calling it   *)
(* twice buys twice the time", unless two requests extend the same         *)
(* deadline; and nobody is charged for an extension that was not made.     *)
RetentionKept ==
    /\ premature => torn
    /\ assignment # "gone" /\ granted > 0 /\ ~lapped =>
          Deadline(submission) = anchor + granted * ExtensionDays
    /\ assignment # "gone" =>
          Cardinality({ref \in RetentionRefs : ledger[ref].charged > 0}) <= granted

(* Both at once: what was graded stays what was graded, and files stay for *)
(* as long as they were promised and paid for.                             *)
GradedAndKept == GradedWorkStands /\ RetentionKept

=============================================================================
