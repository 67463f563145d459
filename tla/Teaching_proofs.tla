--------------------------- MODULE Teaching_proofs ---------------------------
(***************************************************************************)
(* Proofs about the teaching side, for every number of students, attempts, *)
(* requests and credits:                                                   *)
(*   - Courses: who has enrolled keeps the course (CourseKept);            *)
(*   - Submissions: graded work stands, files are kept as promised and a   *)
(*     retention charge bought what it says (GradedWorkKept);              *)
(*   - QuizAttempts: allowances, grading holds, scores and completion      *)
(*     (AllowanceKept, GradingIsPaid, ScoresCounted, CompletionIsKept);    *)
(*   - the instance as a whole: in every scenario it is well formed and    *)
(*     keeps all of these promises (TeachingTypeCorrect,                   *)
(*     TeachingKeepsItsPromises).                                          *)
(* Each component has an inductive invariant of named parts, one lemma per *)
(* action or group of actions that disturb the same parts, and the         *)
(* temporal theorem from those.                                            *)
(***************************************************************************)
EXTENDS MC_Teaching, QuizGeneration_proofs
-----------------------------------------------------------------------------
(* Courses: whoever has enrolled keeps the course.                         *)

(* The columns the argument needs, in their ranges.                        *)
CourseColumns ==
    /\ course \in [exists : BOOLEAN, published : BOOLEAN, archived : BOOLEAN,
                   aged : BOOLEAN, invite : BOOLEAN, code : BOOLEAN]
    /\ enroller \in [Students -> {"idle", "checked", "inserted"}]
    /\ enrolled \subseteq Students /\ everEnrolled = enrolled
    /\ restricting \in [pc : {"idle", "backfilled"}, grants : SUBSET Students]
    /\ coursePurge \in [pc : {"idle", "scanned", "guarded", "emptied"},
                        what : {"course", "owner"}]

(* Students the restricted mode lets in, or whose exclusion is explained.  *)
Explained == grants \cup revoked \cup slipped

(* Nobody enrols, or is enrolling, in a course that is gone.               *)
EnrolledExists == enrolled # {} \/ Enrolling => course.exists

(* While the mode is restricted, everyone enrolled or enrolling is         *)
(* explained; an open request for the mode will explain them, because its  *)
(* backfill covers the committed ones and the others overlap it.           *)
RestrictedExplained ==
    course.invite => \A s \in Students :
        s \in enrolled \/ enroller[s] # "idle" => s \in Explained

BackfillCovers ==
    restricting.pc = "backfilled" => \A s \in Students :
        /\ s \in enrolled => s \in Explained \cup restricting.grants
        /\ enroller[s] # "idle" => s \in slipped

(* The purge that locked the course found nobody and lets nobody in; files *)
(* are gone with the course, or by the purge of its owner.                 *)
LockedEmpty == CourseLocked => enrolled = {} /\ ~Enrolling

MediaGone == media \/ ~course.exists \/ stranded \/ coursePurge.pc = "emptied"

CourseInv ==
    /\ CourseColumns /\ EnrolledExists /\ RestrictedExplained /\ BackfillCovers
    /\ LockedEmpty /\ MediaGone

(* The invariant is what the property says, and more.                      *)
LEMMA CourseInvKeeps == CourseInv => EnrolledKeepTheirCourse
<1> SUFFICES ASSUME CourseInv, NEW s \in everEnrolled
             PROVE  /\ course.exists /\ s \in enrolled
                    /\ HasAccess(s) \/ s \in revoked \cup slipped
                    /\ media \/ stranded \/ coursePurge = [pc |-> "emptied", what |-> "owner"]
  BY DEF EnrolledKeepTheirCourse
<1>1. s \in enrolled /\ s \in Students /\ course.exists
  BY DEF CourseInv, CourseColumns, EnrolledExists
<1>2. HasAccess(s) \/ s \in revoked \cup slipped
  BY <1>1 DEF CourseInv, RestrictedExplained, HasAccess, Explained
<1>3. coursePurge.pc = "emptied" => coursePurge = [pc |-> "emptied", what |-> "owner"]
  BY <1>1 DEF CourseInv, CourseColumns, LockedEmpty, CourseLocked
<1> QED BY <1>1, <1>2, <1>3 DEF CourseInv, MediaGone

(* A student's request keeps the invariant.                                *)
LEMMA EnrolStep ==
    ASSUME CourseInv, NEW s \in Students,
           EnrollChecks(s) \/ EnrollInserts(s) \/ EnrollCommits(s) \/ CompleteLesson(s)
    PROVE  CourseInv'
<1>1. CASE EnrollChecks(s)
  <2>1. CourseColumns' /\ EnrolledExists' /\ MediaGone'
    BY <1>1 DEF EnrollChecks, CourseInv, CourseColumns, EnrolledExists, Enrolling, MediaGone
  <2>2. RestrictedExplained' /\ BackfillCovers'
    BY <1>1 DEF EnrollChecks, CourseInv, CourseColumns, RestrictedExplained,
                BackfillCovers, Explained
  <2>3. LockedEmpty'
    BY <1>1 DEF EnrollChecks, CourseInv, CourseColumns, LockedEmpty, CourseLocked, Enrolling
  <2> QED BY <2>1, <2>2, <2>3 DEF CourseInv
<1>2. CASE EnrollInserts(s)
  <2>1. CourseColumns' /\ EnrolledExists' /\ MediaGone'
    BY <1>2 DEF EnrollInserts, CourseInv, CourseColumns, EnrolledExists, Enrolling,
                MediaGone, historyVars
  <2>2. RestrictedExplained' /\ BackfillCovers'
    BY <1>2 DEF EnrollInserts, CourseInv, CourseColumns, RestrictedExplained,
                BackfillCovers, Explained, historyVars
  <2>3. LockedEmpty'
    BY <1>2 DEF EnrollInserts, LockedEmpty, CourseLocked
  <2> QED BY <2>1, <2>2, <2>3 DEF CourseInv
<1>3. CASE EnrollCommits(s)
  <2>1. CourseColumns' /\ EnrolledExists' /\ MediaGone'
    BY <1>3 DEF EnrollCommits, CourseInv, CourseColumns, EnrolledExists, Enrolling, MediaGone
  <2>2. RestrictedExplained' /\ BackfillCovers'
    BY <1>3 DEF EnrollCommits, CourseInv, CourseColumns, RestrictedExplained,
                BackfillCovers, Explained
  <2>3. LockedEmpty'
    BY <1>3 DEF EnrollCommits, CourseInv, LockedEmpty, CourseLocked, Enrolling
  <2> QED BY <2>1, <2>2, <2>3 DEF CourseInv
<1>4. CASE CompleteLesson(s)
  BY <1>4 DEF CompleteLesson, CourseInv, CourseColumns, EnrolledExists,
              RestrictedExplained, BackfillCovers, Explained, LockedEmpty, MediaGone,
              Enrolling, CourseLocked, flightVars, historyVars
<1> QED BY <1>1, <1>2, <1>3, <1>4

(* The teacher's changes that concern neither access nor existence.        *)
LEMMA EditStep ==
    ASSUME CourseInv, UNCHANGED <<media, enrolled, grants, flightVars, historyVars>>,
           course' \in [exists : BOOLEAN, published : BOOLEAN, archived : BOOLEAN,
                        aged : BOOLEAN, invite : BOOLEAN, code : BOOLEAN],
           course'.exists = course.exists, course'.invite => course.invite
    PROVE  CourseInv'
  BY DEF CourseInv, CourseColumns, EnrolledExists, RestrictedExplained, BackfillCovers,
         Explained, LockedEmpty, MediaGone, Enrolling, CourseLocked, flightVars, historyVars

(* Grants, one by one or from a roster.                                    *)
LEMMA GrantStep ==
    ASSUME CourseInv, NEW s \in Students, Grants(s),
           UNCHANGED <<course, media, enroller, restricting, coursePurge, slipped, stranded>>
    PROVE  CourseInv'
<1>1. CourseColumns' /\ EnrolledExists' /\ MediaGone' /\ LockedEmpty'
  BY DEF Grants, CourseInv, CourseColumns, EnrolledExists, Enrolling, MediaGone,
         LockedEmpty, CourseLocked
<1>2. RestrictedExplained' /\ BackfillCovers'
  BY DEF Grants, CourseInv, RestrictedExplained, BackfillCovers, Explained
<1> QED BY <1>1, <1>2 DEF CourseInv

(* So do the teacher's requests: the publication flags, the access mode     *)
(* and its backfill, grants, revocations and rosters.                       *)
LEMMA TeacherStep ==
    ASSUME CourseInv, TeacherNext
    PROVE  CourseInv'
<1> DEFINE CourseRow == [exists : BOOLEAN, published : BOOLEAN, archived : BOOLEAN,
                         aged : BOOLEAN, invite : BOOLEAN, code : BOOLEAN]
<1>0. course \in CourseRow
  BY DEF CourseInv, CourseColumns
<1>1. CASE TogglePublish \/ DeleteCourse \/ RestoreCourse \/ OpenAccess
  <2>1. course' \in CourseRow /\ course'.exists = course.exists
        /\ (course'.invite => course.invite)
    BY <1>0, <1>1 DEF TogglePublish, DeleteCourse, RestoreCourse, OpenAccess
  <2>2. UNCHANGED <<media, enrolled, grants, flightVars, historyVars>>
    BY <1>1 DEF TogglePublish, DeleteCourse, RestoreCourse, OpenAccess
  <2> QED BY <2>1, <2>2, EditStep
<1>2. CASE PublishContent \/ DeleteContent \/ RosterFails
           \/ \E wanted \in SUBSET Students : RosterLoads(wanted)
  BY <1>2 DEF PublishContent, DeleteContent, RosterFails, RosterLoads, CourseInv,
     CourseColumns, EnrolledExists, RestrictedExplained, BackfillCovers,
     Explained, LockedEmpty, MediaGone, Enrolling, CourseLocked, flightVars, historyVars
<1>3. CASE RestrictBackfills
  <2>1. CourseColumns' /\ EnrolledExists' /\ MediaGone' /\ LockedEmpty'
    BY <1>3 DEF RestrictBackfills, Backfill, CourseInv, CourseColumns, EnrolledExists,
                Enrolling, MediaGone, LockedEmpty, CourseLocked
  <2>2. RestrictedExplained' /\ BackfillCovers'
    BY <1>3 DEF RestrictBackfills, Backfill, CourseInv, RestrictedExplained,
                BackfillCovers, Explained
  <2> QED BY <2>1, <2>2 DEF CourseInv
<1>4. CASE RestrictCommits
  <2>1. CourseColumns' /\ EnrolledExists' /\ MediaGone' /\ LockedEmpty'
    BY <1>0, <1>4 DEF RestrictCommits, CourseInv, CourseColumns, EnrolledExists, Enrolling,
                MediaGone, LockedEmpty, CourseLocked, historyVars
  <2>2. RestrictedExplained' /\ BackfillCovers'
    BY <1>0, <1>4 DEF RestrictCommits, CourseInv, CourseColumns, RestrictedExplained,
                BackfillCovers, Explained, historyVars
  <2> QED BY <2>1, <2>2 DEF CourseInv
<1>5. ASSUME NEW s \in Students, AddAccessGrant(s) \/ RosterGrants(s)
      PROVE  CourseInv'
  <2>1. /\ Grants(s)
        /\ UNCHANGED <<course, media, enroller, restricting, coursePurge, slipped, stranded>>
    BY <1>5 DEF AddAccessGrant, RosterGrants, flightVars
  <2> QED BY <2>1, GrantStep
<1>6. ASSUME NEW s \in Students, RemoveAccessGrant(s)
      PROVE  CourseInv'
  BY <1>6 DEF RemoveAccessGrant, CourseInv, CourseColumns, EnrolledExists,
     RestrictedExplained, BackfillCovers, Explained, LockedEmpty, MediaGone, Enrolling,
     CourseLocked, flightVars
<1> QED BY <1>1, <1>2, <1>3, <1>4, <1>5, <1>6 DEF TeacherNext

(* So do time, the owner's account and the purge.                          *)
LEMMA CoursePurgeStep ==
    ASSUME CourseInv, CoursePurgeNext
    PROVE  CourseInv'
<1>0. /\ course \in [exists : BOOLEAN, published : BOOLEAN, archived : BOOLEAN,
                     aged : BOOLEAN, invite : BOOLEAN, code : BOOLEAN]
      /\ coursePurge \in [pc : {"idle", "scanned", "guarded", "emptied"},
                          what : {"course", "owner"}]
  BY DEF CourseInv, CourseColumns
<1>1. CASE OwnerChanges \/ Ages
  <2>1. /\ course' \in [exists : BOOLEAN, published : BOOLEAN, archived : BOOLEAN,
                        aged : BOOLEAN, invite : BOOLEAN, code : BOOLEAN]
        /\ course'.exists = course.exists
        /\ (course'.invite => course.invite)
    BY <1>0, <1>1 DEF OwnerChanges, Ages
  <2>2. UNCHANGED <<media, enrolled, grants, flightVars, historyVars>>
    BY <1>1 DEF OwnerChanges, Ages
  <2> QED BY <2>1, <2>2, EditStep
<1>2. CASE PurgeScans \/ GuardsCourse \/ GuardsOwner
  <2>1. /\ UNCHANGED <<course, media, enrolled, grants, enroller, restricting, historyVars>>
        /\ coursePurge' \in [pc : {"idle", "scanned", "guarded", "emptied"},
                             what : {"course", "owner"}]
        /\ coursePurge.pc # "emptied"
    BY <1>0, <1>2 DEF PurgeScans, GuardsCourse, GuardsOwner
  <2>2. coursePurge'.pc # "emptied"
    BY <1>0, <1>2 DEF PurgeScans, GuardsCourse, GuardsOwner
  <2>3. CourseLocked' => enrolled = {} /\ ~Enrolling
    BY <1>0, <1>2, <2>2 DEF PurgeScans, GuardsCourse, GuardsOwner, CourseLocked, Purgeable
  <2> QED
    BY <2>1, <2>3 DEF CourseInv, CourseColumns, EnrolledExists,
     RestrictedExplained, BackfillCovers, Explained, LockedEmpty, MediaGone, Enrolling,
     historyVars
<1>3. CASE PurgeEmpties
  BY <1>0, <1>3 DEF PurgeEmpties, CourseInv, CourseColumns, EnrolledExists,
     RestrictedExplained, BackfillCovers, Explained, LockedEmpty, MediaGone, Enrolling,
     CourseLocked, historyVars
<1>4. CASE PurgeDeletes
  <2>0. /\ course' \in {course, NoCourse}
        /\ coursePurge' = [coursePurge EXCEPT !.pc = "idle"]
        /\ UNCHANGED <<enrolled, everEnrolled, enroller, restricting>>
    BY <1>4 DEF PurgeDeletes
  <2>1. CourseColumns'
    <3>1. NoCourse \in [exists : BOOLEAN, published : BOOLEAN, archived : BOOLEAN,
                        aged : BOOLEAN, invite : BOOLEAN, code : BOOLEAN]
      BY DEF NoCourse
    <3>2. /\ course' \in [exists : BOOLEAN, published : BOOLEAN, archived : BOOLEAN,
                           aged : BOOLEAN, invite : BOOLEAN, code : BOOLEAN]
          /\ coursePurge' \in [pc : {"idle", "scanned", "guarded", "emptied"},
                                what : {"course", "owner"}]
      BY <1>0, <2>0, <3>1
    <3> QED BY <2>0, <3>2 DEF CourseInv, CourseColumns
  <2>3. EnrolledExists'
    BY <1>4 DEF PurgeDeletes, CourseInv, EnrolledExists, Enrolling
  <2>4. MediaGone' /\ LockedEmpty'
    BY <1>0, <1>4 DEF PurgeDeletes, NoCourse, MediaGone, LockedEmpty, CourseLocked
  <2>2. RestrictedExplained' /\ BackfillCovers'
    BY <1>0, <1>4 DEF PurgeDeletes, NoCourse, CourseInv, RestrictedExplained,
                BackfillCovers, Explained
  <2> QED BY <2>1, <2>2, <2>3, <2>4 DEF CourseInv
<1> QED BY <1>1, <1>2, <1>3, <1>4 DEF CoursePurgeNext

(* It holds of a course just published, and every step keeps it.           *)
LEMMA CourseStart == CoursesInit => CourseInv
<1> SUFFICES ASSUME CoursesInit PROVE CourseInv
  OBVIOUS
<1>1. CourseColumns
  BY DEF CoursesInit, NoCourse, CourseColumns
<1>2. EnrolledExists /\ RestrictedExplained /\ BackfillCovers
  BY DEF CoursesInit, NoCourse, EnrolledExists, RestrictedExplained, BackfillCovers
<1>3. LockedEmpty /\ MediaGone
  BY DEF CoursesInit, LockedEmpty, CourseLocked, MediaGone
<1> QED BY <1>1, <1>2, <1>3 DEF CourseInv

(* So does whatever students, teachers and the purge do.                    *)
LEMMA CourseStep == CourseInv /\ [CoursesNext]_courseVars => CourseInv'
<1> SUFFICES ASSUME CourseInv, [CoursesNext]_courseVars PROVE CourseInv'
  OBVIOUS
<1>1. CASE EnrolNext
  BY <1>1, EnrolStep DEF EnrolNext
<1>2. CASE UNCHANGED courseVars
  BY <1>2 DEF courseVars, CourseInv, CourseColumns, EnrolledExists,
     RestrictedExplained, BackfillCovers, Explained, LockedEmpty, MediaGone, Enrolling,
     CourseLocked
<1> QED BY <1>1, <1>2, TeacherStep, CoursePurgeStep DEF CoursesNext

(* Whoever has enrolled keeps the course, for any number of students and    *)
(* any number of changes.                                                   *)
THEOREM CourseKept == CoursesSpec => []EnrolledKeepTheirCourse
  BY CourseStart, CourseStep, CourseInvKeeps, PTL DEF CoursesSpec

(* What the type invariant adds: the other columns, and the count of turns. *)
CourseRest ==
    /\ owner \in {"live", "deleted", "aged", "anonymized", "gone"}
    /\ content \in [module : BOOLEAN, modulePublished : BOOLEAN, lesson : BOOLEAN,
                    lessonPublished : BOOLEAN]
    /\ media \in BOOLEAN /\ stranded \in BOOLEAN
Listed ==
    /\ grants \subseteq Students /\ studied \subseteq Students /\ roster \subseteq Students
    /\ revoked \subseteq Students /\ slipped \subseteq Students
TurnsCounted == turns \in 0..MaxTurns

CourseAll == CourseInv /\ CourseRest /\ Listed /\ TurnsCounted

(* A course that was just created.                                          *)
LEMMA CourseAllStart == CoursesInit => CourseAll
<1> SUFFICES ASSUME CoursesInit PROVE CourseRest /\ Listed /\ TurnsCounted
  BY CourseStart DEF CourseAll
<1>1. CourseRest
  BY DEF CoursesInit, CourseRest
<1> QED BY <1>1, CoursesAssumption DEF CoursesInit, Listed, TurnsCounted

(* The owner, the content and the flags stay what they can be.              *)
LEMMA CourseRestStep ==
    ASSUME CourseColumns, CourseRest, CoursesNext
    PROVE  CourseRest'
<1> USE DEF CoursesNext, EnrolNext, TeacherNext, CoursePurgeNext, EnrollChecks, EnrollInserts,
        EnrollCommits, CompleteLesson, TogglePublish, PublishContent, DeleteContent, DeleteCourse,
        RestoreCourse, OpenAccess, RestrictBackfills, RestrictCommits, AddAccessGrant,
        RemoveAccessGrant, RosterGrants, RosterLoads, RosterFails, OwnerChanges, Ages, PurgeScans,
        GuardsCourse, GuardsOwner, PurgeEmpties, PurgeDeletes, historyVars
<1>1. owner' \in {"live", "deleted", "aged", "anonymized", "gone"}
  BY DEF CourseRest
<1>2. content' \in [module : BOOLEAN, modulePublished : BOOLEAN, lesson : BOOLEAN,
                    lessonPublished : BOOLEAN]
  <2>1. PublishContent \/ DeleteContent \/ PurgeDeletes \/ UNCHANGED content
    OBVIOUS
  <2>2. CASE PublishContent \/ DeleteContent
    BY <2>2 DEF CourseRest
  <2>3. CASE PurgeDeletes
    BY <2>3 DEF CourseRest
  <2> QED BY <2>1, <2>2, <2>3 DEF CourseRest
<1>3. media' \in BOOLEAN
  BY DEF CourseRest
<1>4. stranded' \in BOOLEAN
  BY DEF CourseRest
<1> QED BY <1>1, <1>2, <1>3, <1>4 DEF CourseRest

(* Only students are granted, listed, revoked or counted.                   *)
LEMMA ListedStep ==
    ASSUME CourseColumns, Listed, CoursesNext
    PROVE  Listed'
<1>0. enrolled \subseteq Students /\ restricting.grants \subseteq Students
  BY DEF CourseColumns
<1> USE DEF CoursesNext, EnrolNext, TeacherNext, CoursePurgeNext, EnrollChecks, EnrollInserts,
        EnrollCommits, CompleteLesson, TogglePublish, PublishContent, DeleteContent, DeleteCourse,
        RestoreCourse, OpenAccess, RestrictBackfills, RestrictCommits, AddAccessGrant,
        RemoveAccessGrant, RosterGrants, RosterLoads, RosterFails, OwnerChanges, Ages, PurgeScans,
        GuardsCourse, GuardsOwner, PurgeEmpties, PurgeDeletes, historyVars, flightVars, Grants
<1>1. grants' \subseteq Students
  BY <1>0 DEF Listed
<1>2. studied' \subseteq Students
  BY DEF Listed
<1>3. roster' \subseteq Students
  BY DEF Listed
<1>4. revoked' \subseteq Students
  BY DEF Listed
<1>5. slipped' \subseteq Students
  BY DEF Listed
<1> QED BY <1>1, <1>2, <1>3, <1>4, <1>5 DEF Listed

(* Turns are taken up to the last.                                          *)
LEMMA TurnsStep ==
    ASSUME TurnsCounted, CoursesNext
    PROVE  TurnsCounted'
<1>1. turns' = turns \/ (turns < MaxTurns /\ turns' = turns + 1)
  BY DEF CoursesNext, EnrolNext, TeacherNext, CoursePurgeNext, EnrollChecks, EnrollInserts,
        EnrollCommits, CompleteLesson, TogglePublish, PublishContent, DeleteContent, DeleteCourse,
        RestoreCourse, OpenAccess, RestrictBackfills, RestrictCommits, AddAccessGrant,
        RemoveAccessGrant, RosterGrants, RosterLoads, RosterFails, OwnerChanges, Ages, PurgeScans,
        GuardsCourse, GuardsOwner, PurgeEmpties, PurgeDeletes, Turn, Edits
<1> QED BY <1>1, CoursesAssumption DEF TurnsCounted

(* Every step keeps it all.                                                 *)
LEMMA CourseAllStep == CourseAll /\ [CoursesNext]_courseVars => CourseAll'
<1> SUFFICES ASSUME CourseAll, [CoursesNext]_courseVars PROVE CourseAll'
  OBVIOUS
<1>1. CourseInv' /\ CourseColumns
  BY CourseStep DEF CourseAll, CourseInv
<1>2. CASE CoursesNext
  BY <1>1, <1>2, CourseRestStep, ListedStep, TurnsStep DEF CourseAll
<1>3. CASE UNCHANGED courseVars
  BY <1>1, <1>3 DEF courseVars, CourseAll, CourseRest, Listed, TurnsCounted
<1> QED BY <1>2, <1>3

(* It types every variable of the component.                                *)
LEMMA CourseAllTyped == CourseAll => CoursesTypeOK
<1> SUFFICES ASSUME CourseAll PROVE CoursesTypeOK
  OBVIOUS
<1>1. CourseColumns
  BY DEF CourseAll, CourseInv
<1>2. {media, stranded} \subseteq BOOLEAN
  BY DEF CourseAll, CourseRest
<1>3. /\ owner \in {"live", "deleted", "aged", "anonymized", "gone"}
      /\ content \in [module : BOOLEAN, modulePublished : BOOLEAN, lesson : BOOLEAN,
                      lessonPublished : BOOLEAN]
  BY DEF CourseAll, CourseRest
<1>4. /\ enrolled \cup grants \cup studied \cup roster \subseteq Students
      /\ everEnrolled \cup revoked \cup slipped \subseteq Students
  BY <1>1 DEF CourseAll, Listed, CourseColumns
<1> QED BY <1>1, <1>2, <1>3, <1>4 DEF CourseAll, TurnsCounted, CourseColumns, CoursesTypeOK

-----------------------------------------------------------------------------
(* Submissions: what was graded stands, and files stay as promised.        *)
Attachments == StudentFiles \cup FeedbackFiles

(* A request or task on the copies it holds.                               *)
RequestOf(pcs) == [pc : pcs, row : SubmissionRow, files : SUBSET Attachments,
                   ref : RetentionRefs \cup {"none"}]

PupilPCs == {"idle", "saving", "submitting", "uploading", "inserting", "removing",
             "deleting"}
TutorPCs == {"idle", "grading", "reopening", "uploading", "inserting", "removing",
             "deleting", "dropping", "dropped", "extending", "paying", "charging"}

SubmissionColumns ==
    /\ assignment \in {"draft", "published", "gone"} /\ submission \in SubmissionRow
    /\ files \subseteq Attachments /\ spent \subseteq Attachments
    /\ today \in Nat \ {0} /\ anchor \in Nat /\ granted \in Nat

RequestColumns ==
    /\ pupil \in RequestOf(PupilPCs) /\ tutor \in RequestOf(TutorPCs)
    /\ purge \in RequestOf({"idle", "purging"})
    /\ remind \in RequestOf({"idle", "mailing"})
    /\ tutor.pc \in {"paying", "charging"} =>
          tutor.ref \in RetentionRefs /\ tutor.row.gradedAt # Never
    /\ LedgerType

(* Graded work stands, and no request of the student is under way that     *)
(* could write over it.                                                    *)
GradedQuietly ==
    submission.status = "returned" /\ ~crossed =>
        submission.text = seenText /\ pupil.pc = "idle"

(* A purge under way is due, unless the deadline moved meanwhile.          *)
PurgeDue ==
    /\ premature => torn
    /\ purge.pc = "purging" => torn \/ assignment = "gone" \/ Expired(submission)

(* Once extended the deadline is on the row itself, and the copy in the    *)
(* teacher's request is not ahead of it.                                   *)
ExtendedOnRow ==
    assignment # "gone" => /\ granted > 0 => submission.retain # Never
                           /\ tutor.row.retain # Never => submission.retain # Never

Promised == anchor + granted * ExtensionDays

DeadlinePromised ==
    assignment # "gone" /\ granted > 0 /\ ~lapped => Deadline(submission) = Promised

(* Extensions charged and about to be charged have been granted.           *)
ChargedRefs == {ref \in RetentionRefs : ledger[ref].charged > 0}

ChargesGranted ==
    /\ IsFiniteSet(ChargedRefs)
    /\ Cardinality(ChargedRefs) + (IF tutor.pc = "charging" THEN 1 ELSE 0) <= granted

SubmissionInv ==
    /\ SubmissionColumns /\ RequestColumns
    /\ GradedQuietly /\ PurgeDue /\ ExtendedOnRow /\ DeadlinePromised /\ ChargesGranted

(* The invariant says what the state property says.                        *)
LEMMA SubmissionInvKeeps == SubmissionInv => GradedAndKept
<1> SUFFICES ASSUME SubmissionInv PROVE GradedAndKept
  OBVIOUS
<1>1. GradedWorkStands
  BY DEF SubmissionInv, GradedQuietly, GradedWorkStands
<1>2. Cardinality(ChargedRefs) <= granted
  <2>1. Cardinality(ChargedRefs) \in Nat /\ granted \in Nat
    BY FS_CardinalityType DEF SubmissionInv, ChargesGranted, SubmissionColumns
  <2> QED BY <2>1 DEF SubmissionInv, ChargesGranted
<1>3. RetentionKept
  BY <1>2 DEF SubmissionInv, PurgeDue, DeadlinePromised, Promised, ChargedRefs, RetentionKept
<1> QED BY <1>1, <1>3 DEF GradedAndKept

(* A flush writes the fields that differ from the copy, and no other.      *)
LEMMA FlushedRow ==
    ASSUME submission \in SubmissionRow, NEW loaded \in SubmissionRow,
           NEW new \in SubmissionRow, Flushes(loaded, new)
    PROVE  /\ submission' \in SubmissionRow
           /\ \A f \in {"status", "text", "gradedAt", "retain", "reminded"} :
                 submission'[f] = IF new[f] # loaded[f] THEN new[f] ELSE submission[f]
<1>1. DOMAIN new = {"status", "text", "gradedAt", "retain", "reminded"}
  BY DEF SubmissionRow
<1>2. \A f \in {"status", "text", "gradedAt", "retain", "reminded"} :
         submission'[f] = IF new[f] # loaded[f] THEN new[f] ELSE submission[f]
  BY <1>1 DEF Flushes
<1>3. submission' = [status |-> submission'.status, text |-> submission'.text,
                     gradedAt |-> submission'.gradedAt, retain |-> submission'.retain,
                     reminded |-> submission'.reminded]
  BY <1>1 DEF Flushes
<1>4. /\ submission'.status \in {"absent", "draft", "submitted", "returned"}
      /\ submission'.text \in 0..MaxText /\ submission'.gradedAt \in Nat
      /\ submission'.retain \in Nat /\ submission'.reminded \in BOOLEAN
  BY <1>2 DEF SubmissionRow
<1> QED BY <1>2, <1>3, <1>4 DEF SubmissionRow

(* A request at rest.                                                      *)
LEMMA RestingRequest ==
    ASSUME NEW pcs, "idle" \in pcs
    PROVE  /\ Resting \in RequestOf(pcs) /\ NoSubmission \in SubmissionRow
           /\ Resting.pc = "idle" /\ Resting.row = NoSubmission
           /\ NoSubmission.retain = Never
<1>1. NoSubmission \in SubmissionRow
  BY SubmissionsAssumption DEF NoSubmission, SubmissionRow, Never
<1> QED BY <1>1 DEF Resting, RequestOf, NoSubmission

(* Steps of the student's and the teacher's requests that write neither    *)
(* the submission's row nor the journal, nor anything the history records. *)
LEMMA FilesStep ==
    ASSUME SubmissionInv,
           UNCHANGED <<assignment, submission, completed, purge, remind, today, seenText,
                       crossed, anchor, granted, lapped, premature, torn, ledgerVars>>,
           files' \subseteq Attachments, spent' \subseteq Attachments,
           pupil' \in RequestOf(PupilPCs),
           pupil.pc = "idle" /\ submission.status = "returned" => pupil'.pc = "idle",
           tutor' \in RequestOf(TutorPCs),
           tutor' = tutor \/ tutor'.pc \notin {"paying", "charging"},
           tutor'.row.retain \in {Never, tutor.row.retain, submission.retain}
    PROVE  SubmissionInv'
<1>1. SubmissionColumns' /\ RequestColumns'
  BY DEF SubmissionInv, SubmissionColumns, RequestColumns, LedgerType, ledgerVars
<1>2. GradedQuietly' /\ PurgeDue'
  BY DEF SubmissionInv, GradedQuietly, PurgeDue, Expired, Deadline
<1>3. ExtendedOnRow'
  BY DEF SubmissionInv, ExtendedOnRow
<1>4. DeadlinePromised'
  BY DEF SubmissionInv, DeadlinePromised, Promised, Deadline
<1>5. ChargesGranted'
  <2>1. ChargedRefs' = ChargedRefs
    BY DEF ChargedRefs, ledgerVars
  <2>2. Cardinality(ChargedRefs) \in Nat /\ granted \in Nat
    BY FS_CardinalityType DEF SubmissionInv, ChargesGranted, SubmissionColumns
  <2> QED BY <2>1, <2>2 DEF SubmissionInv, ChargesGranted
<1> QED BY <1>1, <1>2, <1>3, <1>4, <1>5 DEF SubmissionInv

(* The student's file requests: a file is stored, listed and removed by    *)
(* whoever holds the request, and graded work is not touched.              *)
LEMMA PupilFiles ==
    ASSUME SubmissionInv,
           \/ PupilOpens \/ PupilStores \/ PupilInserts \/ PupilDeletes \/ PupilGivesUp
           \/ \E f \in StudentFiles : PupilUnstores(f)
    PROVE  SubmissionInv'
<1>0. /\ pupil \in RequestOf(PupilPCs) /\ tutor \in RequestOf(TutorPCs)
      /\ submission \in SubmissionRow
      /\ files \subseteq Attachments /\ spent \subseteq Attachments
  BY DEF SubmissionInv, SubmissionColumns, RequestColumns
<1>1. /\ UNCHANGED <<assignment, submission, completed, purge, remind, today, seenText,
                     crossed, anchor, granted, lapped, premature, torn, ledgerVars>>
      /\ tutor' = tutor
  BY DEF PupilOpens, PupilStores, PupilInserts, PupilDeletes, PupilGivesUp, PupilUnstores
<1>2. files' \subseteq Attachments /\ spent' \subseteq Attachments
  BY <1>0 DEF PupilOpens, PupilStores, PupilInserts, PupilDeletes, PupilGivesUp,
     PupilUnstores, StoreBytes, RequestOf, Attachments
<1>3. pupil' \in RequestOf(PupilPCs)
  <2>1. CASE PupilInserts \/ PupilDeletes \/ PupilGivesUp
    BY <2>1, RestingRequest DEF PupilInserts, PupilDeletes, PupilGivesUp, PupilPCs
  <2>2. CASE PupilOpens
    BY <2>2, <1>0 DEF PupilOpens, PupilPCs, Resting, RequestOf
  <2>3. CASE PupilStores
    <3>1. spent' \ spent \in SUBSET Attachments
      BY <1>2
    <3> QED BY <2>3, <3>1, <1>0 DEF PupilStores, PupilPCs, RequestOf
  <2>4. ASSUME NEW f \in StudentFiles, PupilUnstores(f) PROVE pupil' \in RequestOf(PupilPCs)
    <3>1. {f} \in SUBSET Attachments
      BY DEF Attachments
    <3> QED BY <2>4, <3>1, <1>0 DEF PupilUnstores, PupilPCs, RequestOf
  <2> QED BY <2>1, <2>2, <2>3, <2>4
<1>4. pupil.pc = "idle" /\ submission.status = "returned" => pupil'.pc = "idle"
  BY DEF PupilOpens, PupilStores, PupilInserts, PupilDeletes, PupilGivesUp, PupilUnstores,
         Resting, Locked
<1> QED BY <1>0, <1>1, <1>2, <1>3, <1>4, FilesStep

(* The teacher's requests and feedback files.                              *)
LEMMA TutorFiles ==
    ASSUME SubmissionInv,
           \/ \E pc \in TutorPCs \ {"paying", "charging"} : TutorLoads(pc)
           \/ TutorStores \/ TutorInserts \/ TutorDeletes \/ TutorGivesUp
           \/ AssignmentUnstores
           \/ \E f \in FeedbackFiles : TutorUnstores(f)
    PROVE  SubmissionInv'
<1>0. /\ pupil \in RequestOf(PupilPCs) /\ tutor \in RequestOf(TutorPCs)
      /\ submission \in SubmissionRow
      /\ files \subseteq Attachments /\ spent \subseteq Attachments
  BY DEF SubmissionInv, SubmissionColumns, RequestColumns
<1>1. /\ UNCHANGED <<assignment, submission, completed, purge, remind, today, seenText,
                     crossed, anchor, granted, lapped, premature, torn, ledgerVars>>
      /\ pupil' = pupil
  BY DEF TutorLoads, TutorStores, TutorInserts, TutorDeletes, TutorGivesUp,
         AssignmentUnstores, TutorUnstores
<1>2. files' \subseteq Attachments /\ spent' \subseteq Attachments
  BY <1>0 DEF TutorLoads, TutorStores, TutorInserts, TutorDeletes, TutorGivesUp,
     AssignmentUnstores, TutorUnstores, StoreBytes, RequestOf, Attachments
<1>3. /\ tutor' \in RequestOf(TutorPCs)
      /\ tutor'.pc \notin {"paying", "charging"}
      /\ tutor'.row.retain \in {Never, tutor.row.retain, submission.retain}
  <2>1. CASE TutorInserts \/ TutorDeletes \/ TutorGivesUp
    BY <2>1, RestingRequest DEF TutorInserts, TutorDeletes, TutorGivesUp, TutorPCs
  <2>2. ASSUME NEW pc \in TutorPCs \ {"paying", "charging"}, TutorLoads(pc)
        PROVE  /\ tutor' \in RequestOf(TutorPCs)
               /\ tutor'.pc \notin {"paying", "charging"}
               /\ tutor'.row.retain \in {Never, tutor.row.retain, submission.retain}
    <3>1. pc \in TutorPCs /\ files \in SUBSET Attachments
      BY <1>0, <2>2
    <3>2. tutor' = [Resting EXCEPT !.pc = pc, !.row = submission, !.files = files]
      BY <2>2 DEF TutorLoads
    <3>3. tutor' \in RequestOf(TutorPCs) /\ tutor'.pc = pc /\ tutor'.row = submission
      BY <1>0, <3>1, <3>2 DEF Resting, RequestOf
    <3>4. tutor'.pc \notin {"paying", "charging"}
      BY <3>3
    <3>5. tutor'.row.retain = submission.retain
      BY <3>3, Zenon
    <3> QED BY <3>3, <3>4, <3>5, Zenon
  <2>3. CASE TutorStores
    <3>1. spent' \ spent \in SUBSET Attachments
      BY <1>2
    <3> QED BY <2>3, <3>1, <1>0 DEF TutorStores, TutorPCs, RequestOf
  <2>4. ASSUME NEW f \in FeedbackFiles, TutorUnstores(f)
        PROVE  /\ tutor' \in RequestOf(TutorPCs)
               /\ tutor'.pc \notin {"paying", "charging"}
               /\ tutor'.row.retain = tutor.row.retain
    <3>1. {f} \in SUBSET Attachments
      BY DEF Attachments
    <3> QED BY <2>4, <3>1, <1>0 DEF TutorUnstores, TutorPCs, RequestOf
  <2>5. CASE AssignmentUnstores
    BY <2>5, <1>0 DEF AssignmentUnstores, TutorPCs, RequestOf
  <2> QED BY <2>1, <2>2, <2>3, <2>4, <2>5
<1> QED BY <1>0, <1>1, <1>2, <1>3, FilesStep

(* Steps that write the row, but neither the day it was graded nor its      *)
(* deadline.                                                               *)
LEMMA RowStep ==
    ASSUME SubmissionInv, submission' \in SubmissionRow,
           UNCHANGED <<assignment, files, spent, purge, today, seenText,
                       crossed, anchor, granted, lapped, premature, torn, ledgerVars>>,
           submission'.gradedAt = submission.gradedAt,
           submission'.retain = submission.retain,
           pupil' \in RequestOf(PupilPCs), remind' \in RequestOf({"idle", "mailing"}),
           \/ submission'.status # "returned"
           \/ /\ submission.status = "returned"
              /\ \/ pupil' = pupil /\ submission'.text = submission.text
                 \/ pupil.pc # "idle",
           tutor' = tutor \/ tutor' = Resting
    PROVE  SubmissionInv'
<1>0. Resting \in RequestOf(TutorPCs) /\ Resting.pc = "idle" /\ Resting.row.retain = Never
  BY RestingRequest DEF TutorPCs
<1>1. SubmissionColumns' /\ RequestColumns'
  BY <1>0 DEF SubmissionInv, SubmissionColumns, RequestColumns, LedgerType, ledgerVars
<1>2. GradedQuietly' /\ PurgeDue'
  BY DEF SubmissionInv, GradedQuietly, PurgeDue, Expired, Deadline
<1>3. ExtendedOnRow'
  BY <1>0 DEF SubmissionInv, ExtendedOnRow
<1>4. DeadlinePromised'
  BY DEF SubmissionInv, DeadlinePromised, Promised, Deadline
<1>5. ChargesGranted'
  <2>1. ChargedRefs' = ChargedRefs
    BY DEF ChargedRefs, ledgerVars
  <2>2. Cardinality(ChargedRefs) \in Nat /\ granted \in Nat
    BY FS_CardinalityType DEF SubmissionInv, ChargesGranted, SubmissionColumns
  <2> QED BY <1>0, <2>1, <2>2 DEF SubmissionInv, ChargesGranted
<1> QED BY <1>1, <1>2, <1>3, <1>4, <1>5 DEF SubmissionInv

(* Saving a draft and submitting write over what the student loaded.       *)
LEMMA PupilWrites ==
    ASSUME SubmissionInv,
           \/ \E pc \in {"saving", "submitting", "uploading"} : PupilLoads(pc)
           \/ \E text \in 0..MaxText : SaveDraft(text) \/ Submit(text)
    PROVE  SubmissionInv'
<1>0. /\ pupil \in RequestOf(PupilPCs) /\ tutor \in RequestOf(TutorPCs)
      /\ submission \in SubmissionRow /\ files \subseteq Attachments
      /\ remind \in RequestOf({"idle", "mailing"})
  BY DEF SubmissionInv, SubmissionColumns, RequestColumns
<1>1. ASSUME NEW pc \in {"saving", "submitting", "uploading"}, PupilLoads(pc)
      PROVE  SubmissionInv'
  <2>1. /\ submission' \in SubmissionRow
        /\ submission'.gradedAt = submission.gradedAt
        /\ submission'.retain = submission.retain
        /\ submission'.status # "returned"
    BY <1>0, <1>1 DEF PupilLoads, SubmissionRow, Locked
  <2>2. pupil' \in RequestOf(PupilPCs)
    <3>1. pc \in PupilPCs /\ files \in SUBSET Attachments
      BY <1>0 DEF PupilPCs
    <3>2. pupil' = [Resting EXCEPT !.pc = pc, !.row = submission', !.files = files]
      BY <1>1 DEF PupilLoads
    <3> QED BY <2>1, <3>1, <3>2 DEF Resting, RequestOf
  <2> QED BY <1>0, <1>1, <2>1, <2>2, RowStep DEF PupilLoads
<1>2. ASSUME NEW text \in 0..MaxText, SaveDraft(text) \/ Submit(text)
      PROVE  SubmissionInv'
  <2>0. pupil.row \in SubmissionRow
    BY <1>0 DEF RequestOf
  <2>1. PICK new \in SubmissionRow :
          /\ Flushes(pupil.row, new)
          /\ new.gradedAt = pupil.row.gradedAt /\ new.retain = pupil.row.retain
          /\ new.status = pupil.row.status \/ new.status = "submitted"
    <3>1. CASE SaveDraft(text)
      <4> DEFINE new == [pupil.row EXCEPT !.text = text]
      <4>1. new \in SubmissionRow
        BY <2>0 DEF SubmissionRow
      <4> QED BY <2>0, <3>1, <4>1 DEF SaveDraft, SubmissionRow
    <3>2. CASE Submit(text)
      <4> DEFINE new == [pupil.row EXCEPT !.text = text, !.status = "submitted"]
      <4>1. new \in SubmissionRow
        BY <2>0 DEF SubmissionRow
      <4> QED BY <2>0, <3>2, <4>1 DEF Submit, SubmissionRow
    <3> QED BY <1>2, <3>1, <3>2
  <2>2. /\ submission' \in SubmissionRow
        /\ submission'.gradedAt = submission.gradedAt
        /\ submission'.retain = submission.retain
        /\ submission'.status # "returned" \/ submission.status = "returned"
    BY <1>0, <2>0, <2>1, FlushedRow
  <2>3. pupil' = Resting /\ pupil.pc # "idle"
    BY <1>2 DEF SaveDraft, Submit
  <2>4. pupil' \in RequestOf(PupilPCs)
    BY <2>3, RestingRequest DEF PupilPCs
  <2>5. /\ UNCHANGED <<assignment, files, spent, purge, today, seenText,
                       crossed, anchor, granted, lapped, premature, torn, ledgerVars>>
        /\ UNCHANGED <<tutor, remind>>
    BY <1>2 DEF SaveDraft, Submit
  <2> QED BY <1>0, <2>2, <2>3, <2>4, <2>5, RowStep
<1> QED BY <1>1, <1>2

(* Reopening hands the work back to the student's side.                    *)
LEMMA ReopenStep ==
    ASSUME SubmissionInv, Reopen
    PROVE  SubmissionInv'
<1>0. /\ pupil \in RequestOf(PupilPCs) /\ tutor \in RequestOf(TutorPCs)
      /\ submission \in SubmissionRow /\ remind \in RequestOf({"idle", "mailing"})
  BY DEF SubmissionInv, SubmissionColumns, RequestColumns
<1> DEFINE new == [tutor.row EXCEPT !.status = "submitted"]
<1>1. /\ tutor.row \in SubmissionRow /\ new \in SubmissionRow /\ new.text = tutor.row.text
      /\ new.gradedAt = tutor.row.gradedAt /\ new.retain = tutor.row.retain
      /\ new.status = "submitted"
  BY <1>0 DEF RequestOf, SubmissionRow
<1>2. Flushes(tutor.row, new)
  BY DEF Reopen
<1> HIDE DEF new
<1>3. /\ submission' \in SubmissionRow
      /\ submission'.gradedAt = submission.gradedAt
      /\ submission'.retain = submission.retain
      /\ submission'.text = submission.text
      /\ submission'.status # "returned" \/ submission.status = "returned"
  BY <1>0, <1>1, <1>2, FlushedRow
<1>4. /\ UNCHANGED <<assignment, files, spent, purge, today, seenText, crossed, anchor,
                     granted, lapped, premature, torn, ledgerVars>>
      /\ UNCHANGED <<pupil, remind>> /\ tutor' = Resting
  BY DEF Reopen
<1> QED BY <1>0, <1>3, <1>4, RowStep

(* Grading: the text that was graded is the one on the row unless a        *)
(* request of the student crossed it, and the new deadline is told to a    *)
(* purge under way.                                                        *)
LEMMA GradeStep ==
    ASSUME SubmissionInv, NEW passed \in BOOLEAN, Grade(passed)
    PROVE  SubmissionInv'
<1>0. /\ pupil \in RequestOf(PupilPCs) /\ tutor \in RequestOf(TutorPCs)
      /\ submission \in SubmissionRow /\ today \in Nat \ {0}
      /\ anchor \in Nat /\ granted \in Nat
      /\ purge \in RequestOf({"idle", "purging"})
  BY DEF SubmissionInv, SubmissionColumns, RequestColumns
<1> DEFINE new == [tutor.row EXCEPT !.status = "returned", !.gradedAt = today]
<1>1. /\ tutor.row \in SubmissionRow /\ new \in SubmissionRow /\ new.text = tutor.row.text
      /\ new.retain = tutor.row.retain /\ new.status = "returned"
  BY <1>0 DEF RequestOf, SubmissionRow
<1>2. Flushes(tutor.row, new)
  BY DEF Grade
<1> HIDE DEF new
<1>3. /\ submission' \in SubmissionRow
      /\ submission'.retain = submission.retain
      /\ submission'.text = submission.text
  BY <1>0, <1>1, <1>2, FlushedRow
<1>4. /\ UNCHANGED <<assignment, files, spent, purge, today, granted, lapped, premature,
                     pupil, remind, ledgerVars>>
      /\ tutor' = Resting /\ seenText' = tutor.row.text
      /\ crossed' = (pupil.pc # "idle" \/ submission.text # tutor.row.text)
      /\ anchor' = IF submission.retain = Never THEN Never ELSE anchor
      /\ torn' = (torn \/ purge.pc # "idle")
  BY DEF Grade
<1>5. /\ Resting \in RequestOf(TutorPCs) /\ Resting.pc = "idle"
      /\ Resting.row.retain = Never
  BY RestingRequest DEF TutorPCs
<1>6. SubmissionColumns' /\ RequestColumns'
  BY <1>0, <1>3, <1>4, <1>5 DEF SubmissionInv, SubmissionColumns, RequestColumns,
     LedgerType, ledgerVars, Never
<1>7. GradedQuietly' /\ PurgeDue'
  BY <1>0, <1>3, <1>4 DEF SubmissionInv, GradedQuietly, PurgeDue, RequestOf
<1>8. ExtendedOnRow'
  BY <1>3, <1>4, <1>5 DEF SubmissionInv, ExtendedOnRow
<1>9. DeadlinePromised'
  <2>1. CASE submission.retain = Never
    <3>1. assignment = "gone" \/ granted = 0
      BY <1>0, <2>1 DEF SubmissionInv, ExtendedOnRow
    <3> QED BY <1>4, <3>1 DEF DeadlinePromised
  <2>2. CASE submission.retain # Never
    <3>1. Deadline(submission') = Deadline(submission)
      BY <1>3, <2>2 DEF Deadline
    <3>2. anchor' = anchor
      BY <1>4, <2>2
    <3> QED BY <1>4, <3>1, <3>2 DEF SubmissionInv, DeadlinePromised, Promised
  <2> QED BY <2>1, <2>2
<1>10. ChargesGranted'
  <2>1. ChargedRefs' = ChargedRefs
    BY <1>4 DEF ChargedRefs, ledgerVars
  <2>2. Cardinality(ChargedRefs) \in Nat /\ granted \in Nat
    BY FS_CardinalityType DEF SubmissionInv, ChargesGranted, SubmissionColumns
  <2> QED BY <1>4, <1>5, <2>1, <2>2 DEF SubmissionInv, ChargesGranted
<1> QED BY <1>6, <1>7, <1>8, <1>9, <1>10 DEF SubmissionInv

(* Time, publication, and steps of the purge and the reminder that write    *)
(* no row.                                                                 *)
LEMMA TasksStep ==
    ASSUME SubmissionInv,
           UNCHANGED <<submission, spent, pupil, tutor, seenText, crossed, anchor,
                       granted, lapped, torn, ledgerVars>>,
           assignment' \in {"draft", "published", "gone"},
           assignment = "gone" <=> assignment' = "gone",
           files' \subseteq Attachments, today' \in Nat, today' >= today,
           purge' \in RequestOf({"idle", "purging"}),
           purge'.pc = "purging" => purge.pc = "purging" \/ Expired(submission),
           remind' \in RequestOf({"idle", "mailing"}),
           premature' => \/ premature
                         \/ /\ purge.pc = "purging" /\ assignment # "gone"
                            /\ ~Expired(submission)
    PROVE  SubmissionInv'
<1>1. SubmissionColumns' /\ RequestColumns'
  BY DEF SubmissionInv, SubmissionColumns, RequestColumns, LedgerType, ledgerVars
<1>2. submission \in SubmissionRow /\ today \in Nat
  BY DEF SubmissionInv, SubmissionColumns
<1>3. Expired(submission) => Expired(submission)'
  <2>1. Deadline(submission) \in Nat
    BY <1>2, SubmissionsAssumption DEF Deadline, SubmissionRow, Never
  <2> QED BY <1>2, <2>1 DEF Expired, Deadline
<1>4. GradedQuietly' /\ PurgeDue'
  BY <1>3 DEF SubmissionInv, GradedQuietly, PurgeDue
<1>5. ExtendedOnRow' /\ DeadlinePromised'
  BY DEF SubmissionInv, ExtendedOnRow, DeadlinePromised, Promised, Deadline
<1>6. ChargesGranted'
  <2>1. ChargedRefs' = ChargedRefs
    BY DEF ChargedRefs, ledgerVars
  <2>2. Cardinality(ChargedRefs) \in Nat /\ granted \in Nat
    BY FS_CardinalityType DEF SubmissionInv, ChargesGranted, SubmissionColumns
  <2> QED BY <2>1, <2>2 DEF SubmissionInv, ChargesGranted
<1> QED BY <1>1, <1>4, <1>5, <1>6 DEF SubmissionInv

(* Publishing, the retention and reminder tasks, and the days between      *)
(* them.                                                                   *)
LEMMA TasksNext ==
    ASSUME SubmissionInv,
           \/ \E status \in {"draft", "published"} : SetStatus(status)
           \/ RetentionScans \/ PurgeCommits \/ PurgeRollsBack
           \/ \E f \in Attachments : PurgeBytes(f)
           \/ RemindScans \/ DayPasses
    PROVE  SubmissionInv'
<1>0. /\ submission \in SubmissionRow /\ today \in Nat /\ files \subseteq Attachments
      /\ purge \in RequestOf({"idle", "purging"})
      /\ remind \in RequestOf({"idle", "mailing"})
      /\ assignment \in {"draft", "published", "gone"}
  BY DEF SubmissionInv, SubmissionColumns, RequestColumns
<1>1. UNCHANGED <<submission, spent, pupil, tutor, seenText, crossed, anchor,
                  granted, lapped, torn, ledgerVars>>
  BY DEF SetStatus, RetentionScans, PurgeCommits, PurgeRollsBack, PurgeBytes, RemindScans,
         DayPasses
<1>2. /\ assignment' \in {"draft", "published", "gone"}
      /\ assignment = "gone" <=> assignment' = "gone"
      /\ files' \subseteq Attachments /\ today' \in Nat /\ today' >= today
  BY <1>0 DEF SetStatus, RetentionScans, PurgeCommits, PurgeRollsBack, PurgeBytes,
     RemindScans, DayPasses
<1>3. /\ purge' \in RequestOf({"idle", "purging"})
      /\ purge'.pc = "purging" => purge.pc = "purging" \/ Expired(submission)
  <2>1. CASE RetentionScans
    <3>1. Resting \in RequestOf({"idle", "purging"})
      BY RestingRequest
    <3>2. purge' = [Resting EXCEPT !.pc = "purging", !.files = files] /\ Expired(submission)
      BY <2>1 DEF RetentionScans
    <3>3. purge' \in RequestOf({"idle", "purging"})
      BY <1>0, <3>1, <3>2 DEF RequestOf
    <3> QED BY <3>2, <3>3
  <2>2. CASE PurgeCommits \/ PurgeRollsBack
    BY <2>2, RestingRequest DEF PurgeCommits, PurgeRollsBack
  <2>3. CASE purge' = purge
    BY <1>0, <2>3
  <2> QED BY <2>1, <2>2, <2>3 DEF SetStatus, PurgeBytes, RemindScans, DayPasses
<1>4. remind' \in RequestOf({"idle", "mailing"})
  <2>1. CASE RemindScans
    BY <1>0, <2>1 DEF RemindScans, Resting, RequestOf
  <2>2. CASE remind' = remind
    BY <1>0, <2>2
  <2> QED BY <2>1, <2>2 DEF SetStatus, PurgeBytes, RetentionScans, PurgeCommits,
             PurgeRollsBack, DayPasses
<1>5. premature' => \/ premature
                    \/ /\ purge.pc = "purging" /\ assignment # "gone"
                       /\ ~Expired(submission)
  BY DEF SetStatus, RetentionScans, PurgeCommits, PurgeRollsBack, PurgeBytes, RemindScans,
         DayPasses
<1>6. files' \subseteq Attachments /\ today' \in Nat /\ today' >= today
  BY <1>2
<1> QED BY <1>1, <1>2, <1>3, <1>4, <1>5, <1>6, TasksStep

(* A reminder writes its flags over the submission it scanned.             *)
LEMMA RemindMailsStep ==
    ASSUME SubmissionInv, RemindMails
    PROVE  SubmissionInv'
<1>0. /\ pupil \in RequestOf(PupilPCs) /\ submission \in SubmissionRow
      /\ remind.row \in SubmissionRow
  BY DEF SubmissionInv, SubmissionColumns, RequestColumns, RequestOf
<1>1. /\ UNCHANGED <<assignment, files, spent, purge, today, seenText, crossed, anchor,
                     granted, lapped, premature, torn, ledgerVars>>
      /\ UNCHANGED <<pupil, tutor>> /\ remind' = Resting
  BY DEF RemindMails
<1>2. remind' \in RequestOf({"idle", "mailing"})
  BY <1>1, RestingRequest
<1>3. /\ submission' \in SubmissionRow
      /\ submission'.gradedAt = submission.gradedAt
      /\ submission'.retain = submission.retain
      /\ submission'.text = submission.text
      /\ submission'.status = submission.status
  <2>1. CASE UNCHANGED submission
    BY <1>0, <2>1
  <2>2. CASE Flushes(remind.row, [remind.row EXCEPT !.reminded = TRUE])
    <3> DEFINE new == [remind.row EXCEPT !.reminded = TRUE]
    <3>1. /\ new \in SubmissionRow /\ new.text = remind.row.text
          /\ new.gradedAt = remind.row.gradedAt /\ new.retain = remind.row.retain
          /\ new.status = remind.row.status
      BY <1>0 DEF SubmissionRow
    <3>2. Flushes(remind.row, new)
      BY <2>2
    <3> HIDE DEF new
    <3> QED BY <1>0, <3>1, <3>2, FlushedRow
  <2> QED BY <2>1, <2>2 DEF RemindMails
<1> QED BY <1>0, <1>1, <1>2, <1>3, RowStep

(* Deleting the assignment takes the submission and its files with it.     *)
LEMMA AssignmentDeletesStep ==
    ASSUME SubmissionInv, AssignmentDeletes
    PROVE  SubmissionInv'
<1>1. /\ Resting \in RequestOf(TutorPCs) /\ Resting \in RequestOf(PupilPCs)
      /\ Resting.pc = "idle" /\ NoSubmission \in SubmissionRow
      /\ NoSubmission.status = "absent"
  BY RestingRequest DEF TutorPCs, PupilPCs, NoSubmission
<1>2. /\ submission' = NoSubmission /\ files' = {} /\ assignment' = "gone"
      /\ tutor' = Resting /\ pupil' = Resting
      /\ UNCHANGED <<spent, purge, remind, today, anchor, granted, premature, torn,
                     ledgerVars>>
  BY DEF AssignmentDeletes
<1>3. SubmissionColumns' /\ RequestColumns'
  BY <1>1, <1>2 DEF SubmissionInv, SubmissionColumns, RequestColumns, LedgerType, ledgerVars
<1>4. GradedQuietly' /\ PurgeDue' /\ ExtendedOnRow' /\ DeadlinePromised'
  BY <1>1, <1>2 DEF SubmissionInv, GradedQuietly, PurgeDue, ExtendedOnRow, DeadlinePromised
<1>5. ChargesGranted'
  <2>1. ChargedRefs' = ChargedRefs
    BY <1>2 DEF ChargedRefs, ledgerVars
  <2>2. Cardinality(ChargedRefs) \in Nat /\ granted \in Nat
    BY FS_CardinalityType DEF SubmissionInv, ChargesGranted, SubmissionColumns
  <2> QED BY <1>1, <1>2, <2>1, <2>2 DEF SubmissionInv, ChargesGranted
<1> QED BY <1>3, <1>4, <1>5 DEF SubmissionInv

(* The journal's part of an extension: reserving and releasing leave what   *)
(* was charged, charging adds at most one reference.                       *)
LEMMA ExtensionPays ==
    ASSUME SubmissionInv,
           (\E ref \in RetentionRefs : ExtendReserves(ref)) \/ ExtendFails \/ ExtendCharges
    PROVE  SubmissionInv'
<1>0. /\ tutor \in RequestOf(TutorPCs) /\ LedgerType /\ RetentionRefs \subseteq Refs
      /\ ExtensionPrice \in Nat
      /\ tutor.pc \in {"paying", "charging"} =>
            tutor.ref \in RetentionRefs /\ tutor.row.gradedAt # Never
  BY SubmissionsAssumption DEF SubmissionInv, RequestColumns
<1>r. /\ Resting \in RequestOf(TutorPCs) /\ Resting.pc = "idle"
      /\ Resting.row.retain = Never
  BY RestingRequest DEF TutorPCs
<1>c. Cardinality(ChargedRefs) \in Nat /\ granted \in Nat
  BY FS_CardinalityType DEF SubmissionInv, ChargesGranted, SubmissionColumns
<1>1. UNCHANGED <<assignment, submission, files, spent, pupil, purge, remind, today,
                  seenText, crossed, anchor, granted, lapped, premature, torn>>
  BY DEF ExtendReserves, ExtendFails, ExtendCharges
<1>2. /\ tutor' \in RequestOf(TutorPCs) /\ LedgerType'
      /\ tutor'.row.retain \in {Never, tutor.row.retain}
      /\ tutor'.pc # "charging"
      /\ tutor'.pc = "paying" => tutor'.ref \in RetentionRefs /\ tutor'.row.gradedAt # Never
  <2>1. CASE \E ref \in RetentionRefs : ExtendReserves(ref)
    <3>1. PICK ref \in RetentionRefs : ExtendReserves(ref)
      BY <2>1
    <3>2. tutor' = [tutor EXCEPT !.pc = "paying", !.ref = ref] /\ tutor.row.gradedAt # Never
          /\ ReserveCredits(ref, ExtensionPrice)
      BY <3>1 DEF ExtendReserves
    <3>3. LedgerType'
      BY <1>0, <3>2, ReserveType
    <3> QED BY <1>0, <3>2, <3>3 DEF RequestOf, TutorPCs
  <2>2. CASE ExtendFails \/ ExtendCharges
    <3>1. tutor' = Resting /\ tutor.pc \in {"paying", "charging"}
      BY <2>2 DEF ExtendFails, ExtendCharges
    <3>2. LedgerType'
      BY <1>0, <2>2, <3>1, ReleaseType, ChargeType DEF ExtendFails, ExtendCharges
    <3> QED BY <1>r, <3>1, <3>2
  <2> QED BY <2>1, <2>2
<1>3. /\ IsFiniteSet(ChargedRefs')
      /\ Cardinality(ChargedRefs') <= granted
  <2>1. CASE (\E ref \in RetentionRefs : ExtendReserves(ref)) \/ ExtendFails
    <3>1. PICK ref \in RetentionRefs, row \in Row :
            /\ ledger' = [ledger EXCEPT ![ref] = row]
            /\ row.charged = ledger[ref].charged
      <4>1. CASE \E ref \in RetentionRefs : ExtendReserves(ref)
        <5>1. PICK ref \in RetentionRefs : ExtendReserves(ref)
          BY <4>1
        <5>2. ledger[ref] \in Row
          BY <1>0 DEF LedgerType
        <5> DEFINE row == Reserving(ledger[ref], ExtensionPrice)
        <5>3. row \in Row /\ row.charged = ledger[ref].charged
          BY <1>0, <5>2, ReservingRow
        <5>4. ledger' = [ledger EXCEPT ![ref] = row]
          BY <5>1 DEF ExtendReserves, ReserveCredits
        <5> QED BY <5>3, <5>4
      <4>2. CASE ExtendFails
        <5>1. tutor.ref \in RetentionRefs
          BY <1>0, <4>2 DEF ExtendFails
        <5>2. ledger[tutor.ref] \in Row
          BY <1>0, <5>1 DEF LedgerType
        <5> DEFINE row == Releasing(ledger[tutor.ref], ExtensionPrice)
        <5>3. row \in Row /\ row.charged = ledger[tutor.ref].charged
          BY <1>0, <5>2, ReleasingRow
        <5>4. ledger' = [ledger EXCEPT ![tutor.ref] = row]
          BY <4>2 DEF ExtendFails, ReleaseCredits
        <5> QED BY <5>1, <5>3, <5>4
      <4> QED BY <2>1, <4>1, <4>2
    <3>2. \A r \in RetentionRefs : ledger'[r].charged = ledger[r].charged
      BY <1>0, <3>1 DEF LedgerType
    <3>3. ChargedRefs' = ChargedRefs
      BY <3>2 DEF ChargedRefs
    <3> QED BY <1>c, <3>3 DEF SubmissionInv, ChargesGranted
  <2>2. CASE ExtendCharges
    <3>1. tutor.ref \in RetentionRefs /\ tutor.pc = "charging"
      BY <1>0, <2>2 DEF ExtendCharges
    <3>2. ledger' = [ledger EXCEPT ![tutor.ref] = Charging(@, ExtensionPrice)]
      BY <2>2 DEF ExtendCharges, ChargeCredits
    <3>3. \A r \in RetentionRefs : r # tutor.ref => ledger'[r] = ledger[r]
      BY <1>0, <3>1, <3>2 DEF LedgerType
    <3>4. ChargedRefs' \subseteq ChargedRefs \cup {tutor.ref}
      BY <3>3 DEF ChargedRefs
    <3>5. /\ IsFiniteSet(ChargedRefs \cup {tutor.ref})
          /\ Cardinality(ChargedRefs \cup {tutor.ref}) <= Cardinality(ChargedRefs) + 1
      BY <1>c, FS_AddElement DEF SubmissionInv, ChargesGranted
    <3>6. /\ IsFiniteSet(ChargedRefs')
          /\ Cardinality(ChargedRefs') <= Cardinality(ChargedRefs \cup {tutor.ref})
      BY <3>4, <3>5, FS_Subset
    <3>7. Cardinality(ChargedRefs') \in Nat /\ Cardinality(ChargedRefs \cup {tutor.ref}) \in Nat
      BY <3>5, <3>6, FS_CardinalityType
    <3> QED BY <1>c, <3>1, <3>5, <3>6, <3>7 DEF SubmissionInv, ChargesGranted
  <2> QED BY <2>1, <2>2
<1>4. SubmissionColumns' /\ RequestColumns'
  BY <1>1, <1>2 DEF SubmissionInv, SubmissionColumns, RequestColumns
<1>5. GradedQuietly' /\ PurgeDue'
  BY <1>1 DEF SubmissionInv, GradedQuietly, PurgeDue, Expired, Deadline
<1>6. ExtendedOnRow' /\ DeadlinePromised'
  BY <1>1, <1>2 DEF SubmissionInv, ExtendedOnRow, DeadlinePromised, Promised, Deadline
<1>7. ChargesGranted'
  <2>1. Cardinality(ChargedRefs') \in Nat
    BY <1>3, FS_CardinalityType
  <2> QED BY <1>1, <1>2, <1>3, <1>c, <2>1 DEF ChargesGranted
<1> QED BY <1>4, <1>5, <1>6, <1>7 DEF SubmissionInv

(* One more extension is one more window, whichever of them it is.         *)
LEMMA OneMoreWindow ==
    ASSUME NEW n \in Nat, NEW days \in Nat
    PROVE  (n + 1) * days = n * days + days /\ n * days \in Nat
  OBVIOUS

(* Committing an extension moves the deadline by a window, unless another  *)
(* request had moved it, and grants the charge that follows.               *)
LEMMA ExtendCommitsStep ==
    ASSUME SubmissionInv, ExtendCommits
    PROVE  SubmissionInv'
<1>0. /\ pupil \in RequestOf(PupilPCs) /\ tutor \in RequestOf(TutorPCs)
      /\ submission \in SubmissionRow /\ tutor.row \in SubmissionRow
      /\ purge \in RequestOf({"idle", "purging"})
      /\ anchor \in Nat /\ granted \in Nat
      /\ BaseDays \in Nat /\ ExtensionDays \in Nat
  BY SubmissionsAssumption DEF SubmissionInv, SubmissionColumns, RequestColumns, RequestOf
<1>1. /\ tutor.pc = "paying" /\ tutor.ref \in RetentionRefs /\ tutor.row.gradedAt # Never
  BY DEF ExtendCommits, SubmissionInv, RequestColumns
<1>2. /\ Deadline(tutor.row) \in Nat
      /\ tutor.row.retain # Never => Deadline(tutor.row) = tutor.row.retain
      /\ Extended(tutor.row) = Deadline(tutor.row) + ExtensionDays
      /\ tutor.row.retain = Never => Extended(tutor.row) # Never
  BY <1>0, <1>1 DEF Deadline, Extended, SubmissionRow, Never
<1> DEFINE new == [tutor.row EXCEPT !.retain = Extended(tutor.row), !.reminded = FALSE]
<1>3. /\ new \in SubmissionRow /\ new.retain = Extended(tutor.row)
      /\ new.text = tutor.row.text /\ new.status = tutor.row.status
      /\ new.gradedAt = tutor.row.gradedAt
  <2>1. Extended(tutor.row) \in Nat
    BY <1>0, <1>2
  <2> QED BY <1>0, <2>1 DEF SubmissionRow
<1>4. Flushes(tutor.row, new)
  BY DEF ExtendCommits
<1> HIDE DEF new
<1>5. /\ submission' \in SubmissionRow
      /\ submission'.text = submission.text /\ submission'.status = submission.status
      /\ submission'.gradedAt = submission.gradedAt
      /\ submission'.retain = IF Extended(tutor.row) # tutor.row.retain
                              THEN Extended(tutor.row) ELSE submission.retain
  BY <1>0, <1>3, <1>4, FlushedRow
<1>6. /\ anchor' = IF granted = 0 THEN Deadline(tutor.row) ELSE anchor
      /\ granted' = granted + 1
      /\ lapped' = (lapped \/ Deadline(tutor.row) # Deadline(submission))
      /\ torn' = (torn \/ purge.pc # "idle")
      /\ tutor' = [tutor EXCEPT !.pc = "charging"]
      /\ UNCHANGED <<assignment, files, spent, pupil, purge, remind, today,
                     seenText, crossed, premature, ledgerVars>>
  BY DEF ExtendCommits
<1>7. /\ tutor' \in RequestOf(TutorPCs) /\ tutor'.pc = "charging"
      /\ tutor'.ref = tutor.ref /\ tutor'.row = tutor.row
  BY <1>0, <1>6 DEF RequestOf, TutorPCs
<1>8. SubmissionColumns' /\ RequestColumns'
  <2>1. anchor' \in Nat /\ granted' \in Nat
    BY <1>0, <1>2, <1>6
  <2> QED BY <1>1, <1>5, <1>6, <1>7, <2>1 DEF SubmissionInv, SubmissionColumns,
             RequestColumns, LedgerType, ledgerVars
<1>9. GradedQuietly' /\ PurgeDue'
  BY <1>0, <1>5, <1>6 DEF SubmissionInv, GradedQuietly, PurgeDue, RequestOf
<1>10. assignment # "gone" => submission'.retain # Never
  BY <1>0, <1>2, <1>5 DEF SubmissionInv, ExtendedOnRow, SubmissionRow, Never
<1>11. ExtendedOnRow'
  BY <1>6, <1>10 DEF ExtendedOnRow
<1>12. DeadlinePromised'
  <2> SUFFICES ASSUME assignment # "gone", ~lapped'
               PROVE  Deadline(submission') = Promised'
    BY <1>6 DEF DeadlinePromised
  <2>1. Deadline(tutor.row) = Deadline(submission) /\ ~lapped
    BY <1>6
  <2>2. Deadline(submission') = Deadline(submission) + ExtensionDays
    <3>1. CASE Extended(tutor.row) # tutor.row.retain
      BY <1>2, <1>5, <1>10, <2>1, <3>1 DEF Deadline
    <3>2. CASE Extended(tutor.row) = tutor.row.retain
      <4>1. tutor.row.retain # Never
        BY <1>2, <3>2
      <4>2. ExtensionDays = 0
        BY <1>0, <1>2, <3>2, <4>1
      <4>3. submission.retain # Never /\ submission'.retain = submission.retain
        BY <1>5, <3>2, <4>1 DEF SubmissionInv, ExtendedOnRow
      <4>4. Deadline(submission') = submission.retain /\ Deadline(submission) = submission.retain
        BY <4>3 DEF Deadline
      <4>5. submission.retain \in Nat
        BY <1>0 DEF SubmissionRow
      <4> QED BY <4>2, <4>4, <4>5
    <3> QED BY <3>1, <3>2
  <2>3. Promised' = anchor' + (granted + 1) * ExtensionDays
    BY <1>6 DEF Promised
  <2>4. /\ (granted + 1) * ExtensionDays = granted * ExtensionDays + ExtensionDays
        /\ granted * ExtensionDays \in Nat
    BY <1>0, OneMoreWindow
  <2>5. CASE granted = 0
    <3>1. granted * ExtensionDays = 0
      BY <1>0, <2>5
    <3>2. anchor' = Deadline(tutor.row)
      BY <1>6, <2>5
    <3> QED BY <1>0, <1>2, <2>1, <2>2, <2>3, <2>4, <3>1, <3>2
  <2>6. CASE granted > 0
    <3>1. Deadline(submission) = anchor + granted * ExtensionDays /\ anchor' = anchor
      BY <1>0, <1>6, <2>1, <2>6 DEF SubmissionInv, DeadlinePromised, Promised
    <3> QED BY <1>0, <2>2, <2>3, <2>4, <3>1
  <2> QED BY <1>0, <2>5, <2>6
<1>13. ChargesGranted'
  <2>1. ChargedRefs' = ChargedRefs
    BY <1>6 DEF ChargedRefs, ledgerVars
  <2>2. Cardinality(ChargedRefs) \in Nat /\ Cardinality(ChargedRefs) <= granted
    BY <1>0, <1>1, FS_CardinalityType DEF SubmissionInv, ChargesGranted
  <2> QED BY <1>0, <1>6, <1>7, <2>1, <2>2 DEF SubmissionInv, ChargesGranted
<1> QED BY <1>8, <1>9, <1>11, <1>12, <1>13 DEF SubmissionInv

(* A published assignment nobody has handed in keeps every promise.        *)
LEMMA SubmissionInit ==
    ASSUME SubmissionsInit, AccountFunded
    PROVE  SubmissionInv
<1>1. /\ Resting \in RequestOf(TutorPCs) /\ Resting \in RequestOf(PupilPCs)
      /\ Resting \in RequestOf({"idle", "purging"})
      /\ Resting \in RequestOf({"idle", "mailing"})
      /\ Resting.pc = "idle" /\ Resting.row = NoSubmission
      /\ NoSubmission \in SubmissionRow /\ NoSubmission.retain = Never
      /\ NoSubmission.status = "absent"
  BY RestingRequest DEF TutorPCs, PupilPCs, NoSubmission
<1>2. NoRows \in Row /\ NoRows.charged = 0
  BY DEF NoRows, Row
<1>3. SubmissionColumns /\ RequestColumns
  BY <1>1, <1>2 DEF SubmissionsInit, AccountFunded, SubmissionColumns, RequestColumns,
     LedgerType, Never
<1>4. GradedQuietly /\ PurgeDue /\ ExtendedOnRow /\ DeadlinePromised
  BY <1>1 DEF SubmissionsInit, GradedQuietly, PurgeDue, ExtendedOnRow, DeadlinePromised
<1>5. ChargedRefs = {}
  BY <1>2, SubmissionsAssumption DEF AccountFunded, ChargedRefs
<1>6. ChargesGranted
  BY <1>1, <1>5, FS_EmptySet DEF ChargesGranted, SubmissionsInit
<1> QED BY <1>3, <1>4, <1>6 DEF SubmissionInv

(* Every step of the student, the teacher and the tasks keeps it.           *)
LEMMA SubmissionStep == SubmissionInv /\ [SubmissionsNext]_submissionVars => SubmissionInv'
<1> SUFFICES ASSUME SubmissionInv, [SubmissionsNext]_submissionVars
             PROVE  SubmissionInv'
  OBVIOUS
<1>1. CASE SubmittingNext
  <2>1. \/ \E pc \in {"saving", "submitting", "uploading"} : PupilLoads(pc)
        \/ \E text \in 0..MaxText : SaveDraft(text) \/ Submit(text)
        \/ PupilOpens \/ PupilStores \/ PupilInserts \/ PupilDeletes \/ PupilGivesUp
        \/ \E f \in StudentFiles : PupilUnstores(f)
        \/ \E status \in {"draft", "published"} : SetStatus(status)
        \/ \E pc \in TutorPCs \ {"paying", "charging"} : TutorLoads(pc)
        \/ TutorStores \/ TutorInserts \/ TutorDeletes
        \/ \E f \in FeedbackFiles : TutorUnstores(f)
    BY <1>1 DEF SubmittingNext, TutorPCs
  <2> QED BY <2>1, PupilWrites, PupilFiles, TutorFiles, TasksNext
<1>2. CASE ReviewNext
  <2>1. \/ \E pc \in TutorPCs \ {"paying", "charging"} : TutorLoads(pc)
        \/ \E passed \in BOOLEAN : Grade(passed)
        \/ Reopen \/ TutorGivesUp
    BY <1>2 DEF ReviewNext, TutorPCs
  <2> QED BY <2>1, TutorFiles, GradeStep, ReopenStep
<1>3. CASE RetentionNext
  <2>1. \/ \E pc \in TutorPCs \ {"paying", "charging"} : TutorLoads(pc)
        \/ AssignmentUnstores \/ AssignmentDeletes
        \/ \E ref \in RetentionRefs : ExtendReserves(ref)
        \/ ExtendCommits \/ ExtendFails \/ ExtendCharges
        \/ RetentionScans \/ PurgeCommits \/ PurgeRollsBack
        \/ \E f \in Attachments : PurgeBytes(f)
        \/ RemindScans \/ RemindMails \/ DayPasses
    BY <1>3 DEF RetentionNext, TutorPCs, Attachments
  <2> QED BY <2>1, TutorFiles, TasksNext, AssignmentDeletesStep, ExtensionPays,
             ExtendCommitsStep, RemindMailsStep
<1>4. CASE UNCHANGED submissionVars
  <2>1. /\ UNCHANGED <<submission, spent, pupil, tutor, seenText, crossed, anchor,
                       granted, lapped, torn, ledgerVars>>
        /\ UNCHANGED <<assignment, files, today, purge, remind, premature>>
    BY <1>4 DEF submissionVars
  <2>2. /\ assignment \in {"draft", "published", "gone"} /\ files \subseteq Attachments
        /\ today \in Nat /\ purge \in RequestOf({"idle", "purging"})
        /\ remind \in RequestOf({"idle", "mailing"})
    BY DEF SubmissionInv, SubmissionColumns, RequestColumns
  <2>3. today' >= today
    BY <2>1, <2>2
  <2> QED BY <2>1, <2>2, <2>3, TasksStep
<1> QED BY <1>1, <1>2, <1>3, <1>4 DEF SubmissionsNext

(* What was graded stays what was graded, and files stay for as long as     *)
(* they were promised and paid for, whatever the student, the teacher and   *)
(* the tasks do.                                                           *)
THEOREM GradedWorkKept == SubmissionsSpec => []GradedAndKept
  BY SubmissionStep, SubmissionInit, SubmissionInvKeeps, PTL DEF SubmissionsSpec

(* What the type invariant adds: no file without an id that was used up,    *)
(* not in storage, not on the row and not in a request.                     *)
FilesUsed ==
    /\ files \subseteq spent /\ stored \subseteq spent
    /\ pupil.files \subseteq spent /\ tutor.files \subseteq spent
    /\ purge.files \subseteq spent
SubmissionFlags ==
    /\ completed \in BOOLEAN /\ crossed \in BOOLEAN /\ lapped \in BOOLEAN
    /\ premature \in BOOLEAN /\ torn \in BOOLEAN
DaysCounted == today \in 1..LastDay

SubmissionAll == SubmissionInv /\ FilesUsed /\ SubmissionFlags /\ DaysCounted

(* An assignment that was just published.                                   *)
LEMMA SubmissionAllStart == SubmissionsInit /\ AccountFunded => SubmissionAll
<1> SUFFICES ASSUME SubmissionsInit, AccountFunded
             PROVE  FilesUsed /\ SubmissionFlags /\ DaysCounted
  BY SubmissionInit DEF SubmissionAll
<1>1. FilesUsed
  BY DEF SubmissionsInit, FilesUsed, Resting
<1>2. SubmissionFlags
  BY DEF SubmissionsInit, SubmissionFlags
<1>3. DaysCounted
  BY SubmissionsAssumption DEF SubmissionsInit, DaysCounted
<1> QED BY <1>1, <1>2, <1>3

(* Only a new id is used up; storage, the rows and the requests name no     *)
(* other.                                                                   *)
LEMMA FilesUsedStep ==
    ASSUME SubmissionInv, FilesUsed, SubmissionsNext
    PROVE  FilesUsed'
<1>0. /\ pupil = [pc |-> pupil.pc, row |-> pupil.row, files |-> pupil.files, ref |-> pupil.ref]
      /\ tutor = [pc |-> tutor.pc, row |-> tutor.row, files |-> tutor.files, ref |-> tutor.ref]
      /\ purge = [pc |-> purge.pc, row |-> purge.row, files |-> purge.files, ref |-> purge.ref]
  BY DEF SubmissionInv, RequestColumns, RequestOf
<1>1. spent \subseteq spent' /\ stored' \subseteq spent'
  BY DEF SubmissionsNext, SubmittingNext, ReviewNext, RetentionNext, PupilLoads, PupilOpens,
        SaveDraft, Submit, PupilStores, PupilInserts, PupilDeletes, PupilGivesUp, PupilUnstores,
        SetStatus, TutorLoads, TutorStores, TutorInserts, TutorDeletes, TutorUnstores, Grade, Reopen,
        TutorGivesUp, AssignmentUnstores, AssignmentDeletes, ExtendReserves, ExtendCommits,
        ExtendFails, ExtendCharges, RetentionScans, PurgeCommits, PurgeRollsBack, PurgeBytes,
        RemindScans, RemindMails, DayPasses, StoreBytes, FilesUsed
<1>2. files' \subseteq files \cup pupil.files \cup tutor.files
  BY DEF SubmissionsNext, SubmittingNext, ReviewNext, RetentionNext, PupilLoads, PupilOpens,
        SaveDraft, Submit, PupilStores, PupilInserts, PupilDeletes, PupilGivesUp, PupilUnstores,
        SetStatus, TutorLoads, TutorStores, TutorInserts, TutorDeletes, TutorUnstores, Grade, Reopen,
        TutorGivesUp, AssignmentUnstores, AssignmentDeletes, ExtendReserves, ExtendCommits,
        ExtendFails, ExtendCharges, RetentionScans, PurgeCommits, PurgeRollsBack, PurgeBytes,
        RemindScans, RemindMails, DayPasses
<1>3. pupil'.files \subseteq spent'
  <2>1. \/ pupil' = pupil \/ pupil' = Resting \/ PupilOpens \/ PupilStores
        \/ \E pc \in {"saving", "submitting", "uploading"} : PupilLoads(pc)
        \/ \E f \in StudentFiles : PupilUnstores(f)
    BY DEF SubmissionsNext, SubmittingNext, ReviewNext, RetentionNext, PupilLoads, PupilOpens,
        SaveDraft, Submit, PupilStores, PupilInserts, PupilDeletes, PupilGivesUp, PupilUnstores,
        SetStatus, TutorLoads, TutorStores, TutorInserts, TutorDeletes, TutorUnstores, Grade, Reopen,
        TutorGivesUp, AssignmentUnstores, AssignmentDeletes, ExtendReserves, ExtendCommits,
        ExtendFails, ExtendCharges, RetentionScans, PurgeCommits, PurgeRollsBack, PurgeBytes,
        RemindScans, RemindMails, DayPasses
  <2>2. CASE PupilOpens \/ \E pc \in {"saving", "submitting", "uploading"} : PupilLoads(pc)
    <3>1. pupil'.files = files
      BY <2>2 DEF PupilOpens, PupilLoads, Resting
    <3> QED BY <3>1, <1>1 DEF FilesUsed
  <2>3. CASE PupilStores
    <3>1. pupil'.files = spent' \ spent
      BY <2>3, <1>0 DEF PupilStores
    <3> QED BY <3>1
  <2>4. ASSUME NEW f \in StudentFiles, PupilUnstores(f) PROVE pupil'.files \subseteq spent'
    <3>1. pupil'.files = {f} /\ f \in pupil.files
      BY <2>4, <1>0 DEF PupilUnstores
    <3> QED BY <3>1, <1>1 DEF FilesUsed
  <2>5. CASE pupil' = pupil \/ pupil' = Resting
    BY <2>5, <1>1 DEF Resting, FilesUsed
  <2> QED BY <2>1, <2>2, <2>3, <2>4, <2>5
<1>4. tutor'.files \subseteq spent'
  <2>1. \/ tutor' = tutor \/ tutor' = Resting \/ TutorStores \/ AssignmentUnstores
        \/ ExtendCommits \/ \E ref \in RetentionRefs : ExtendReserves(ref)
        \/ \E pc \in TutorPCs : TutorLoads(pc)
        \/ \E f \in FeedbackFiles : TutorUnstores(f)
    BY DEF SubmissionsNext, SubmittingNext, ReviewNext, RetentionNext, PupilLoads, PupilOpens,
        SaveDraft, Submit, PupilStores, PupilInserts, PupilDeletes, PupilGivesUp, PupilUnstores,
        SetStatus, TutorLoads, TutorStores, TutorInserts, TutorDeletes, TutorUnstores, Grade, Reopen,
        TutorGivesUp, AssignmentUnstores, AssignmentDeletes, ExtendReserves, ExtendCommits,
        ExtendFails, ExtendCharges, RetentionScans, PurgeCommits, PurgeRollsBack, PurgeBytes,
        RemindScans, RemindMails, DayPasses, TutorPCs
  <2>2. ASSUME NEW pc \in TutorPCs, TutorLoads(pc) PROVE tutor'.files \subseteq spent'
    <3>1. tutor'.files = files
      BY <2>2 DEF TutorLoads, Resting
    <3> QED BY <3>1, <1>1 DEF FilesUsed
  <2>3. CASE TutorStores
    <3>1. tutor'.files = spent' \ spent
      BY <2>3, <1>0 DEF TutorStores
    <3> QED BY <3>1
  <2>4. ASSUME NEW f \in FeedbackFiles, TutorUnstores(f) PROVE tutor'.files \subseteq spent'
    <3>1. tutor'.files = {f} /\ f \in tutor.files
      BY <2>4, <1>0 DEF TutorUnstores
    <3> QED BY <3>1, <1>1 DEF FilesUsed
  <2>5. CASE AssignmentUnstores \/ ExtendCommits \/ \E ref \in RetentionRefs : ExtendReserves(ref)
    <3>1. tutor'.files = tutor.files
      BY <2>5, <1>0 DEF AssignmentUnstores, ExtendCommits, ExtendReserves
    <3> QED BY <3>1, <1>1 DEF FilesUsed
  <2>6. CASE tutor' = tutor \/ tutor' = Resting
    BY <2>6, <1>1 DEF Resting, FilesUsed
  <2> QED BY <2>1, <2>2, <2>3, <2>4, <2>5, <2>6
<1>5. purge'.files \subseteq spent'
  <2>1. purge' = purge \/ purge' = Resting \/ RetentionScans
    BY DEF SubmissionsNext, SubmittingNext, ReviewNext, RetentionNext, PupilLoads, PupilOpens,
        SaveDraft, Submit, PupilStores, PupilInserts, PupilDeletes, PupilGivesUp, PupilUnstores,
        SetStatus, TutorLoads, TutorStores, TutorInserts, TutorDeletes, TutorUnstores, Grade, Reopen,
        TutorGivesUp, AssignmentUnstores, AssignmentDeletes, ExtendReserves, ExtendCommits,
        ExtendFails, ExtendCharges, RetentionScans, PurgeCommits, PurgeRollsBack, PurgeBytes,
        RemindScans, RemindMails, DayPasses
  <2>2. CASE RetentionScans
    BY <2>2, <1>1 DEF RetentionScans, Resting, FilesUsed
  <2> QED BY <2>1, <2>2, <1>1 DEF Resting, FilesUsed
<1> QED BY <1>1, <1>2, <1>3, <1>4, <1>5 DEF FilesUsed

(* The flags of the history are flags, and the clock stops at the last day. *)
LEMMA FlagsStep ==
    ASSUME SubmissionFlags, DaysCounted, SubmissionsNext
    PROVE  SubmissionFlags' /\ DaysCounted'
<1> USE DEF SubmissionsNext, SubmittingNext, ReviewNext, RetentionNext, PupilLoads, PupilOpens,
        SaveDraft, Submit, PupilStores, PupilInserts, PupilDeletes, PupilGivesUp, PupilUnstores,
        SetStatus, TutorLoads, TutorStores, TutorInserts, TutorDeletes, TutorUnstores, Grade, Reopen,
        TutorGivesUp, AssignmentUnstores, AssignmentDeletes, ExtendReserves, ExtendCommits,
        ExtendFails, ExtendCharges, RetentionScans, PurgeCommits, PurgeRollsBack, PurgeBytes,
        RemindScans, RemindMails, DayPasses
<1>1. completed' \in BOOLEAN
  BY DEF SubmissionFlags
<1>2. crossed' \in BOOLEAN
  BY DEF SubmissionFlags
<1>3. lapped' \in BOOLEAN
  BY DEF SubmissionFlags
<1>4. premature' \in BOOLEAN
  BY DEF SubmissionFlags
<1>5. torn' \in BOOLEAN
  BY DEF SubmissionFlags
<1>6. today' = today \/ (today < LastDay /\ today' = today + 1)
  OBVIOUS
<1>7. SubmissionFlags'
  BY <1>1, <1>2, <1>3, <1>4, <1>5 DEF SubmissionFlags
<1> HIDE DEF SubmissionsNext, SubmittingNext, ReviewNext, RetentionNext, PupilLoads, PupilOpens,
        SaveDraft, Submit, PupilStores, PupilInserts, PupilDeletes, PupilGivesUp, PupilUnstores,
        SetStatus, TutorLoads, TutorStores, TutorInserts, TutorDeletes, TutorUnstores, Grade, Reopen,
        TutorGivesUp, AssignmentUnstores, AssignmentDeletes, ExtendReserves, ExtendCommits,
        ExtendFails, ExtendCharges, RetentionScans, PurgeCommits, PurgeRollsBack, PurgeBytes,
        RemindScans, RemindMails, DayPasses
<1>8. DaysCounted'
  BY <1>6, SubmissionsAssumption DEF DaysCounted
<1> QED BY <1>7, <1>8

(* Every step keeps it all.                                                 *)
LEMMA SubmissionAllStep ==
    SubmissionAll /\ [SubmissionsNext]_submissionVars => SubmissionAll'
<1> SUFFICES ASSUME SubmissionAll, [SubmissionsNext]_submissionVars PROVE SubmissionAll'
  OBVIOUS
<1>1. SubmissionInv'
  BY SubmissionStep DEF SubmissionAll
<1>2. CASE SubmissionsNext
  BY <1>1, <1>2, FilesUsedStep, FlagsStep DEF SubmissionAll
<1>3. CASE UNCHANGED submissionVars
  BY <1>1, <1>3 DEF submissionVars, SubmissionAll, FilesUsed, SubmissionFlags, DaysCounted
<1> QED BY <1>2, <1>3

(* It types every variable of the component.                                *)
LEMMA SubmissionAllTyped == SubmissionAll => SubmissionsTypeOK
<1> SUFFICES ASSUME SubmissionAll PROVE SubmissionsTypeOK
  OBVIOUS
<1>1. SubmissionColumns
  BY DEF SubmissionAll, SubmissionInv
<1>2. {completed, crossed, lapped, premature, torn} \subseteq BOOLEAN
  BY DEF SubmissionAll, SubmissionFlags
<1>3. files \cup stored \subseteq spent /\ today \in 1..LastDay
  BY DEF SubmissionAll, FilesUsed, DaysCounted
<1> QED BY <1>1, <1>2, <1>3 DEF SubmissionColumns, Attachments, SubmissionsTypeOK

-----------------------------------------------------------------------------
(* Attempts: allowances, grading holds, scores and completion.             *)

(* A score adds up what the answers were awarded, and nothing else of them *)
(* counts.                                                                 *)
LEMMA AggregateScore ==
    ASSUME openQuiz \in BOOLEAN, NEW sheet \in Sheet
    PROVE  Aggregate(sheet) \in {0, 1, 2}
<1> DEFINE f == [q \in Questions2 |-> NonNeg(sheet[q].awarded)]
<1>1. Questions2 \subseteq {"closed", "open"} /\ IsFiniteSet(Questions2)
  <2>1. IsFiniteSet({"closed"}) /\ IsFiniteSet({"closed"} \cup {"open"})
    BY FS_Singleton, FS_AddElement
  <2>2. {"closed"} \cup {"open"} = {"closed", "open"}
    OBVIOUS
  <2> QED BY <2>1, <2>2 DEF Questions2
<1>2. \A q \in Questions2 : f[q] \in {0, 1}
  <2>1. ASSUME NEW q \in Questions2 PROVE f[q] \in {0, 1}
    <3>1. sheet[q].awarded \in {-1, 0, 1}
      BY <1>1 DEF Sheet, AnswerRow, Points, Null
    <3> QED BY <3>1 DEF NonNeg
  <2> QED BY <2>1
<1>3. f \in [Questions2 -> Int]
  BY <1>2
<1>4. Aggregate(sheet) = SumFunction(f)
  BY DEF Aggregate
<1> HIDE DEF f
<1>5. PICK g : AddsUp(g, f, Questions2)
  BY <1>1, <1>3, SumIsTally
<1>6. g[{"closed"}] = f["closed"]
  <2>1. {"closed"} \in SUBSET Questions2 /\ "closed" \in Questions2
    BY DEF Questions2
  <2>2. Taken({"closed"}) \in {"closed"} /\ g[{"closed"}] =
          f[Taken({"closed"})] + g[{"closed"} \ {Taken({"closed"})}] /\ g[{}] = 0
    BY <1>5, <2>1 DEF AddsUp
  <2>3. Taken({"closed"}) = "closed" /\ {"closed"} \ {"closed"} = {}
    BY <2>2
  <2>4. f["closed"] \in Int
    BY <1>3, <2>1
  <2>5. g[{"closed"}] = f["closed"] + g[{}] /\ g[{}] = 0
    BY <2>2, <2>3
  <2> QED BY <2>4, <2>5
<1>7. CASE Questions2 = {"closed"}
  <2>1. Aggregate(sheet) = f["closed"] /\ "closed" \in Questions2
    BY <1>4, <1>5, <1>6, <1>7 DEF AddsUp
  <2> QED BY <1>2, <2>1
<1>8. CASE Questions2 = {"closed", "open"}
  <2> DEFINE S == {"closed", "open"}
             t == Taken(S)
  <2>1. t \in S /\ g[S] = f[t] + g[S \ {t}] /\ g[{}] = 0
    BY <1>5, <1>8 DEF AddsUp
  <2>2. S \in SUBSET Questions2 /\ {"open"} \in SUBSET Questions2 /\ "open" \in Questions2
    BY <1>8
  <2>3. g[{"open"}] = f["open"]
    <3>1. Taken({"open"}) \in {"open"} /\ g[{"open"}] =
            f[Taken({"open"})] + g[{"open"} \ {Taken({"open"})}] /\ g[{}] = 0
      BY <1>5, <2>2 DEF AddsUp
    <3>2. Taken({"open"}) = "open" /\ {"open"} \ {"open"} = {}
      BY <3>1
    <3>3. f["open"] \in Int
      BY <1>3, <2>2
    <3>4. g[{"open"}] = f["open"] + g[{}] /\ g[{}] = 0
      BY <3>1, <3>2
    <3> QED BY <3>3, <3>4
  <2>4. f["open"] \in {0, 1} /\ f["closed"] \in {0, 1}
    BY <1>2, <1>8
  <2>5. \/ t = "closed" /\ S \ {t} = {"open"}
        \/ t = "open" /\ S \ {t} = {"closed"}
    BY <2>1
  <2>6. Aggregate(sheet) = g[S]
    BY <1>4, <1>5, <1>8 DEF AddsUp
  <2> HIDE DEF S, t
  <2> QED BY <1>6, <2>1, <2>3, <2>4, <2>5, <2>6
<1> QED BY <1>7, <1>8 DEF Questions2

(* The unit of work: what a commit leaves in a row is of the row's type,   *)
(* and an untouched column keeps its current value.                        *)
LEMMA FlushedAttempt ==
    ASSUME NEW loaded \in AttemptRow, NEW new \in AttemptRow, NEW current \in AttemptRow
    PROVE  /\ Flushed(loaded, new, current) \in AttemptRow
           /\ \A f \in {"status", "number", "score"} :
                 Flushed(loaded, new, current)[f] =
                     IF new[f] # loaded[f] THEN new[f] ELSE current[f]
<1> DEFINE row == Flushed(loaded, new, current)
<1>1. row = [f \in {"status", "number", "score"} |->
                IF new[f] # loaded[f] THEN new[f] ELSE current[f]]
  BY DEF Flushed, AttemptRow
<1>2. /\ row.status \in {"absent", "in_progress", "submitted", "graded"}
      /\ row.number \in Nat /\ row.score \in {Null, 0, 1, 2}
  BY <1>1 DEF AttemptRow
<1>3. row = [status |-> row.status, number |-> row.number, score |-> row.score]
  BY <1>1
<1> HIDE DEF row
<1>4. row \in AttemptRow
  BY <1>2, <1>3 DEF AttemptRow
<1> QED BY <1>1, <1>4 DEF row

(* The same for the answers of an attempt, row by row.                     *)
LEMMA FlushedAnswers ==
    ASSUME NEW loaded \in Sheet, NEW new \in Sheet, NEW current \in Sheet
    PROVE  /\ FlushedSheet(loaded, new, current) \in Sheet
           /\ \A q \in {"closed", "open"} :
                 \A f \in {"exists", "right", "awarded", "review", "manual"} :
                    FlushedSheet(loaded, new, current)[q][f] =
                       IF new[q][f] # loaded[q][f] THEN new[q][f] ELSE current[q][f]
<1> DEFINE sheet == FlushedSheet(loaded, new, current)
           row(q) == Flushed(loaded[q], new[q], current[q])
<1>1. sheet = [q \in {"closed", "open"} |-> row(q)]
  BY DEF FlushedSheet, Sheet
<1>2. ASSUME NEW q \in {"closed", "open"}
      PROVE  /\ row(q) \in AnswerRow
             /\ \A f \in {"exists", "right", "awarded", "review", "manual"} :
                   row(q)[f] = IF new[q][f] # loaded[q][f] THEN new[q][f] ELSE current[q][f]
  <2>1. loaded[q] \in AnswerRow /\ new[q] \in AnswerRow /\ current[q] \in AnswerRow
    BY DEF Sheet
  <2>2. row(q) = [f \in {"exists", "right", "awarded", "review", "manual"} |->
                    IF new[q][f] # loaded[q][f] THEN new[q][f] ELSE current[q][f]]
    BY <2>1 DEF Flushed, AnswerRow
  <2> HIDE DEF row
  <2>3. /\ row(q).exists \in BOOLEAN /\ row(q).right \in BOOLEAN /\ row(q).awarded \in Points
        /\ row(q).review \in BOOLEAN /\ row(q).manual \in BOOLEAN
    BY <2>1, <2>2 DEF AnswerRow
  <2>4. row(q) = [exists |-> row(q).exists, right |-> row(q).right,
                  awarded |-> row(q).awarded, review |-> row(q).review,
                  manual |-> row(q).manual]
    BY <2>2
  <2>5. row(q) \in AnswerRow
    BY <2>3, <2>4 DEF AnswerRow
  <2> QED BY <2>2, <2>5
<1> HIDE DEF row
<1>3. sheet \in Sheet
  BY <1>1, <1>2 DEF Sheet
<1> QED BY <1>1, <1>2, <1>3

(* The same for the lesson's progress row.                                 *)
LEMMA FlushedProgress ==
    ASSUME NEW loaded \in ProgressRow, NEW new \in ProgressRow, NEW current \in ProgressRow
    PROVE  /\ Flushed(loaded, new, current) \in ProgressRow
           /\ \A f \in {"exists", "best", "done"} :
                 Flushed(loaded, new, current)[f] =
                     IF new[f] # loaded[f] THEN new[f] ELSE current[f]
<1> DEFINE row == Flushed(loaded, new, current)
<1>1. row = [f \in {"exists", "best", "done"} |->
                IF new[f] # loaded[f] THEN new[f] ELSE current[f]]
  BY DEF Flushed, ProgressRow
<1>2. row.exists \in BOOLEAN /\ row.best \in {Null, 0, 1, 2} /\ row.done \in BOOLEAN
  BY <1>1 DEF ProgressRow
<1>3. row = [exists |-> row.exists, best |-> row.best, done |-> row.done]
  BY <1>1
<1> HIDE DEF row
<1>4. row \in ProgressRow
  BY <1>2, <1>3 DEF ProgressRow
<1> QED BY <1>1, <1>4 DEF row

-----------------------------------------------------------------------------
SubmitPCs == {"idle", "metering", "marking", "writing", "enqueuing", "done"}
GradePCs == {"idle", "queued", "metering", "asking", "reading", "committing", "settling",
             "ended", "failed"}
EditPCs == {"idle", "saving", "overriding", "byhand"}

(* A request or task on the copies it holds.                               *)
Work(pcs) == [pc : pcs, a : Attempts, row : AttemptRow, sheet : Sheet,
              prog : ProgressRow, ref : GradeRefs \cup {"none"}, mark : Points]

RowsTyped ==
    /\ openQuiz \in BOOLEAN
    /\ attempt \in [Attempts -> AttemptRow] /\ answer \in [Attempts -> Sheet]
    /\ progress \in ProgressRow

WorkTyped ==
    /\ starter \in [Starters -> {0, Checked} \cup 1..AttemptsAllowed]
    /\ submitter \in [Submitters -> Work(SubmitPCs)]
    /\ grader \in [Submitters -> Work(GradePCs)]
    /\ editing \in Work(EditPCs)

SlotsTyped == daySlots \in 0..DailyGrades /\ freeSlots \in 0..FreeGrades

(* Attempts are numbered from 1 to the allowance, each number once.        *)
Numbered ==
    \A a \in Existing :
        /\ attempt[a].number \in 1..AttemptsAllowed
        /\ \A b \in Existing : attempt[a].number = attempt[b].number => a = b

(* Only an attempt that exists has answers or is worked on.                *)
Addressed ==
    /\ \A a \in Attempts : attempt[a].status = "absent" =>
          \A q \in {"closed", "open"} : ~answer[a][q].exists
    /\ \A u \in Submitters :
          /\ submitter[u].pc \notin {"idle", "done"} => submitter[u].a \in Existing
          /\ grader[u].pc \notin {"idle", "ended", "failed"} => grader[u].a \in Existing
    /\ editing.pc \in {"saving", "overriding"} => editing.a \in Existing

(* A grading task's hold is its own, untouched until the task settles it   *)
(* and settled as the model's verdict says.                                *)
GradeHeld(row) ==
    /\ row.reserves = 1 /\ row.finals = 0 /\ row.held = GradeCost
    /\ row.charged = 0 /\ row.released = 0

PaidRow(row, cost) ==
    /\ row.reserves = 1 /\ row.held = GradeCost
    /\ row.charged = cost /\ row.released = GradeCost - cost

HoldOwned(task) ==
    task.ref # "none" =>
        /\ task.ref \in GradeRefs
        /\ task.pc \in {"asking", "reading", "committing", "settling", "ended"}
        /\ task.pc # "ended" => GradeHeld(ledger[task.ref])
        /\ task.pc = "ended" =>
              PaidRow(ledger[task.ref], IF task.mark # Null THEN GradeCost ELSE 0)

FreshRow(row) ==
    row.reserves = 0 =>
        row.finals = 0 /\ row.held = 0 /\ row.charged = 0 /\ row.released = 0

HoldsOwned ==
    /\ \A ref \in Refs : FreshRow(ledger[ref])
    /\ \A u \in Submitters : HoldOwned(grader[u])
    /\ \A u, v \in Submitters :
          u # v /\ grader[u].ref # "none" => grader[u].ref # grader[v].ref

AttemptsInv ==
    /\ RowsTyped /\ WorkTyped /\ SlotsTyped /\ LedgerType /\ opened
    /\ Numbered /\ Addressed /\ HoldsOwned

(* The attempts that exist fit into the allowance, so a free number means  *)
(* that a row is left for it.                                              *)
LEMMA FewAttempts ==
    ASSUME RowsTyped, Numbered
    PROVE  /\ IsFiniteSet(Existing) /\ Cardinality(Existing) \in Nat
           /\ Cardinality(Existing) <= AttemptsAllowed
<1> USE GradingAssumption
<1>1. IsFiniteSet(Existing) /\ Cardinality(Existing) \in Nat
  BY FS_Subset, FS_CardinalityType DEF Existing
<1>2. IsFiniteSet(1..AttemptsAllowed) /\ Cardinality(1..AttemptsAllowed) = AttemptsAllowed
  BY FS_Interval
<1>3. SUFFICES ASSUME ~(Cardinality(Existing) <= AttemptsAllowed) PROVE FALSE
  BY <1>1
<1> DEFINE f == [a \in Existing |-> attempt[a].number]
<1>4. f \in [Existing -> 1..AttemptsAllowed]
  BY DEF Numbered
<1>5. \E a, b \in Existing : a # b /\ f[a] = f[b]
  <2>1. Cardinality(1..AttemptsAllowed) < Cardinality(Existing)
    BY <1>1, <1>2, <1>3
  <2> HIDE DEF f
  <2> QED BY <1>1, <1>2, <1>4, <2>1, FS_PigeonHole
<1> QED BY <1>5 DEF Numbered

(* A number no attempt has is an attempt row that does not exist yet.      *)
LEMMA RoomForNumber ==
    ASSUME RowsTyped, Numbered, NEW n \in 1..AttemptsAllowed, NumberFree(n)
    PROVE  \E x \in Attempts : attempt[x].status = "absent"
<1> USE GradingAssumption
<1>1. SUFFICES ASSUME \A x \in Attempts : attempt[x].status # "absent" PROVE FALSE
  OBVIOUS
<1>2. Existing = Attempts
  BY <1>1 DEF Existing
<1> DEFINE numbers == (1..AttemptsAllowed) \ {n}
<1>3. IsFiniteSet(numbers) /\ Cardinality(numbers) = AttemptsAllowed - 1
  <2> DEFINE I == 1..AttemptsAllowed
  <2>1. IsFiniteSet(I) /\ Cardinality(I) = AttemptsAllowed /\ n \in I
    BY FS_Interval
  <2> HIDE DEF I
  <2>2. IsFiniteSet(I \ {n}) /\ Cardinality(I \ {n}) = Cardinality(I) - 1
    BY <2>1, FS_RemoveElement
  <2> QED BY <2>1, <2>2 DEF I
<1> DEFINE f == [a \in Existing |-> attempt[a].number]
<1>4. f \in [Existing -> numbers]
  BY DEF Numbered, NumberFree
<1>5. \E a, b \in Existing : a # b /\ f[a] = f[b]
  <2>1. Cardinality(numbers) < Cardinality(Existing) /\ IsFiniteSet(Existing)
    <3>1. Cardinality(Attempts) \in Nat
      BY FS_CardinalityType
    <3>2. /\ IsFiniteSet(Existing) /\ Cardinality(Existing) = Cardinality(Attempts)
          /\ AttemptsAllowed \in Nat /\ AttemptsAllowed <= Cardinality(Attempts)
      BY <1>2
    <3> HIDE DEF numbers
    <3> QED BY <1>3, <3>1, <3>2
  <2> HIDE DEF f, numbers
  <2> QED BY <1>3, <1>4, <2>1, FS_PigeonHole
<1> QED BY <1>5 DEF Numbered

(* The invariant says what the two state properties say.                   *)
LEMMA AttemptsInvTells ==
    AttemptsInv => AttemptsTypeOK /\ AttemptsWithinAllowance /\ GradingPaidIfGraded
<1> SUFFICES ASSUME AttemptsInv
             PROVE  AttemptsTypeOK /\ AttemptsWithinAllowance /\ GradingPaidIfGraded
  OBVIOUS
<1>1. AttemptsTypeOK
  BY DEF AttemptsInv, RowsTyped, SlotsTyped, AttemptsTypeOK
<1>2. AttemptsWithinAllowance
  BY FewAttempts DEF AttemptsInv, AttemptsWithinAllowance
<1>3. GradingPaidIfGraded
  <2> SUFFICES ASSUME NEW u \in Submitters, grader[u].pc = "ended", grader[u].ref # "none"
               PROVE  /\ Outstanding(grader[u].ref) = 0
                      /\ ledger[grader[u].ref].charged > 0 <=> grader[u].mark # Null
    BY DEF GradingPaidIfGraded
  <2> DEFINE cost == IF grader[u].mark # Null THEN GradeCost ELSE 0
  <2>1. PaidRow(ledger[grader[u].ref], cost)
    BY DEF AttemptsInv, HoldsOwned, HoldOwned
  <2>2. GradeCost \in Nat \ {0} /\ cost \in Nat
    BY GradingAssumption
  <2> HIDE DEF cost
  <2>3. Outstanding(grader[u].ref) = 0
    BY <2>1, <2>2, GradingAssumption DEF PaidRow, Outstanding
  <2>4. ledger[grader[u].ref].charged = cost
    BY <2>1 DEF PaidRow
  <2> QED BY <2>2, <2>3, <2>4 DEF cost
<1> QED BY <1>1, <1>2, <1>3

(* Requests and tasks at rest.                                             *)
LEMMA IdleWork ==
    /\ \A pcs : "idle" \in pcs => Idle \in Work(pcs)
    /\ Idle.pc = "idle" /\ Idle.ref = "none" /\ Idle.mark = Null
    /\ NoAttempt \in AttemptRow /\ BlankSheet \in Sheet /\ NoProgress \in ProgressRow
<1>1. NoAttempt \in AttemptRow /\ NoProgress \in ProgressRow
  BY DEF NoAttempt, AttemptRow, NoProgress, ProgressRow
<1>2. BlankSheet \in Sheet
  <2>1. NoAnswer \in AnswerRow
    BY DEF NoAnswer, AnswerRow, Points
  <2> QED BY <2>1 DEF BlankSheet, Sheet
<1>3. (CHOOSE a \in Attempts : TRUE) \in Attempts
  BY GradingAssumption
<1> QED BY <1>1, <1>2, <1>3 DEF Idle, Work, Points, Null

-----------------------------------------------------------------------------
(* Steps by which no attempt appears or is renumbered.                     *)
SameRoster ==
    \A a \in Attempts :
        /\ attempt'[a].status = "absent" <=> attempt[a].status = "absent"
        /\ attempt'[a].number = attempt[a].number

(* Such steps keep the attempts and their numbers.                         *)
LEMMA RosterKept ==
    ASSUME Numbered, SameRoster
    PROVE  Existing' = Existing /\ Numbered'
<1>1. Existing' = Existing
  BY DEF SameRoster, Existing
<1>2. \A a \in Existing : attempt'[a].number = attempt[a].number
  BY DEF SameRoster, Existing
<1> QED BY <1>1, <1>2 DEF Numbered

(* Steps that leave the journal alone leave every hold with its task, if   *)
(* the tasks keep or drop their holds.                                     *)
LEMMA HoldsKept ==
    ASSUME HoldsOwned, ledger' = ledger,
           \A u \in Submitters : grader'[u].ref # "none" =>
              /\ grader'[u].ref = grader[u].ref
              /\ \/ grader'[u] = grader[u]
                 \/ /\ grader[u].pc # "ended"
                    /\ grader'[u].pc \in {"asking", "reading", "committing", "settling"}
    PROVE  HoldsOwned'
<1>1. ASSUME NEW u \in Submitters PROVE HoldOwned(grader[u])'
  BY DEF HoldsOwned, HoldOwned
<1>2. ASSUME NEW u \in Submitters, NEW v \in Submitters, u # v, grader'[u].ref # "none"
      PROVE  grader'[u].ref # grader'[v].ref
  BY <1>2 DEF HoldsOwned
<1> QED BY <1>1, <1>2 DEF HoldsOwned

(* A request of one student's quiz moves on; no row is written.            *)
LEMMA SubmitterMoves ==
    ASSUME AttemptsInv, NEW u \in Submitters, NEW r \in Work(SubmitPCs),
           submitter' = [submitter EXCEPT ![u] = r],
           r.pc \notin {"idle", "done"} => r.a \in Existing,
           UNCHANGED <<openQuiz, attempt, answer, progress, starter, grader, editing,
                       ledgerVars>>,
           SlotsTyped'
    PROVE  AttemptsInv'
<1>1. RowsTyped' /\ WorkTyped' /\ LedgerType' /\ opened'
  BY DEF AttemptsInv, RowsTyped, WorkTyped, LedgerType, ledgerVars
<1>2. Existing' = Existing /\ Numbered'
  BY RosterKept DEF SameRoster, AttemptsInv
<1>3. Addressed'
  BY <1>2 DEF AttemptsInv, WorkTyped, Addressed
<1>4. HoldsOwned'
  BY HoldsKept DEF AttemptsInv, ledgerVars
<1> QED BY <1>1, <1>2, <1>3, <1>4 DEF AttemptsInv

(* A start request or a request on one attempt moves on.                   *)
LEMMA RequestMoves ==
    ASSUME AttemptsInv,
           starter' \in [Starters -> {0, Checked} \cup 1..AttemptsAllowed],
           editing' \in Work(EditPCs),
           editing'.pc \in {"saving", "overriding"} => editing'.a \in Existing,
           UNCHANGED <<openQuiz, attempt, answer, progress, submitter, grader, daySlots,
                       freeSlots, ledgerVars>>
    PROVE  AttemptsInv'
<1>1. RowsTyped' /\ WorkTyped' /\ SlotsTyped' /\ LedgerType' /\ opened'
  BY DEF AttemptsInv, RowsTyped, WorkTyped, SlotsTyped, LedgerType, ledgerVars
<1>2. Existing' = Existing /\ Numbered'
  BY RosterKept DEF SameRoster, AttemptsInv
<1>3. Addressed'
  BY <1>2 DEF AttemptsInv, Addressed
<1>4. HoldsOwned'
  BY HoldsKept DEF AttemptsInv, ledgerVars
<1> QED BY <1>1, <1>2, <1>3, <1>4 DEF AttemptsInv

(* A grading task moves on, keeping or dropping its hold.                  *)
LEMMA GraderMoves ==
    ASSUME AttemptsInv, NEW u \in Submitters, NEW r \in Work(GradePCs),
           grader' = [grader EXCEPT ![u] = r],
           r.pc \notin {"idle", "ended", "failed"} => r.a \in Existing,
           r.ref # "none" =>
              /\ r.ref = grader[u].ref /\ grader[u].pc # "ended"
              /\ r.pc \in {"asking", "reading", "committing", "settling"},
           UNCHANGED <<openQuiz, attempt, answer, progress, starter, submitter, editing,
                       ledgerVars>>,
           SlotsTyped'
    PROVE  AttemptsInv'
<1>1. RowsTyped' /\ WorkTyped' /\ LedgerType' /\ opened'
  BY DEF AttemptsInv, RowsTyped, WorkTyped, LedgerType, ledgerVars
<1>2. Existing' = Existing /\ Numbered'
  BY RosterKept DEF SameRoster, AttemptsInv
<1>3. Addressed'
  BY <1>2 DEF AttemptsInv, WorkTyped, Addressed
<1>4. HoldsOwned'
  <2>1. \A v \in Submitters : grader'[v] = IF v = u THEN r ELSE grader[v]
    BY DEF AttemptsInv, WorkTyped
  <2> QED BY <2>1, HoldsKept DEF AttemptsInv, ledgerVars
<1> QED BY <1>1, <1>2, <1>3, <1>4 DEF AttemptsInv

-----------------------------------------------------------------------------
(* Starting: the number a request computed is within the allowance, and    *)
(* the insert is refused when another request took it.                     *)
LEMMA StartStep ==
    ASSUME AttemptsInv, NEW s \in Starters,
           StartChecks(s) \/ StartCounts(s) \/ StartInserts(s)
    PROVE  AttemptsInv'
<1>0. /\ starter \in [Starters -> {0, Checked} \cup 1..AttemptsAllowed]
      /\ editing \in Work(EditPCs) /\ attempt \in [Attempts -> AttemptRow]
      /\ editing.pc \in {"saving", "overriding"} => editing.a \in Existing
  BY DEF AttemptsInv, WorkTyped, RowsTyped, Addressed
<1>1. CASE StartChecks(s)
  BY <1>0, <1>1, RequestMoves DEF StartChecks
<1>2. CASE StartCounts(s)
  <2> DEFINE used == Cardinality(Existing)
             n == IF used < AttemptsAllowed THEN used + 1 ELSE 0
  <2>1. used \in Nat
    BY FewAttempts DEF AttemptsInv
  <2>2. n \in {0, Checked} \cup 1..AttemptsAllowed
    <3> HIDE DEF used
    <3> QED BY <2>1, GradingAssumption
  <2>3. starter' = [starter EXCEPT ![s] = n]
    BY <1>2 DEF StartCounts
  <2> HIDE DEF n
  <2>4. starter' \in [Starters -> {0, Checked} \cup 1..AttemptsAllowed]
    BY <1>0, <2>2, <2>3
  <2> QED BY <1>0, <1>2, <2>4, RequestMoves DEF StartCounts
<1>3. CASE StartInserts(s)
  <2> DEFINE n == starter[s]
             a == CHOOSE x \in Attempts : attempt[x].status = "absent"
             row == [status |-> "in_progress", number |-> n, score |-> Null]
  <2>1. n \in 1..AttemptsAllowed /\ n \in Nat
    BY <1>0, <1>3, GradingAssumption DEF StartInserts, Checked
  <2>2. starter' \in [Starters -> {0, Checked} \cup 1..AttemptsAllowed]
    BY <1>0, <1>3 DEF StartInserts
  <2>3. UNCHANGED <<openQuiz, answer, progress, submitter, grader, editing, daySlots,
                    freeSlots, ledgerVars>>
    BY <1>3 DEF StartInserts
  <2>4. CASE ~NumberFree(n)
    <3>1. UNCHANGED attempt
      BY <1>3, <2>4 DEF StartInserts
    <3> QED BY <1>0, <2>2, <2>3, <3>1, RequestMoves
  <2>5. CASE NumberFree(n)
    <3>1. a \in Attempts /\ attempt[a].status = "absent"
      <4>1. \E x \in Attempts : attempt[x].status = "absent"
        BY <2>1, <2>5, RoomForNumber DEF AttemptsInv
      <4> QED BY <4>1
    <3>2. attempt' = [attempt EXCEPT ![a] = row]
      BY <1>3, <2>5 DEF StartInserts
    <3>3. row \in AttemptRow /\ row.status = "in_progress" /\ row.number = n
      BY <2>1 DEF AttemptRow, Null
    <3> HIDE DEF a, row
    <3>4. RowsTyped' /\ WorkTyped' /\ SlotsTyped' /\ LedgerType' /\ opened'
      BY <2>2, <2>3, <3>1, <3>2, <3>3 DEF AttemptsInv, RowsTyped, WorkTyped, SlotsTyped,
         LedgerType, ledgerVars
    <3>5. Existing' = Existing \cup {a} /\ a \notin Existing
      BY <1>0, <3>1, <3>2, <3>3 DEF Existing
    <3>6. /\ attempt'[a].number = n
          /\ \A b \in Existing : attempt'[b].number = attempt[b].number
      BY <1>0, <3>1, <3>2, <3>3, <3>5 DEF Existing
    <3>7. \A b \in Existing : attempt[b].number # n
      BY <2>5 DEF NumberFree
    <3>8. Numbered'
      BY <2>1, <3>5, <3>6, <3>7 DEF AttemptsInv, Numbered
    <3>9. Addressed'
      BY <1>0, <2>3, <3>1, <3>2, <3>5 DEF AttemptsInv, Addressed, Existing
    <3>10. HoldsOwned'
      BY <2>3, HoldsKept DEF AttemptsInv, ledgerVars
    <3> QED BY <3>4, <3>8, <3>9, <3>10 DEF AttemptsInv
  <2> QED BY <2>4, <2>5
<1> QED BY <1>1, <1>2, <1>3

-----------------------------------------------------------------------------
(* A request on one attempt loads the rows it will write later.            *)
LEMMA EditLoadsStep ==
    ASSUME AttemptsInv, NEW a \in Attempts,
           SaveLoads(a) \/ OverrideLoads(a) \/ GradeByHandLoads
    PROVE  AttemptsInv'
<1>0. /\ starter \in [Starters -> {0, Checked} \cup 1..AttemptsAllowed]
      /\ attempt \in [Attempts -> AttemptRow] /\ answer \in [Attempts -> Sheet]
      /\ progress \in ProgressRow
  BY DEF AttemptsInv, WorkTyped, RowsTyped
<1>1. CASE SaveLoads(a)
  <2> DEFINE r == [Idle EXCEPT !.pc = "saving", !.a = a, !.sheet = answer[a]]
  <2>1. r \in Work(EditPCs) /\ r.a = a
    BY <1>0, IdleWork DEF Work, EditPCs
  <2>2. editing' = r
    BY <1>1 DEF SaveLoads
  <2> HIDE DEF r
  <2>3. a \in Existing
    BY <1>1 DEF SaveLoads, Existing
  <2> QED BY <1>0, <1>1, <2>1, <2>2, <2>3, RequestMoves DEF SaveLoads
<1>2. CASE OverrideLoads(a)
  <2> DEFINE r == [Idle EXCEPT !.pc = "overriding", !.a = a,
                               !.row = attempt[a], !.sheet = answer[a]]
  <2>1. r \in Work(EditPCs) /\ r.a = a
    BY <1>0, IdleWork DEF Work, EditPCs
  <2>2. editing' = r
    BY <1>2 DEF OverrideLoads
  <2> HIDE DEF r
  <2>3. a \in Existing
    BY <1>2 DEF OverrideLoads, Existing, AttemptsInv, Addressed, Questions2
  <2> QED BY <1>0, <1>2, <2>1, <2>2, <2>3, RequestMoves DEF OverrideLoads
<1>3. CASE GradeByHandLoads
  <2> DEFINE r == [Idle EXCEPT !.pc = "byhand", !.prog = progress]
  <2>1. r \in Work(EditPCs) /\ r.pc = "byhand"
    BY <1>0, IdleWork DEF Work, EditPCs
  <2>2. editing' = r
    BY <1>3 DEF GradeByHandLoads
  <2> HIDE DEF r
  <2> QED BY <1>0, <1>3, <2>1, <2>2, RequestMoves DEF GradeByHandLoads
<1> QED BY <1>1, <1>2, <1>3

(* Submitting, up to the commit.                                           *)
LEMMA SubmitStep ==
    ASSUME AttemptsInv, NEW u \in Submitters,
           \/ \E a \in Attempts : SubmitLoads(u, a)
           \/ SubmitTakesSlot(u) \/ SubmitReadsProgress(u) \/ SubmitStrands(u)
    PROVE  AttemptsInv'
<1>0. /\ submitter[u] \in Work(SubmitPCs) /\ submitter \in [Submitters -> Work(SubmitPCs)]
      /\ attempt \in [Attempts -> AttemptRow] /\ answer \in [Attempts -> Sheet]
      /\ progress \in ProgressRow /\ openQuiz \in BOOLEAN /\ SlotsTyped
      /\ submitter[u].pc \notin {"idle", "done"} => submitter[u].a \in Existing
  BY DEF AttemptsInv, WorkTyped, RowsTyped, Addressed
<1>1. ASSUME NEW a \in Attempts, SubmitLoads(u, a) PROVE AttemptsInv'
  <2> DEFINE r == [Idle EXCEPT !.pc = IF openQuiz THEN "metering" ELSE "marking",
                               !.a = a, !.row = attempt[a], !.sheet = answer[a]]
  <2>1. r \in Work(SubmitPCs) /\ r.a = a
    BY <1>0, IdleWork DEF Work, SubmitPCs
  <2>2. submitter' = [submitter EXCEPT ![u] = r]
    BY <1>1 DEF SubmitLoads
  <2> HIDE DEF r
  <2>3. a \in Existing /\ SlotsTyped'
    BY <1>0, <1>1 DEF SubmitLoads, Existing, SlotsTyped
  <2> QED BY <1>1, <2>1, <2>2, <2>3, SubmitterMoves DEF SubmitLoads
<1>2. CASE SubmitTakesSlot(u)
  <2> DEFINE r == IF daySlots < DailyGrades THEN [submitter[u] EXCEPT !.pc = "writing"]
                  ELSE Idle
  <2>1. /\ r \in Work(SubmitPCs)
        /\ r.pc \notin {"idle", "done"} => r.a \in Existing
    BY <1>0, <1>2, IdleWork DEF Work, SubmitPCs, SubmitTakesSlot
  <2>2. submitter' = [submitter EXCEPT ![u] = r]
    BY <1>0, <1>2 DEF SubmitTakesSlot
  <2> HIDE DEF r
  <2>3. SlotsTyped'
    BY <1>0, <1>2, GradingAssumption DEF SubmitTakesSlot, SlotsTyped
  <2> QED BY <1>2, <2>1, <2>2, <2>3, SubmitterMoves DEF SubmitTakesSlot
<1>3. CASE SubmitReadsProgress(u)
  <2> DEFINE r == [submitter[u] EXCEPT !.pc = "writing", !.prog = progress]
  <2>1. /\ r \in Work(SubmitPCs)
        /\ r.pc \notin {"idle", "done"} => r.a \in Existing
    BY <1>0, <1>3 DEF Work, SubmitPCs, SubmitReadsProgress
  <2>2. submitter' = [submitter EXCEPT ![u] = r]
    BY <1>0, <1>3 DEF SubmitReadsProgress
  <2> HIDE DEF r
  <2>3. SlotsTyped'
    BY <1>0, <1>3 DEF SubmitReadsProgress, SlotsTyped
  <2> QED BY <1>3, <2>1, <2>2, <2>3, SubmitterMoves DEF SubmitReadsProgress
<1>4. CASE SubmitStrands(u)
  <2> DEFINE r == [Idle EXCEPT !.pc = "done"]
  <2>1. r \in Work(SubmitPCs) /\ r.pc = "done"
    BY IdleWork DEF Work, SubmitPCs
  <2>2. submitter' = [submitter EXCEPT ![u] = r]
    BY <1>4 DEF SubmitStrands
  <2> HIDE DEF r
  <2>3. SlotsTyped'
    BY <1>0, <1>4 DEF SubmitStrands, SlotsTyped
  <2> QED BY <1>4, <2>1, <2>2, <2>3, SubmitterMoves DEF SubmitStrands
<1> QED BY <1>1, <1>2, <1>3, <1>4

(* The task takes the attempt over from the request.                       *)
LEMMA EnqueueStep ==
    ASSUME AttemptsInv, NEW u \in Submitters, SubmitEnqueues(u)
    PROVE  AttemptsInv'
<1> DEFINE r == [Idle EXCEPT !.pc = "done"]
           t == [Idle EXCEPT !.pc = "queued", !.a = submitter[u].a]
<1>0. /\ submitter[u] \in Work(SubmitPCs) /\ submitter \in [Submitters -> Work(SubmitPCs)]
      /\ grader \in [Submitters -> Work(GradePCs)]
      /\ submitter[u].a \in Existing /\ submitter[u].a \in Attempts
  BY DEF AttemptsInv, WorkTyped, Addressed, SubmitEnqueues, Existing
<1>1. r \in Work(SubmitPCs) /\ r.pc = "done"
  BY IdleWork DEF Work, SubmitPCs
<1>2. /\ t \in Work(GradePCs) /\ t.pc = "queued" /\ t.a \in Existing /\ t.ref = "none"
  BY <1>0, IdleWork DEF Work, GradePCs
<1>3. submitter' = [submitter EXCEPT ![u] = r] /\ grader' = [grader EXCEPT ![u] = t]
  BY DEF SubmitEnqueues
<1>4. UNCHANGED <<openQuiz, attempt, answer, progress, starter, editing, daySlots,
                  freeSlots, ledgerVars>>
  BY DEF SubmitEnqueues
<1> HIDE DEF r, t
<1>5. \A v \in Submitters : /\ submitter'[v] = IF v = u THEN r ELSE submitter[v]
                            /\ grader'[v] = IF v = u THEN t ELSE grader[v]
  BY <1>0, <1>3
<1>6. RowsTyped' /\ SlotsTyped' /\ LedgerType' /\ opened'
  BY <1>4 DEF AttemptsInv, RowsTyped, SlotsTyped, LedgerType, ledgerVars
<1>7. WorkTyped'
  BY <1>0, <1>1, <1>2, <1>3, <1>4 DEF AttemptsInv, WorkTyped
<1>8. Existing' = Existing /\ Numbered'
  BY <1>4, RosterKept DEF SameRoster, AttemptsInv
<1>9. Addressed'
  BY <1>1, <1>2, <1>4, <1>5, <1>8 DEF AttemptsInv, Addressed
<1>10. HoldsOwned'
  BY <1>2, <1>4, <1>5, HoldsKept DEF AttemptsInv, ledgerVars
<1> QED BY <1>6, <1>7, <1>8, <1>9, <1>10 DEF AttemptsInv

(* Grading, between the request and the commit.                            *)
LEMMA GradingStep ==
    ASSUME AttemptsInv, NEW u \in Submitters,
           \/ GradeLoads(u) \/ GradeReads(u) \/ GradeFails(u) \/ GradeLosesRace(u)
           \/ GradeWorkerDies(u) \/ \E mark \in Points : GradeAsks(u, mark)
    PROVE  AttemptsInv'
<1> DEFINE g == grader[u]
<1>0. /\ g \in Work(GradePCs) /\ grader \in [Submitters -> Work(GradePCs)]
      /\ attempt \in [Attempts -> AttemptRow] /\ answer \in [Attempts -> Sheet]
      /\ progress \in ProgressRow /\ SlotsTyped
      /\ g.pc \notin {"idle", "ended", "failed"} => g.a \in Existing
      /\ g.ref # "none" => g.pc \in {"asking", "reading", "committing", "settling", "ended"}
  BY DEF AttemptsInv, WorkTyped, RowsTyped, Addressed, HoldsOwned, HoldOwned
<1>1. CASE GradeLoads(u)
  <2> DEFINE r == [g EXCEPT !.sheet = answer[g.a], !.pc =
                      IF answer[g.a]["open"].review THEN "metering" ELSE "reading"]
  <2>1. /\ r \in Work(GradePCs) /\ r.ref = "none"
        /\ r.pc \notin {"idle", "ended", "failed"} => r.a \in Existing
    BY <1>0, <1>1 DEF Work, GradePCs, GradeLoads
  <2>2. grader' = [grader EXCEPT ![u] = r]
    BY <1>0, <1>1 DEF GradeLoads
  <2> HIDE DEF r
  <2>3. SlotsTyped'
    BY <1>0, <1>1 DEF GradeLoads, SlotsTyped
  <2> QED BY <1>1, <2>1, <2>2, <2>3, GraderMoves DEF GradeLoads
<1>2. ASSUME NEW mark \in Points, GradeAsks(u, mark) PROVE AttemptsInv'
  <2> DEFINE r == [g EXCEPT !.pc = "reading", !.mark = mark]
  <2>1. /\ r \in Work(GradePCs) /\ r.pc = "reading" /\ r.ref = g.ref /\ g.pc # "ended"
        /\ r.a \in Existing
    BY <1>0, <1>2 DEF Work, GradePCs, GradeAsks
  <2>2. grader' = [grader EXCEPT ![u] = r]
    BY <1>0, <1>2 DEF GradeAsks
  <2> HIDE DEF r
  <2>3. SlotsTyped'
    BY <1>0, <1>2 DEF GradeAsks, SlotsTyped
  <2> QED BY <1>2, <2>1, <2>2, <2>3, GraderMoves DEF GradeAsks
<1>3. CASE GradeReads(u)
  <2> DEFINE r == [g EXCEPT !.pc = "committing", !.row = attempt[g.a], !.prog = progress]
  <2>1. /\ r \in Work(GradePCs) /\ r.pc = "committing" /\ r.ref = g.ref /\ g.pc # "ended"
        /\ r.a \in Existing
    BY <1>0, <1>3 DEF Work, GradePCs, GradeReads
  <2>2. grader' = [grader EXCEPT ![u] = r]
    BY <1>0, <1>3 DEF GradeReads
  <2> HIDE DEF r
  <2>3. SlotsTyped'
    BY <1>0, <1>3 DEF GradeReads, SlotsTyped
  <2> QED BY <1>3, <2>1, <2>2, <2>3, GraderMoves DEF GradeReads
<1>4. CASE GradeFails(u) \/ GradeLosesRace(u)
  <2> DEFINE r == [Idle EXCEPT !.pc = "failed"]
  <2>1. r \in Work(GradePCs) /\ r.pc = "failed" /\ r.ref = "none"
    BY IdleWork DEF Work, GradePCs
  <2>2. grader' = [grader EXCEPT ![u] = r]
    BY <1>4 DEF GradeFails, GradeLosesRace
  <2> HIDE DEF r
  <2>3. SlotsTyped' /\ UNCHANGED <<openQuiz, attempt, answer, progress, starter, submitter,
                                   editing, ledgerVars>>
    BY <1>0, <1>4 DEF GradeFails, GradeLosesRace, SlotsTyped
  <2> QED BY <2>1, <2>2, <2>3, GraderMoves
<1>5. CASE GradeWorkerDies(u)
  <2> DEFINE r == [Idle EXCEPT !.pc = "queued", !.a = g.a]
  <2>1. /\ r \in Work(GradePCs) /\ r.ref = "none" /\ r.a \in Existing
    BY <1>0, <1>5, IdleWork DEF Work, GradePCs, GradeWorkerDies
  <2>2. grader' = [grader EXCEPT ![u] = r]
    BY <1>5 DEF GradeWorkerDies
  <2> HIDE DEF r
  <2>3. SlotsTyped'
    BY <1>0, <1>5 DEF GradeWorkerDies, SlotsTyped
  <2> QED BY <1>5, <2>1, <2>2, <2>3, GraderMoves DEF GradeWorkerDies
<1> QED BY <1>1, <1>2, <1>3, <1>4, <1>5

(* Metering opens a hold under a fresh ref, and the task that settles      *)
(* closes its own.                                                         *)
LEMMA MeterStep ==
    ASSUME AttemptsInv, NEW u \in Submitters, GradeAuthorized(u)
    PROVE  AttemptsInv'
<1> DEFINE g == grader[u]
<1> USE GradingAssumption
<1>0. /\ g \in Work(GradePCs) /\ grader \in [Submitters -> Work(GradePCs)]
      /\ SlotsTyped /\ g.pc = "metering" /\ g.ref = "none" /\ g.a \in Existing
  BY DEF AttemptsInv, WorkTyped, Addressed, HoldsOwned, HoldOwned, GradeAuthorized
<1>1. UNCHANGED <<openQuiz, attempt, answer, progress, starter, submitter, editing, daySlots>>
  BY DEF GradeAuthorized
<1>2. CASE \/ /\ freeSlots < FreeGrades
              /\ freeSlots' = freeSlots + 1
              /\ grader' = [grader EXCEPT ![u].pc = "asking"]
              /\ UNCHANGED ledgerVars
           \/ /\ grader' = [grader EXCEPT ![u].pc = "reading"]
              /\ UNCHANGED <<freeSlots, ledgerVars>>
  <2>1. PICK pc \in {"asking", "reading"} : grader' = [grader EXCEPT ![u].pc = pc]
    BY <1>2
  <2> DEFINE r == [g EXCEPT !.pc = pc]
  <2>2. r \in Work(GradePCs) /\ r.ref = "none" /\ r.a \in Existing
    BY <1>0 DEF Work, GradePCs
  <2>3. grader' = [grader EXCEPT ![u] = r]
    BY <1>0, <2>1
  <2> HIDE DEF r
  <2>4. SlotsTyped' /\ UNCHANGED ledgerVars
    BY <1>0, <1>1, <1>2 DEF SlotsTyped
  <2> QED BY <1>1, <2>2, <2>3, <2>4, GraderMoves
<1>3. ASSUME NEW ref \in GradeRefs, ledger[ref].reserves = 0,
             ReserveCredits(ref, GradeCost), freeSlots' = freeSlots,
             grader' = [grader EXCEPT ![u].pc = "asking", ![u].ref = ref]
      PROVE  AttemptsInv'
  <2> DEFINE r == [g EXCEPT !.pc = "asking", !.ref = ref]
             row == Reserving(ledger[ref], GradeCost)
  <2>1. r \in Work(GradePCs) /\ r.ref = ref /\ r.a \in Existing /\ r.pc = "asking"
    BY <1>0 DEF Work, GradePCs
  <2>2. grader' = [grader EXCEPT ![u] = r]
    BY <1>0, <1>3
  <2>3. ref \in Refs /\ ledger \in [Refs -> Row] /\ ledger[ref] \in Row
    BY DEF AttemptsInv, LedgerType
  <2>4. ledger' = [ledger EXCEPT ![ref] = row] /\ opened' = opened
    BY <1>3 DEF ReserveCredits
  <2>5. GradeHeld(row) /\ row.reserves = 1
    <3>1. FreshRow(ledger[ref])
      BY <2>3 DEF AttemptsInv, HoldsOwned
    <3>2. /\ row.reserves = 1 /\ row.finals = 0 /\ row.held = 0 + GradeCost
          /\ row.charged = 0 /\ row.released = 0
      BY <1>3, <2>3, <3>1, ReservingRow DEF FreshRow
    <3> HIDE DEF row
    <3> QED BY <3>2 DEF GradeHeld
  <2> HIDE DEF r, row
  <2>6. /\ \A v \in Submitters : grader'[v] = IF v = u THEN r ELSE grader[v]
        /\ \A x \in Refs : ledger'[x] = IF x = ref THEN row ELSE ledger[x]
    BY <1>0, <2>2, <2>3, <2>4
  <2>7. LedgerType'
    BY <1>3, <2>3, ReserveType DEF AttemptsInv
  <2>8. RowsTyped' /\ WorkTyped' /\ SlotsTyped' /\ opened'
    BY <1>0, <1>1, <1>3, <2>1, <2>2, <2>4 DEF AttemptsInv, RowsTyped, WorkTyped, SlotsTyped
  <2>9. Existing' = Existing /\ Numbered'
    BY <1>1, RosterKept DEF SameRoster, AttemptsInv
  <2>10. Addressed'
    BY <1>1, <2>1, <2>6, <2>9 DEF AttemptsInv, Addressed
  <2>11. \A v \in Submitters : grader[v].ref # ref
    BY <1>3, <2>3 DEF AttemptsInv, HoldsOwned, HoldOwned, GradeHeld, PaidRow
  <2>12. HoldsOwned'
    <3>1. \A x \in Refs : FreshRow(ledger'[x])
      BY <2>5, <2>6 DEF AttemptsInv, HoldsOwned, FreshRow
    <3>2. \A v \in Submitters : HoldOwned(grader[v])'
      <4> SUFFICES ASSUME NEW v \in Submitters PROVE HoldOwned(grader[v])'
        OBVIOUS
      <4>1. CASE v = u
        BY <2>1, <2>3, <2>5, <2>6, <4>1 DEF HoldOwned
      <4>2. CASE v # u
        BY <2>6, <2>11, <4>2 DEF AttemptsInv, HoldsOwned, HoldOwned
      <4> QED BY <4>1, <4>2
    <3>3. \A v, w \in Submitters :
             v # w /\ grader'[v].ref # "none" => grader'[v].ref # grader'[w].ref
      BY <2>1, <2>6, <2>11 DEF AttemptsInv, HoldsOwned
    <3> QED BY <3>1, <3>2, <3>3 DEF HoldsOwned
  <2> QED BY <2>7, <2>8, <2>9, <2>10, <2>12 DEF AttemptsInv
<1> QED BY <1>2, <1>3 DEF GradeAuthorized

(* Finalizing a grading hold accounts for all of it.                       *)
LEMMA HoldPaid ==
    ASSUME NEW row \in Row, GradeHeld(row), NEW cost \in Nat, cost <= GradeCost
    PROVE  PaidRow(Finalizing(row, GradeCost, cost), cost)
           /\ Finalizing(row, GradeCost, cost).reserves = 1
<1> DEFINE final == Finalizing(row, GradeCost, cost)
<1>1. GradeCost \in Nat
  BY GradingAssumption
<1>2. /\ final.reserves = row.reserves /\ final.held = row.held
      /\ final.charged = row.charged + cost
      /\ final.released = row.released + (GradeCost - cost)
  BY <1>1, FinalizingRow
<1> HIDE DEF final
<1>3. PaidRow(final, cost) /\ final.reserves = 1
  BY <1>1, <1>2 DEF GradeHeld, PaidRow
<1> QED BY <1>3 DEF final

(* Settling charges the whole hold or gives the whole hold back.           *)
LEMMA SettleStep ==
    ASSUME AttemptsInv, NEW u \in Submitters, GradeSettles(u)
    PROVE  AttemptsInv'
<1> DEFINE g == grader[u]
           r == [g EXCEPT !.pc = "ended"]
<1> USE GradingAssumption
<1>0. /\ g \in Work(GradePCs) /\ grader \in [Submitters -> Work(GradePCs)]
      /\ SlotsTyped /\ g.pc = "settling"
      /\ g.ref # "none" => g.ref \in GradeRefs /\ g.ref \in Refs /\ GradeHeld(ledger[g.ref])
  BY DEF AttemptsInv, WorkTyped, HoldsOwned, HoldOwned, GradeSettles
<1>1. /\ UNCHANGED <<openQuiz, attempt, answer, progress, starter, submitter, editing,
                     daySlots, freeSlots>>
      /\ grader' = [grader EXCEPT ![u] = r]
  BY <1>0 DEF GradeSettles
<1>2. r \in Work(GradePCs) /\ r.pc = "ended" /\ r.ref = g.ref /\ r.mark = g.mark
  BY <1>0 DEF Work, GradePCs
<1> HIDE DEF r
<1>3. \A v \in Submitters : grader'[v] = IF v = u THEN r ELSE grader[v]
  BY <1>0, <1>1
<1>4. RowsTyped' /\ WorkTyped' /\ SlotsTyped'
  BY <1>0, <1>1, <1>2 DEF AttemptsInv, RowsTyped, WorkTyped, SlotsTyped
<1>5. Existing' = Existing /\ Numbered'
  BY <1>1, RosterKept DEF SameRoster, AttemptsInv
<1>6. Addressed'
  BY <1>1, <1>2, <1>3, <1>5 DEF AttemptsInv, Addressed
<1>7. CASE g.ref = "none"
  <2>1. UNCHANGED ledgerVars
    BY <1>7 DEF GradeSettles
  <2>2. LedgerType' /\ opened'
    BY <2>1 DEF AttemptsInv, LedgerType, ledgerVars
  <2>3. HoldsOwned'
    BY <1>2, <1>3, <1>7, <2>1, HoldsKept DEF AttemptsInv, ledgerVars
  <2> QED BY <1>4, <1>5, <1>6, <2>2, <2>3 DEF AttemptsInv
<1>8. CASE g.ref # "none"
  <2> DEFINE ref == g.ref
             cost == SettledMark(u)
             row == Finalizing(ledger[ref], GradeCost, cost)
  <2>1. CanFinalize(ref) /\ ref \in Refs /\ ledger \in [Refs -> Row] /\ ledger[ref] \in Row
    BY <1>0, <1>8 DEF AttemptsInv, GradeHeld, CanFinalize, LedgerType
  <2>2. FinalizeGeneration(ref, GradeCost, cost)
    BY <1>8, <2>1 DEF GradeSettles
  <2>3. cost = (IF r.mark # Null THEN GradeCost ELSE 0)
    BY <1>2 DEF SettledMark
  <2>4. cost \in Nat /\ cost <= GradeCost
    BY <2>3
  <2>5. Least(NonNeg(cost), GradeCost) = cost
    <3> HIDE DEF cost
    <3> QED BY <2>4 DEF Least, NonNeg
  <2>6. ledger' = [ledger EXCEPT ![ref] = row] /\ opened' = opened
    BY <2>2, <2>5 DEF FinalizeGeneration
  <2>7. LedgerType'
    BY <2>1, <2>2, <2>4, FinalizeType DEF AttemptsInv
  <2>8. PaidRow(row, cost) /\ row.reserves = 1
    <3>1. GradeHeld(ledger[ref])
      BY <1>0, <1>8
    <3> HIDE DEF cost, ref
    <3> QED BY <2>1, <2>4, <3>1, HoldPaid
  <2> HIDE DEF row, cost, ref
  <2>9. \A x \in Refs : ledger'[x] = IF x = ref THEN row ELSE ledger[x]
    BY <2>1, <2>6
  <2>10. \A v \in Submitters : v # u => grader[v].ref # ref
    BY <1>8 DEF AttemptsInv, HoldsOwned, ref
  <2>11. HoldsOwned'
    <3>1. \A x \in Refs : FreshRow(ledger'[x])
      BY <2>8, <2>9 DEF AttemptsInv, HoldsOwned, FreshRow
    <3>2. \A v \in Submitters : HoldOwned(grader[v])'
      <4> SUFFICES ASSUME NEW v \in Submitters PROVE HoldOwned(grader[v])'
        OBVIOUS
      <4>1. CASE v = u
        <5>1. grader'[v] = r /\ r.ref = ref /\ ledger'[r.ref] = row /\ ref \in GradeRefs
          BY <1>0, <1>2, <1>3, <1>8, <2>1, <2>9, <4>1 DEF ref
        <5> QED BY <1>2, <2>3, <2>8, <5>1 DEF HoldOwned
      <4>2. CASE v # u
        BY <1>3, <2>9, <2>10, <4>2 DEF AttemptsInv, HoldsOwned, HoldOwned
      <4> QED BY <4>1, <4>2
    <3>3. \A v, w \in Submitters :
             v # w /\ grader'[v].ref # "none" => grader'[v].ref # grader'[w].ref
      BY <1>2, <1>3 DEF AttemptsInv, HoldsOwned
    <3> QED BY <3>1, <3>2, <3>3 DEF HoldsOwned
  <2>12. opened'
    BY <2>6 DEF AttemptsInv
  <2> QED BY <1>4, <1>5, <1>6, <2>7, <2>11, <2>12 DEF AttemptsInv
<1> QED BY <1>7, <1>8

-----------------------------------------------------------------------------
(* A commit keeps an attempt's number, and never makes it absent.          *)
LEMMA FlushedExisting ==
    ASSUME RowsTyped, NEW a \in Existing, NEW loaded \in AttemptRow, NEW new \in AttemptRow,
           new.number = loaded.number, new.status = loaded.status \/ new.status # "absent"
    PROVE  /\ Flushed(loaded, new, attempt[a]) \in AttemptRow
           /\ Flushed(loaded, new, attempt[a]).status # "absent"
           /\ Flushed(loaded, new, attempt[a]).number = attempt[a].number
<1>1. attempt[a] \in AttemptRow /\ attempt[a].status # "absent"
  BY DEF RowsTyped, Existing
<1> QED BY <1>1, FlushedAttempt

(* Writing one attempt's row and answers: no attempt appears or changes    *)
(* its number.                                                             *)
LEMMA RowsWritten ==
    ASSUME AttemptsInv, NEW a \in Existing, NEW sheet \in Sheet, NEW row \in AttemptRow,
           row.status # "absent", row.number = attempt[a].number,
           answer' = [answer EXCEPT ![a] = sheet], attempt' = [attempt EXCEPT ![a] = row],
           progress' \in ProgressRow, openQuiz' = openQuiz
    PROVE  /\ RowsTyped' /\ Existing' = Existing /\ Numbered'
           /\ \A b \in Attempts : attempt'[b].status = "absent" =>
                 \A q \in {"closed", "open"} : ~answer'[b][q].exists
<1>1. /\ attempt \in [Attempts -> AttemptRow] /\ answer \in [Attempts -> Sheet]
      /\ a \in Attempts /\ attempt[a].status # "absent"
  BY DEF AttemptsInv, RowsTyped, Existing
<1>2. \A b \in Attempts : /\ attempt'[b] = IF b = a THEN row ELSE attempt[b]
                          /\ answer'[b] = IF b = a THEN sheet ELSE answer[b]
  BY <1>1
<1>3. RowsTyped'
  BY <1>1 DEF AttemptsInv, RowsTyped
<1>4. SameRoster
  BY <1>1, <1>2 DEF SameRoster
<1>5. Existing' = Existing /\ Numbered'
  BY <1>4, RosterKept DEF AttemptsInv
<1>6. \A b \in Attempts : attempt'[b].status = "absent" =>
         \A q \in {"closed", "open"} : ~answer'[b][q].exists
  BY <1>1, <1>2 DEF AttemptsInv, Addressed
<1> QED BY <1>3, <1>5, <1>6

(* A better score marks the lesson; nothing else of the row changes.       *)
LEMMA MarkedRow ==
    ASSUME NEW row \in ProgressRow, NEW score \in {0, 1, 2}
    PROVE  /\ Marked(row, score) \in ProgressRow
           /\ Marked(row, score) = row \/ Marked(row, score).done
<1>1. row.best \in {Null, 0, 1, 2} /\ score \in {Null, 0, 1, 2}
  BY DEF ProgressRow
<1> DEFINE best == IF score > row.best THEN score ELSE row.best
<1>2. best \in {Null, 0, 1, 2}
  BY <1>1
<1> HIDE DEF best
<1>3. CASE Passed(score)
  <2>1. Marked(row, score) = [exists |-> TRUE, done |-> TRUE, best |-> best]
    BY <1>3 DEF Marked, best
  <2> QED BY <1>2, <2>1 DEF ProgressRow
<1>4. CASE ~Passed(score)
  BY <1>4 DEF Marked
<1> QED BY <1>3, <1>4

(* What the requests and the task put on the answers they hold.            *)
LEMMA SavedSheet ==
    ASSUME NEW sheet \in Sheet
    PROVE  [q \in DOMAIN sheet |->
                IF q \in Questions2 THEN [sheet[q] EXCEPT !.exists = TRUE, !.right = TRUE]
                ELSE sheet[q]] \in Sheet
<1>1. DOMAIN sheet = {"closed", "open"}
  BY DEF Sheet
<1>2. ASSUME NEW q \in {"closed", "open"}
      PROVE  [sheet[q] EXCEPT !.exists = TRUE, !.right = TRUE] \in AnswerRow
  BY DEF Sheet, AnswerRow
<1>3. \A q \in {"closed", "open"} : sheet[q] \in AnswerRow
  BY DEF Sheet
<1> QED BY <1>1, <1>2, <1>3 DEF Sheet

(* Submitting grades the closed answer and sends the open one to review.   *)
LEMMA ProvisionalSheet ==
    ASSUME NEW sheet \in Sheet
    PROVE  Provisional(sheet) \in Sheet
<1> DEFINE row(q) == IF q \notin Questions2 THEN sheet[q]
                     ELSE IF q = "open"
                     THEN [sheet[q] EXCEPT !.exists = TRUE, !.awarded = Null, !.review = TRUE]
                     ELSE [sheet[q] EXCEPT !.exists = TRUE, !.review = FALSE,
                                           !.awarded = IF sheet[q].right THEN 1 ELSE 0]
<1>1. Provisional(sheet) = [q \in {"closed", "open"} |-> row(q)]
  BY DEF Provisional, Sheet
<1>2. ASSUME NEW q \in {"closed", "open"} PROVE row(q) \in AnswerRow
  <2>1. sheet[q] \in AnswerRow
    BY DEF Sheet
  <2>2. [sheet[q] EXCEPT !.exists = TRUE, !.awarded = Null, !.review = TRUE] \in AnswerRow
    BY <2>1 DEF AnswerRow, Points
  <2>3. [sheet[q] EXCEPT !.exists = TRUE, !.review = FALSE,
                         !.awarded = IF sheet[q].right THEN 1 ELSE 0] \in AnswerRow
    BY <2>1 DEF AnswerRow, Points
  <2> QED BY <2>1, <2>2, <2>3
<1> HIDE DEF row
<1> QED BY <1>1, <1>2 DEF Sheet

(* The task puts the model's mark on the open answer.                      *)
LEMMA MarkedSheet ==
    ASSUME NEW sheet \in Sheet, NEW mark \in Points
    PROVE  WithMark(sheet, mark) \in Sheet
<1>1. CASE mark = Null
  BY <1>1 DEF WithMark
<1>2. CASE mark # Null
  <2> DEFINE row == [sheet["open"] EXCEPT !.awarded = mark, !.review = FALSE]
  <2>1. row \in AnswerRow
    BY DEF Sheet, AnswerRow
  <2>2. WithMark(sheet, mark) = [sheet EXCEPT !["open"] = row]
    BY <1>2 DEF WithMark, Sheet
  <2> HIDE DEF row
  <2> QED BY <2>1, <2>2 DEF Sheet
<1> QED BY <1>1, <1>2

(* The teacher's points replace an answer's.                               *)
LEMMA OverriddenSheet ==
    ASSUME NEW sheet \in Sheet, NEW q \in {"closed", "open"}, NEW points \in {0, 1}
    PROVE  [sheet EXCEPT ![q].awarded = points, ![q].review = FALSE, ![q].manual = TRUE]
               \in Sheet
<1> DEFINE row == [sheet[q] EXCEPT !.awarded = points, !.review = FALSE, !.manual = TRUE]
<1>1. row \in AnswerRow
  BY DEF Sheet, AnswerRow, Points
<1>2. [sheet EXCEPT ![q].awarded = points, ![q].review = FALSE, ![q].manual = TRUE]
          = [sheet EXCEPT ![q] = row]
  BY DEF Sheet
<1> HIDE DEF row
<1> QED BY <1>1, <1>2 DEF Sheet

-----------------------------------------------------------------------------
(* The steps that write rows keep the invariant.                           *)
LEMMA SaveWritesStep ==
    ASSUME AttemptsInv, SaveWrites
    PROVE  AttemptsInv'
<1> DEFINE me == editing
           new == [q \in DOMAIN me.sheet |->
                      IF q \in Questions2
                      THEN [me.sheet[q] EXCEPT !.exists = TRUE, !.right = TRUE]
                      ELSE me.sheet[q]]
           flushed == FlushedSheet(me.sheet, new, answer[me.a])
           clash == \E q \in Questions2 : answer[me.a][q].exists # me.sheet[q].exists
           sheet == IF clash THEN answer[me.a] ELSE flushed
<1>0. /\ me \in Work(EditPCs) /\ me.a \in Existing /\ me.a \in Attempts /\ me.sheet \in Sheet
      /\ attempt \in [Attempts -> AttemptRow] /\ answer \in [Attempts -> Sheet]
      /\ attempt[me.a].status # "absent"
  BY DEF AttemptsInv, WorkTyped, RowsTyped, Addressed, Work, SaveWrites, Existing
<1>1. new \in Sheet
  BY <1>0, SavedSheet
<1>2. sheet \in Sheet
  <2> HIDE DEF new, clash
  <2>1. flushed \in Sheet
    BY <1>0, <1>1, FlushedAnswers
  <2> HIDE DEF flushed
  <2> QED BY <1>0, <2>1
<1>3. /\ answer' = IF clash THEN answer ELSE [answer EXCEPT ![me.a] = flushed]
      /\ editing' = Idle
      /\ UNCHANGED <<openQuiz, attempt, progress, starter, submitter, grader,
                     daySlots, freeSlots, ledgerVars>>
  BY DEF SaveWrites
<1> HIDE DEF flushed, clash, new
<1>4. answer' = [answer EXCEPT ![me.a] = sheet]
  BY <1>0, <1>3
<1> HIDE DEF sheet
<1>5. attempt' = [attempt EXCEPT ![me.a] = attempt[me.a]] /\ attempt[me.a] \in AttemptRow
  BY <1>0, <1>3
<1>6. progress' \in ProgressRow /\ openQuiz' = openQuiz
  BY <1>3 DEF AttemptsInv, RowsTyped
<1>7. /\ RowsTyped' /\ Existing' = Existing /\ Numbered'
      /\ \A b \in Attempts : attempt'[b].status = "absent" =>
            \A q \in {"closed", "open"} : ~answer'[b][q].exists
  BY <1>0, <1>2, <1>4, <1>5, <1>6, RowsWritten
<1>8. WorkTyped' /\ SlotsTyped' /\ LedgerType' /\ opened'
  BY <1>3, IdleWork DEF AttemptsInv, WorkTyped, SlotsTyped, LedgerType, ledgerVars, EditPCs
<1>9. Addressed'
  BY <1>3, <1>7, IdleWork DEF AttemptsInv, Addressed
<1>10. HoldsOwned'
  BY <1>3, HoldsKept DEF AttemptsInv, ledgerVars
<1> QED BY <1>7, <1>8, <1>9, <1>10 DEF AttemptsInv

(* The teacher's override writes one answer and the attempt's score.       *)
LEMMA OverrideWritesStep ==
    ASSUME AttemptsInv, NEW q \in Questions2, NEW points \in {0, 1}, OverrideWrites(q, points)
    PROVE  AttemptsInv'
<1> DEFINE me == editing
           new == [me.sheet EXCEPT ![q].awarded = points, ![q].review = FALSE,
                                   ![q].manual = TRUE]
           score == Aggregate(new)
           status == IF \A p \in Questions2 : ~new[p].review THEN "graded" ELSE me.row.status
           row == [me.row EXCEPT !.score = score, !.status = status]
           sheet == FlushedSheet(me.sheet, new, answer[me.a])
           kept == Flushed(me.row, row, attempt[me.a])
<1>0. /\ me \in Work(EditPCs) /\ me.a \in Existing /\ me.a \in Attempts /\ me.sheet \in Sheet
      /\ me.row \in AttemptRow
      /\ attempt \in [Attempts -> AttemptRow] /\ answer \in [Attempts -> Sheet]
      /\ openQuiz \in BOOLEAN /\ RowsTyped
  BY DEF AttemptsInv, WorkTyped, RowsTyped, Addressed, Work, OverrideWrites, Existing
<1>1. new \in Sheet
  BY <1>0, OverriddenSheet DEF Questions2
<1>2. /\ answer' = [answer EXCEPT ![me.a] = sheet] /\ attempt' = [attempt EXCEPT ![me.a] = kept]
      /\ editing' = Idle
      /\ UNCHANGED <<openQuiz, progress, starter, submitter, grader,
                     daySlots, freeSlots, ledgerVars>>
  BY DEF OverrideWrites
<1> HIDE DEF new
<1>3. score \in {0, 1, 2}
  BY <1>0, <1>1, AggregateScore
<1>4. status \in {me.row.status, "submitted", "graded"}
  OBVIOUS
<1> HIDE DEF score, status
<1>5. row \in AttemptRow /\ row.number = me.row.number
      /\ (row.status = me.row.status \/ row.status # "absent")
  BY <1>0, <1>3, <1>4 DEF AttemptRow
<1> HIDE DEF row
<1>6. kept \in AttemptRow /\ kept.status # "absent" /\ kept.number = attempt[me.a].number
  BY <1>0, <1>5, FlushedExisting
<1>7. sheet \in Sheet
  BY <1>0, <1>1, FlushedAnswers
<1> HIDE DEF sheet, kept
<1>8. progress' \in ProgressRow /\ openQuiz' = openQuiz
  BY <1>2 DEF AttemptsInv, RowsTyped
<1>9. /\ RowsTyped' /\ Existing' = Existing /\ Numbered'
      /\ \A b \in Attempts : attempt'[b].status = "absent" =>
            \A p \in {"closed", "open"} : ~answer'[b][p].exists
  BY <1>0, <1>2, <1>6, <1>7, <1>8, RowsWritten
<1>10. WorkTyped' /\ SlotsTyped' /\ LedgerType' /\ opened'
  BY <1>2, IdleWork DEF AttemptsInv, WorkTyped, SlotsTyped, LedgerType, ledgerVars, EditPCs
<1>11. Addressed'
  BY <1>2, <1>9, IdleWork DEF AttemptsInv, Addressed
<1>12. HoldsOwned'
  BY <1>2, HoldsKept DEF AttemptsInv, ledgerVars
<1> QED BY <1>9, <1>10, <1>11, <1>12 DEF AttemptsInv

(* The teacher's grade of the lesson writes the progress row.              *)
LEMMA GradeByHandWritesStep ==
    ASSUME AttemptsInv, NEW score \in {0, 2}, GradeByHandWrites(score)
    PROVE  AttemptsInv'
<1> DEFINE new == [editing.prog EXCEPT !.exists = TRUE, !.done = Passed(score)]
<1>0. /\ editing.prog \in ProgressRow /\ progress \in ProgressRow
  BY DEF AttemptsInv, WorkTyped, RowsTyped, Work
<1>1. new \in ProgressRow
  <2>1. Passed(score) = TRUE \/ Passed(score) = FALSE
    BY DEF Passed
  <2> QED BY <1>0, <2>1 DEF ProgressRow
<1>2. /\ progress' = IF LosesRace(editing.prog, new) THEN progress
                     ELSE Flushed(editing.prog, new, progress)
      /\ editing' = Idle
      /\ UNCHANGED <<openQuiz, attempt, answer, starter, submitter, grader,
                     daySlots, freeSlots, ledgerVars>>
  BY DEF GradeByHandWrites
<1> HIDE DEF new
<1>3. progress' \in ProgressRow
  BY <1>0, <1>1, <1>2, FlushedProgress
<1>4. RowsTyped' /\ SlotsTyped' /\ LedgerType' /\ opened'
  BY <1>2, <1>3 DEF AttemptsInv, RowsTyped, SlotsTyped, LedgerType, ledgerVars
<1>5. WorkTyped'
  BY <1>2, IdleWork DEF AttemptsInv, WorkTyped, EditPCs
<1>6. Existing' = Existing /\ Numbered'
  BY <1>2, RosterKept DEF SameRoster, AttemptsInv
<1>7. Addressed'
  BY <1>2, <1>6, IdleWork DEF AttemptsInv, Addressed
<1>8. HoldsOwned'
  BY <1>2, HoldsKept DEF AttemptsInv, ledgerVars
<1> QED BY <1>4, <1>5, <1>6, <1>7, <1>8 DEF AttemptsInv

(* Submitting writes the answers, the attempt and, on a closed quiz, the   *)
(* progress; or nothing, when answers were inserted meanwhile.             *)
LEMMA SubmitWritesStep ==
    ASSUME AttemptsInv, NEW u \in Submitters, SubmitWrites(u)
    PROVE  AttemptsInv'
<1> DEFINE me == submitter[u]
           new == Provisional(me.sheet)
           score == Aggregate(new)
           status == IF openQuiz THEN "submitted" ELSE "graded"
           row == [me.row EXCEPT !.score = score, !.status = status]
           clash == \E q \in Questions2 : answer[me.a][q].exists # me.sheet[q].exists
           sheet == FlushedSheet(me.sheet, new, answer[me.a])
           kept == Flushed(me.row, row, attempt[me.a])
           mine == Marked(me.prog, score)
           prog == IF openQuiz THEN progress ELSE Flushed(me.prog, mine, progress)
           r == [Idle EXCEPT !.pc = IF openQuiz THEN "enqueuing" ELSE "done", !.a = me.a]
<1>0. /\ me \in Work(SubmitPCs) /\ me.a \in Existing /\ me.a \in Attempts /\ me.sheet \in Sheet
      /\ me.row \in AttemptRow /\ me.prog \in ProgressRow /\ progress \in ProgressRow
      /\ attempt \in [Attempts -> AttemptRow] /\ answer \in [Attempts -> Sheet]
      /\ openQuiz \in BOOLEAN /\ RowsTyped /\ submitter \in [Submitters -> Work(SubmitPCs)]
      /\ SlotsTyped /\ me.pc = "writing"
  BY DEF AttemptsInv, WorkTyped, RowsTyped, Addressed, Work, SubmitWrites, Existing
<1>1. new \in Sheet
  BY <1>0, ProvisionalSheet
<1>2. UNCHANGED <<openQuiz, starter, grader, editing, daySlots, freeSlots, ledgerVars>>
  BY DEF SubmitWrites
<1>3. CASE clash
  <2>1. submitter' = [submitter EXCEPT ![u] = Idle] /\ UNCHANGED <<attempt, answer, progress>>
    BY <1>3 DEF SubmitWrites
  <2>2. Idle \in Work(SubmitPCs) /\ Idle.pc = "idle"
    BY IdleWork DEF SubmitPCs
  <2>3. SlotsTyped'
    BY <1>0, <1>2 DEF SlotsTyped
  <2> HIDE DEF me, new, clash
  <2> QED BY <1>2, <2>1, <2>2, <2>3, SubmitterMoves
<1>4. CASE ~clash
  <2>1. /\ answer' = [answer EXCEPT ![me.a] = sheet] /\ attempt' = [attempt EXCEPT ![me.a] = kept]
        /\ progress' = prog /\ submitter' = [submitter EXCEPT ![u] = r]
    BY <1>4 DEF SubmitWrites
  <2>2. r \in Work(SubmitPCs) /\ r.a = me.a
    BY <1>0, IdleWork DEF Work, SubmitPCs
  <2> HIDE DEF new, r
  <2>3. score \in {0, 1, 2}
    BY <1>0, <1>1, AggregateScore
  <2>4. status \in {me.row.status, "submitted", "graded"} /\ status # "absent"
    OBVIOUS
  <2> HIDE DEF score, status
  <2>5. row \in AttemptRow /\ row.number = me.row.number /\ row.status # "absent"
    BY <1>0, <2>3, <2>4 DEF AttemptRow
  <2> HIDE DEF row
  <2>6. kept \in AttemptRow /\ kept.status # "absent" /\ kept.number = attempt[me.a].number
    BY <1>0, <2>5, FlushedExisting
  <2>7. sheet \in Sheet
    BY <1>0, <1>1, FlushedAnswers
  <2>8. prog \in ProgressRow
    <3>1. mine \in ProgressRow
      BY <1>0, <2>3, MarkedRow
    <3> HIDE DEF mine
    <3> QED BY <1>0, <3>1, FlushedProgress
  <2> HIDE DEF sheet, kept, prog
  <2>9. /\ RowsTyped' /\ Existing' = Existing /\ Numbered'
        /\ \A b \in Attempts : attempt'[b].status = "absent" =>
              \A p \in {"closed", "open"} : ~answer'[b][p].exists
    BY <1>0, <1>2, <2>1, <2>6, <2>7, <2>8, RowsWritten
  <2>10. WorkTyped' /\ SlotsTyped' /\ LedgerType' /\ opened'
    BY <1>0, <1>2, <2>1, <2>2 DEF AttemptsInv, WorkTyped, SlotsTyped, LedgerType, ledgerVars
  <2>11. Addressed'
    <3>1. \A v \in Submitters : submitter'[v] = IF v = u THEN r ELSE submitter[v]
      BY <1>0, <2>1
    <3> QED BY <1>0, <1>2, <2>2, <2>9, <3>1 DEF AttemptsInv, Addressed
  <2>12. HoldsOwned'
    BY <1>2, HoldsKept DEF AttemptsInv, ledgerVars
  <2> QED BY <2>9, <2>10, <2>11, <2>12 DEF AttemptsInv
<1> QED BY <1>3, <1>4

(* The grading task writes scores, attempt and progress in one commit, and *)
(* goes on to settle its hold.                                             *)
LEMMA GradeCommitsStep ==
    ASSUME AttemptsInv, NEW u \in Submitters, GradeCommits(u)
    PROVE  AttemptsInv'
<1> DEFINE me == grader[u]
           new == WithMark(me.sheet, me.mark)
           score == Aggregate(new)
           row == [me.row EXCEPT !.score = score, !.status = "graded"]
           sheet == FlushedSheet(me.sheet, new, answer[me.a])
           kept == Flushed(me.row, row, attempt[me.a])
           mine == Marked(me.prog, score)
           prog == Flushed(me.prog, mine, progress)
           r == [Idle EXCEPT !.pc = "settling", !.a = me.a, !.ref = me.ref, !.mark = me.mark]
<1>0. /\ me \in Work(GradePCs) /\ me.a \in Existing /\ me.a \in Attempts /\ me.sheet \in Sheet
      /\ me.row \in AttemptRow /\ me.prog \in ProgressRow /\ progress \in ProgressRow
      /\ attempt \in [Attempts -> AttemptRow] /\ answer \in [Attempts -> Sheet]
      /\ openQuiz \in BOOLEAN /\ RowsTyped /\ grader \in [Submitters -> Work(GradePCs)]
      /\ SlotsTyped /\ me.pc = "committing" /\ me.mark \in Points
  BY DEF AttemptsInv, WorkTyped, RowsTyped, Addressed, Work, GradeCommits, Existing
<1>1. new \in Sheet
  BY <1>0, MarkedSheet
<1>2. UNCHANGED <<openQuiz, starter, submitter, editing, daySlots, freeSlots, ledgerVars>>
  BY DEF GradeCommits
<1>3. /\ answer' = [answer EXCEPT ![me.a] = sheet] /\ attempt' = [attempt EXCEPT ![me.a] = kept]
      /\ progress' = prog /\ grader' = [grader EXCEPT ![u] = r]
  BY DEF GradeCommits, Recomputed
<1>4. r \in Work(GradePCs) /\ r.a = me.a /\ r.ref = me.ref /\ r.pc = "settling"
  BY <1>0, IdleWork DEF Work, GradePCs
<1> HIDE DEF new, r
<1>5. score \in {0, 1, 2}
  BY <1>0, <1>1, AggregateScore
<1> HIDE DEF score
<1>6. row \in AttemptRow /\ row.number = me.row.number /\ row.status # "absent"
  BY <1>0, <1>5 DEF AttemptRow
<1> HIDE DEF row
<1>7. kept \in AttemptRow /\ kept.status # "absent" /\ kept.number = attempt[me.a].number
  BY <1>0, <1>6, FlushedExisting
<1>8. sheet \in Sheet
  BY <1>0, <1>1, FlushedAnswers
<1>9. prog \in ProgressRow
  <2>1. mine \in ProgressRow
    BY <1>0, <1>5, MarkedRow
  <2> HIDE DEF mine
  <2> QED BY <1>0, <2>1, FlushedProgress
<1> HIDE DEF sheet, kept, prog
<1>10. /\ RowsTyped' /\ Existing' = Existing /\ Numbered'
       /\ \A b \in Attempts : attempt'[b].status = "absent" =>
             \A p \in {"closed", "open"} : ~answer'[b][p].exists
  BY <1>0, <1>2, <1>3, <1>7, <1>8, <1>9, RowsWritten
<1>11. WorkTyped' /\ SlotsTyped' /\ LedgerType' /\ opened'
  BY <1>0, <1>2, <1>3, <1>4 DEF AttemptsInv, WorkTyped, SlotsTyped, LedgerType, ledgerVars
<1>12. \A v \in Submitters : grader'[v] = IF v = u THEN r ELSE grader[v]
  BY <1>0, <1>3
<1>13. Addressed'
  BY <1>0, <1>2, <1>4, <1>10, <1>12 DEF AttemptsInv, Addressed
<1>14. HoldsOwned'
  BY <1>0, <1>2, <1>4, <1>12, HoldsKept DEF AttemptsInv, ledgerVars
<1> QED BY <1>10, <1>11, <1>13, <1>14 DEF AttemptsInv

-----------------------------------------------------------------------------
(* Every step of the component keeps the invariant.                        *)
LEMMA AttemptsInvKeeps ==
    ASSUME AttemptsInv, [AttemptsNext]_attemptVars
    PROVE  AttemptsInv'
<1>1. CASE UNCHANGED attemptVars
  BY <1>1 DEF attemptVars, gradingVars, ledgerVars, AttemptsInv, RowsTyped, WorkTyped,
     SlotsTyped, LedgerType, Numbered, Addressed, Existing, HoldsOwned, HoldOwned
<1>2. ASSUME NEW s \in Starters, StartChecks(s) \/ StartCounts(s) \/ StartInserts(s)
      PROVE  AttemptsInv'
  BY <1>2, StartStep
<1>3. ASSUME NEW a \in Attempts, SaveLoads(a) \/ OverrideLoads(a)
      PROVE  AttemptsInv'
  BY <1>3, EditLoadsStep
<1>4. CASE GradeByHandLoads
  BY <1>4, EditLoadsStep, GradingAssumption
<1>5. ASSUME NEW u \in Submitters,
             \/ \E a \in Attempts : SubmitLoads(u, a)
             \/ SubmitTakesSlot(u) \/ SubmitReadsProgress(u) \/ SubmitStrands(u)
      PROVE  AttemptsInv'
  BY <1>5, SubmitStep
<1>6. ASSUME NEW u \in Submitters,
             \/ GradeLoads(u) \/ GradeReads(u) \/ GradeFails(u) \/ GradeLosesRace(u)
             \/ GradeWorkerDies(u) \/ \E mark \in Points : GradeAsks(u, mark)
      PROVE  AttemptsInv'
  BY <1>6, GradingStep
<1>7. ASSUME NEW u \in Submitters,
             \/ SubmitWrites(u) \/ SubmitEnqueues(u) \/ GradeAuthorized(u)
             \/ GradeCommits(u) \/ GradeSettles(u)
      PROVE  AttemptsInv'
  BY <1>7, SubmitWritesStep, EnqueueStep, MeterStep, GradeCommitsStep, SettleStep
<1>8. CASE SaveWrites
  BY <1>8, SaveWritesStep
<1>9. ASSUME NEW q \in Questions2, NEW points \in {0, 1}, OverrideWrites(q, points)
      PROVE  AttemptsInv'
  BY <1>9, OverrideWritesStep
<1>10. ASSUME NEW score \in {0, 2}, GradeByHandWrites(score)
       PROVE  AttemptsInv'
  BY <1>10, GradeByHandWritesStep
<1> QED BY <1>1, <1>2, <1>3, <1>4, <1>5, <1>6, <1>7, <1>8, <1>9, <1>10 DEF AttemptsNext

(* It holds on a quiz that nobody has attempted.                           *)
LEMMA AttemptsStart ==
    AttemptsInit /\ AccountFunded => AttemptsInv
<1> SUFFICES ASSUME AttemptsInit, AccountFunded PROVE AttemptsInv
  OBVIOUS
<1>1. NoRows \in Row /\ FreshRow(NoRows)
  BY DEF NoRows, Row, FreshRow
<1>2. LedgerType /\ opened
  BY <1>1 DEF AccountFunded, LedgerType
<1>3. RowsTyped /\ SlotsTyped
  BY IdleWork, GradingAssumption DEF AttemptsInit, RowsTyped, SlotsTyped
<1>4. WorkTyped
  <2>1. Idle \in Work(SubmitPCs) /\ Idle \in Work(GradePCs) /\ Idle \in Work(EditPCs)
    BY IdleWork DEF SubmitPCs, GradePCs, EditPCs
  <2> QED BY <2>1 DEF AttemptsInit, WorkTyped
<1>5. Existing = {}
  BY DEF AttemptsInit, Existing, NoAttempt
<1>6. Numbered
  BY <1>5 DEF Numbered
<1>7. Addressed
  BY IdleWork DEF AttemptsInit, Addressed, BlankSheet, NoAnswer
<1>8. HoldsOwned
  BY <1>1, IdleWork DEF AttemptsInit, AccountFunded, HoldsOwned, HoldOwned
<1> QED BY <1>2, <1>3, <1>4, <1>6, <1>7, <1>8 DEF AttemptsInv

(* The invariant holds in every behaviour.                                 *)
LEMMA AttemptsInvariant == AttemptsSpec => []AttemptsInv
<1>1. AttemptsInv /\ [AttemptsNext]_attemptVars => AttemptsInv'
  BY AttemptsInvKeeps
<1>2. AttemptsInit /\ AccountFunded => AttemptsInv
  BY AttemptsStart
<1> QED BY <1>1, <1>2, PTL DEF AttemptsSpec

(* Rows, answers, progress and slot counters stay within what their        *)
(* columns and limits hold.                                                *)
THEOREM AttemptsTyped == AttemptsSpec => []AttemptsTypeOK
  BY AttemptsInvariant, AttemptsInvTells, PTL

(* Double clicks on "start" never give a student more attempts than the    *)
(* quiz allows: the unique number refuses the second insert.               *)
THEOREM AllowanceKept == AttemptsSpec => []AttemptsWithinAllowance
  BY AttemptsInvariant, AttemptsInvTells, PTL

(* Whatever dies, fails or is delivered twice, a grading task that ended   *)
(* has charged its hold if the model graded and given it back otherwise.   *)
THEOREM GradingIsPaid == AttemptsSpec => []GradingPaidIfGraded
  BY AttemptsInvariant, AttemptsInvTells, PTL

-----------------------------------------------------------------------------
(* Equal awards, equal scores.                                             *)
LEMMA SameAwards ==
    ASSUME NEW s \in Sheet, NEW t \in Sheet,
           \A q \in {"closed", "open"} : s[q].awarded = t[q].awarded
    PROVE  Aggregate(s) = Aggregate(t)
<1>1. [q \in Questions2 |-> NonNeg(s[q].awarded)] = [q \in Questions2 |-> NonNeg(t[q].awarded)]
  BY DEF Questions2
<1> QED BY <1>1 DEF Aggregate

(* A commit over rows that did not change since they were loaded leaves    *)
(* what it computed.                                                       *)
LEMMA FlushedCurrent ==
    /\ \A row, new \in AttemptRow : Flushed(row, new, row) = new
    /\ \A sheet, new \in Sheet : FlushedSheet(sheet, new, sheet) = new
<1>1. ASSUME NEW row \in AttemptRow, NEW new \in AttemptRow
      PROVE  Flushed(row, new, row) = new
  BY DEF Flushed, AttemptRow
<1>2. ASSUME NEW sheet \in Sheet, NEW new \in Sheet
      PROVE  FlushedSheet(sheet, new, sheet) = new
  <2>1. ASSUME NEW q \in {"closed", "open"}
        PROVE  Flushed(sheet[q], new[q], sheet[q]) = new[q]
    BY DEF Flushed, Sheet, AnswerRow
  <2> QED BY <2>1 DEF FlushedSheet, Sheet
<1> QED BY <1>1, <1>2

(* Steps that write no answer and no attempt part no score from its        *)
(* answers.                                                                *)
LEMMA QuietScores ==
    ASSUME NEW a \in Attempts, UNCHANGED <<openQuiz, attempt, answer>>, Scored(a)
    PROVE  Scored(a)'
  BY DEF Scored, Aggregate, Questions2

(* A commit of one attempt's answers with the score counted from them.     *)
LEMMA FreshScores ==
    ASSUME NEW b \in Attempts, NEW a \in Attempts, Scored(b), openQuiz' = openQuiz,
           attempt \in [Attempts -> AttemptRow], answer \in [Attempts -> Sheet],
           NEW sheet, NEW row, row.score = Aggregate(sheet),
           attempt' = [attempt EXCEPT ![a] = row], answer' = [answer EXCEPT ![a] = sheet]
    PROVE  Scored(b)'
<1>1. CASE a = b
  <2>1. attempt'[b] = row /\ answer'[b] = sheet
    BY <1>1
  <2> QED BY <2>1 DEF Scored, Aggregate, Questions2
<1>2. CASE a # b
  <2>1. attempt'[b] = attempt[b] /\ answer'[b] = answer[b]
    BY <1>2
  <2> QED BY <2>1 DEF Scored, Aggregate, Questions2
<1> QED BY <1>1, <1>2

(* Every step but the four commits leaves the answers and the scores be,   *)
(* and every step but three commits leaves completion be.                  *)
LEMMA StillStep ==
    ASSUME AttemptsNext
    PROVE  \/ UNCHANGED <<openQuiz, attempt, answer, progress>>
           \/ \E s \in Starters : StartInserts(s)
           \/ SaveWrites
           \/ \E u \in Submitters : SubmitWrites(u) \/ GradeCommits(u)
           \/ \E q \in Questions2, points \in {0, 1} : OverrideWrites(q, points)
           \/ \E score \in {0, 2} : GradeByHandWrites(score)
<1>1. ASSUME NEW s \in Starters, StartChecks(s) \/ StartCounts(s)
      PROVE  UNCHANGED <<openQuiz, attempt, answer, progress>>
  BY <1>1 DEF StartChecks, StartCounts
<1>2. ASSUME NEW a \in Attempts, SaveLoads(a) \/ OverrideLoads(a) \/ GradeByHandLoads
      PROVE  UNCHANGED <<openQuiz, attempt, answer, progress>>
  BY <1>2 DEF SaveLoads, OverrideLoads, GradeByHandLoads
<1>3. ASSUME NEW u \in Submitters,
             \/ \E a \in Attempts : SubmitLoads(u, a)
             \/ SubmitTakesSlot(u) \/ SubmitReadsProgress(u)
             \/ SubmitEnqueues(u) \/ SubmitStrands(u)
      PROVE  UNCHANGED <<openQuiz, attempt, answer, progress>>
  BY <1>3 DEF SubmitLoads, SubmitTakesSlot, SubmitReadsProgress, SubmitEnqueues,
     SubmitStrands
<1>4. ASSUME NEW u \in Submitters,
             \/ GradeLoads(u) \/ GradeAuthorized(u) \/ GradeReads(u)
             \/ \E mark \in Points : GradeAsks(u, mark)
             \/ GradeSettles(u) \/ GradeFails(u) \/ GradeLosesRace(u) \/ GradeWorkerDies(u)
      PROVE  UNCHANGED <<openQuiz, attempt, answer, progress>>
  BY <1>4 DEF GradeLoads, GradeAuthorized, GradeReads, GradeAsks, GradeSettles, GradeFails,
     GradeLosesRace, GradeWorkerDies
<1>5. CASE GradeByHandLoads
  BY <1>5 DEF GradeByHandLoads
<1> QED BY <1>1, <1>2, <1>3, <1>4, <1>5 DEF AttemptsNext

(* Saving progress changes which answers exist, not what was awarded.      *)
LEMMA SaveScores ==
    ASSUME AttemptsInv, SaveWrites, NEW b \in Attempts, Scored(b)
    PROVE  Scored(b)'
<1> DEFINE me == editing
           new == [q \in DOMAIN me.sheet |->
                      IF q \in Questions2
                      THEN [me.sheet[q] EXCEPT !.exists = TRUE, !.right = TRUE]
                      ELSE me.sheet[q]]
           clash == \E q \in Questions2 : answer[me.a][q].exists # me.sheet[q].exists
           sheet == FlushedSheet(me.sheet, new, answer[me.a])
<1>0. /\ me.a \in Attempts /\ me.sheet \in Sheet
      /\ attempt \in [Attempts -> AttemptRow] /\ answer \in [Attempts -> Sheet]
  BY DEF AttemptsInv, WorkTyped, RowsTyped, Work
<1>1. new \in Sheet
  BY <1>0, SavedSheet
<1>2. \A q \in {"closed", "open"} : new[q].awarded = me.sheet[q].awarded
  BY <1>0 DEF Sheet, AnswerRow
<1>3. /\ answer' = IF clash THEN answer ELSE [answer EXCEPT ![me.a] = sheet]
      /\ openQuiz' = openQuiz /\ attempt' = attempt
  BY DEF SaveWrites
<1>4. sheet \in Sheet /\ \A q \in {"closed", "open"} : sheet[q].awarded = answer[me.a][q].awarded
  <2> HIDE DEF new
  <2> QED BY <1>0, <1>1, <1>2, FlushedAnswers
<1> HIDE DEF sheet, clash, new
<1>5. Aggregate(sheet) = Aggregate(answer[me.a])
  BY <1>0, <1>4, SameAwards
<1>6. CASE answer' = answer
  BY <1>3, <1>6, QuietScores
<1>7. CASE answer' = [answer EXCEPT ![me.a] = sheet]
  <2>1. CASE b = me.a
    <3>1. answer'[b] = sheet /\ Aggregate(sheet) = Aggregate(answer[b])
      BY <1>0, <1>5, <1>7, <2>1
    <3> QED BY <1>3, <3>1 DEF Scored, Aggregate, Questions2
  <2>2. CASE b # me.a
    <3>1. answer'[b] = answer[b]
      BY <1>0, <1>7, <2>2
    <3> QED BY <1>3, <3>1 DEF Scored, Aggregate, Questions2
  <2> QED BY <2>1, <2>2
<1> QED BY <1>3, <1>6, <1>7

(* The three commits of a score: what they wrote is what they counted,     *)
(* unless their copies were old.                                           *)
LEMMA SubmitScores ==
    ASSUME AttemptsInv, NEW u \in Submitters, SubmitWrites(u), ~StaleCopyWritten,
           NEW b \in Attempts, Scored(b)
    PROVE  Scored(b)'
<1> DEFINE me == submitter[u]
           new == Provisional(me.sheet)
           score == Aggregate(new)
           status == IF openQuiz THEN "submitted" ELSE "graded"
           row == [me.row EXCEPT !.score = score, !.status = status]
           clash == \E q \in Questions2 : answer[me.a][q].exists # me.sheet[q].exists
           pc == IF openQuiz THEN "enqueuing" ELSE "done"
           r == [Idle EXCEPT !.pc = pc, !.a = me.a]
<1>0. /\ me.a \in Attempts /\ me.sheet \in Sheet /\ me.row \in AttemptRow /\ openQuiz \in BOOLEAN
      /\ attempt \in [Attempts -> AttemptRow] /\ answer \in [Attempts -> Sheet]
      /\ submitter \in [Submitters -> Work(SubmitPCs)] /\ me.pc = "writing"
      /\ openQuiz' = openQuiz
  BY DEF AttemptsInv, WorkTyped, RowsTyped, Work, SubmitWrites
<1>1. CASE clash
  BY <1>0, <1>1, QuietScores DEF SubmitWrites
<1>2. CASE ~clash
  <2>1. /\ answer' = [answer EXCEPT ![me.a] = FlushedSheet(me.sheet, new, answer[me.a])]
        /\ attempt' = [attempt EXCEPT ![me.a] = Flushed(me.row, row, attempt[me.a])]
        /\ submitter' = [submitter EXCEPT ![u] = r]
    BY <1>2 DEF SubmitWrites
  <2>2. submitter' # submitter
    <3>1. submitter'[u] = r
      BY <1>0, <2>1
    <3>2. r.pc = pc /\ pc # "writing"
      BY DEF Idle
    <3> QED BY <1>0, <3>1, <3>2
  <2>3. me.sheet = answer[me.a] /\ me.row = attempt[me.a]
    BY <1>0, <2>2 DEF StaleCopyWritten, Stale
  <2>4. new \in Sheet
    BY <1>0, ProvisionalSheet
  <2> HIDE DEF new
  <2>5. score \in {0, 1, 2}
    BY <1>0, <2>4, AggregateScore
  <2>6. row \in AttemptRow /\ row.score = score
    <3> HIDE DEF score
    <3> QED BY <1>0, <2>5 DEF AttemptRow
  <2> HIDE DEF row, r
  <2>7. /\ answer' = [answer EXCEPT ![me.a] = new] /\ attempt' = [attempt EXCEPT ![me.a] = row]
    BY <1>0, <2>1, <2>3, <2>4, <2>6, FlushedCurrent
  <2> QED BY <1>0, <2>6, <2>7, FreshScores
<1> QED BY <1>1, <1>2

(* The grading task's commit, likewise.                                    *)
LEMMA GradeScores ==
    ASSUME AttemptsInv, NEW u \in Submitters, GradeCommits(u), ~StaleCopyWritten,
           NEW b \in Attempts, Scored(b)
    PROVE  Scored(b)'
<1> DEFINE me == grader[u]
           new == WithMark(me.sheet, me.mark)
           score == Aggregate(new)
           row == [me.row EXCEPT !.score = score, !.status = "graded"]
           r == [Idle EXCEPT !.pc = "settling", !.a = me.a, !.ref = me.ref, !.mark = me.mark]
<1>0. /\ me.a \in Attempts /\ me.sheet \in Sheet /\ me.row \in AttemptRow /\ openQuiz \in BOOLEAN
      /\ attempt \in [Attempts -> AttemptRow] /\ answer \in [Attempts -> Sheet]
      /\ grader \in [Submitters -> Work(GradePCs)] /\ me.pc = "committing" /\ me.mark \in Points
      /\ openQuiz' = openQuiz
  BY DEF AttemptsInv, WorkTyped, RowsTyped, Work, GradeCommits
<1>1. /\ answer' = [answer EXCEPT ![me.a] = FlushedSheet(me.sheet, new, answer[me.a])]
      /\ attempt' = [attempt EXCEPT ![me.a] = Flushed(me.row, row, attempt[me.a])]
      /\ grader' = [grader EXCEPT ![u] = r]
  BY DEF GradeCommits, Recomputed
<1>2. grader'[u].pc = "settling"
  BY <1>0, <1>1 DEF Idle
<1>3. me.sheet = answer[me.a] /\ me.row = attempt[me.a]
  BY <1>0, <1>2 DEF StaleCopyWritten, Stale
<1>4. new \in Sheet
  BY <1>0, MarkedSheet
<1> HIDE DEF new
<1>5. score \in {0, 1, 2}
  BY <1>0, <1>4, AggregateScore
<1>6. row \in AttemptRow /\ row.score = score
  <2> HIDE DEF score
  <2> QED BY <1>0, <1>5 DEF AttemptRow
<1> HIDE DEF row, r
<1>7. /\ answer' = [answer EXCEPT ![me.a] = new] /\ attempt' = [attempt EXCEPT ![me.a] = row]
  BY <1>0, <1>1, <1>3, <1>4, <1>6, FlushedCurrent
<1> QED BY <1>0, <1>6, <1>7, FreshScores

(* The teacher's override, likewise.                                       *)
LEMMA OverrideScores ==
    ASSUME AttemptsInv, NEW q \in Questions2, NEW points \in {0, 1}, OverrideWrites(q, points),
           ~StaleCopyWritten, NEW b \in Attempts, Scored(b)
    PROVE  Scored(b)'
<1> DEFINE me == editing
           new == [me.sheet EXCEPT ![q].awarded = points, ![q].review = FALSE,
                                   ![q].manual = TRUE]
           score == Aggregate(new)
           status == IF \A p \in Questions2 : ~new[p].review THEN "graded" ELSE me.row.status
           row == [me.row EXCEPT !.score = score, !.status = status]
<1>0. /\ me.a \in Attempts /\ me.sheet \in Sheet /\ me.row \in AttemptRow /\ openQuiz \in BOOLEAN
      /\ attempt \in [Attempts -> AttemptRow] /\ answer \in [Attempts -> Sheet]
      /\ me.pc = "overriding" /\ openQuiz' = openQuiz
  BY DEF AttemptsInv, WorkTyped, RowsTyped, Work, OverrideWrites
<1>1. /\ answer' = [answer EXCEPT ![me.a] = FlushedSheet(me.sheet, new, answer[me.a])]
      /\ attempt' = [attempt EXCEPT ![me.a] = Flushed(me.row, row, attempt[me.a])]
      /\ editing' = Idle
  BY DEF OverrideWrites
<1>2. editing' # editing
  BY <1>0, <1>1, IdleWork
<1>3. me.sheet = answer[me.a] /\ me.row = attempt[me.a]
  BY <1>0, <1>2 DEF StaleCopyWritten, Stale
<1>4. new \in Sheet
  BY <1>0, OverriddenSheet DEF Questions2
<1> HIDE DEF new
<1>5. score \in {0, 1, 2} /\ status \in {me.row.status, "graded"}
  BY <1>0, <1>4, AggregateScore
<1>6. row \in AttemptRow /\ row.score = score
  <2> HIDE DEF score, status
  <2> QED BY <1>0, <1>5 DEF AttemptRow
<1> HIDE DEF row
<1>7. /\ answer' = [answer EXCEPT ![me.a] = new] /\ attempt' = [attempt EXCEPT ![me.a] = row]
  BY <1>0, <1>1, <1>3, <1>4, <1>6, FlushedCurrent
<1> QED BY <1>0, <1>6, <1>7, FreshScores

(* Between copies that are current a graded attempt keeps the score of its  *)
(* answers.                                                                 *)
LEMMA ScoreStep ==
    ASSUME AttemptsInv, AttemptsNext, ~StaleCopyWritten, NEW a \in Attempts, Scored(a)
    PROVE  Scored(a)'
<1>1. CASE UNCHANGED <<openQuiz, attempt, answer, progress>>
  BY <1>1, QuietScores
<1>2. ASSUME NEW s \in Starters, StartInserts(s) PROVE Scored(a)'
  <2>1. attempt \in [Attempts -> AttemptRow]
    BY DEF AttemptsInv, RowsTyped
  <2>2. attempt'[a] = attempt[a] \/ attempt'[a].status = "in_progress"
    <3> DEFINE c == CHOOSE x \in Attempts : attempt[x].status = "absent"
               row == [status |-> "in_progress", number |-> starter[s], score |-> Null]
    <3>1. attempt' = attempt \/ attempt' = [attempt EXCEPT ![c] = row]
      BY <1>2 DEF StartInserts
    <3>2. row.status = "in_progress"
      OBVIOUS
    <3> HIDE DEF c, row
    <3> QED BY <2>1, <3>1, <3>2
  <2> QED BY <1>2, <2>2 DEF StartInserts, Scored, Aggregate, Questions2
<1>3. CASE SaveWrites
  BY <1>3, SaveScores
<1>4. ASSUME NEW u \in Submitters, SubmitWrites(u) \/ GradeCommits(u) PROVE Scored(a)'
  BY <1>4, SubmitScores, GradeScores
<1>5. ASSUME NEW q \in Questions2, NEW points \in {0, 1}, OverrideWrites(q, points)
      PROVE  Scored(a)'
  BY <1>5, OverrideScores
<1>6. ASSUME NEW score \in {0, 2}, GradeByHandWrites(score) PROVE Scored(a)'
  BY <1>6, QuietScores DEF GradeByHandWrites
<1> QED BY <1>1, <1>2, <1>3, <1>4, <1>5, <1>6, StillStep

(* A graded attempt's score parts from its answers only when a request or  *)
(* a task writes copies that others have changed since it loaded them.     *)
THEOREM ScoresCounted == AttemptsSpec => OnlyStaleCopiesMisscore
<1>1. AttemptsInv /\ [AttemptsNext]_attemptVars =>
         [(\A a \in Attempts : Scored(a) => Scored(a)') \/ StaleCopyWritten]_attemptVars
  BY ScoreStep
<1> QED BY <1>1, AttemptsInvariant, PTL DEF AttemptsSpec, OnlyStaleCopiesMisscore

(* No step but the grade by hand takes completion back.                     *)
LEMMA CompletionStep ==
    ASSUME AttemptsInv, AttemptsNext, progress.done, editing.pc # "byhand"
    PROVE  progress'.done
<1>0. progress \in ProgressRow /\ openQuiz \in BOOLEAN
  BY DEF AttemptsInv, RowsTyped
<1>1. ASSUME NEW loaded \in ProgressRow, NEW score \in {0, 1, 2},
             progress' = Flushed(loaded, Marked(loaded, score), progress)
      PROVE  progress'.done
  <2> DEFINE mine == Marked(loaded, score)
  <2>1. mine \in ProgressRow /\ (mine = loaded \/ mine.done)
    BY MarkedRow
  <2> HIDE DEF mine
  <2>2. progress'.done = IF mine.done # loaded.done THEN mine.done ELSE progress.done
    <3>1. progress' = Flushed(loaded, mine, progress)
      BY <1>1 DEF mine
    <3> QED BY <1>0, <2>1, <3>1, FlushedProgress
  <2> QED BY <2>1, <2>2
<1>2. ASSUME NEW u \in Submitters, SubmitWrites(u) PROVE progress'.done
  <2>1. submitter[u].sheet \in Sheet /\ submitter[u].prog \in ProgressRow
    BY DEF AttemptsInv, WorkTyped, Work
  <2>2. Aggregate(Provisional(submitter[u].sheet)) \in {0, 1, 2}
    BY <1>0, <2>1, ProvisionalSheet, AggregateScore
  <2>3. \/ progress' = progress
        \/ progress' = Flushed(submitter[u].prog,
                          Marked(submitter[u].prog,
                                 Aggregate(Provisional(submitter[u].sheet))), progress)
    BY <1>2 DEF SubmitWrites
  <2> QED BY <1>1, <2>1, <2>2, <2>3
<1>3. ASSUME NEW u \in Submitters, GradeCommits(u) PROVE progress'.done
  <2>1. grader[u].sheet \in Sheet /\ grader[u].prog \in ProgressRow /\ grader[u].mark \in Points
    BY DEF AttemptsInv, WorkTyped, Work
  <2>2. Aggregate(WithMark(grader[u].sheet, grader[u].mark)) \in {0, 1, 2}
    BY <1>0, <2>1, MarkedSheet, AggregateScore
  <2>3. progress' = Flushed(grader[u].prog,
                       Marked(grader[u].prog,
                              Aggregate(WithMark(grader[u].sheet, grader[u].mark))), progress)
    BY <1>3 DEF GradeCommits, Recomputed
  <2> QED BY <1>1, <2>1, <2>2, <2>3
<1>4. ASSUME \/ \E s \in Starters : StartInserts(s)
             \/ SaveWrites
             \/ \E q \in Questions2, points \in {0, 1} : OverrideWrites(q, points)
      PROVE  progress'.done
  BY <1>4 DEF StartInserts, SaveWrites, OverrideWrites
<1>5. ASSUME NEW score \in {0, 2}, GradeByHandWrites(score) PROVE progress'.done
  BY <1>5 DEF GradeByHandWrites
<1> QED BY <1>2, <1>3, <1>4, <1>5, StillStep

(* A completed lesson stays completed, unless the teacher grades by hand.  *)
THEOREM CompletionIsKept == AttemptsSpec => CompletionKept
<1>1. AttemptsInv /\ [AttemptsNext]_attemptVars =>
         [progress.done /\ editing.pc # "byhand" => progress'.done]_attemptVars
  BY CompletionStep
<1> QED BY <1>1, AttemptsInvariant, PTL DEF AttemptsSpec, CompletionKept

-----------------------------------------------------------------------------
(* The composition: in every scenario one component steps, on its part of   *)
(* the state, and keeps its invariant; the others rest where they began.    *)
QuizScenarios == {"authoring", "editing", "generating"}
AttemptScenarios == {"starting", "attempts"}
SubmissionScenarios == {"submitting", "retention"}

Played ==
    /\ scenario \in Scenarios
    /\ scenario \in QuizScenarios => QuizAll
    /\ scenario \in AttemptScenarios => AttemptsInv
    /\ scenario \in SubmissionScenarios => SubmissionAll
    /\ scenario = "enrolment" => CourseAll

(* A step is one of the scenario's component.                               *)
LEMMA ScenarioSteps ==
    ASSUME [Next]_allVars
    PROVE  /\ scenario' = scenario
           /\ scenario \in QuizScenarios => [QuizNext]_quizVars
           /\ scenario \in AttemptScenarios => [AttemptsNext]_attemptVars
           /\ scenario \in SubmissionScenarios => [SubmissionsNext]_submissionVars
           /\ scenario = "enrolment" => [CoursesNext]_courseVars
<1>1. scenario' = scenario
  BY DEF Next, allVars
<1>2. CASE UNCHANGED allVars
  BY <1>2 DEF allVars, quizVars, attemptVars, workVars, submissionVars
<1>3. CASE Authoring /\ Quizzes
  <2>1. QuizNext
    BY <1>3 DEF Authoring, QuizNext, launchVars
  <2> QED BY <1>1, <1>3, <2>1
          DEF Authoring, QuizScenarios, AttemptScenarios, SubmissionScenarios
<1>4. CASE Editing
  <2>1. GenerateStep(l1) => QuizNext
    BY InstanceAssumption DEF GenerateNext, QuizNext
  <2>2. ASSUME UpdateQuestion(e1) \/ \E key \in Keys : LoadQuestion(e1, "edit", key)
        PROVE  AuthoringNext
    BY <2>2, InstanceAssumption DEF AuthoringNext, EditorNext
  <2>3. CreateQuestion => AuthoringNext
    BY DEF AuthoringNext
  <2>4. GenerateStep(l1) \/ (AuthoringNext /\ UNCHANGED <<ledgerVars, launchVars>>)
    BY <1>4, <2>2, <2>3 DEF Editing
  <2>5. QuizNext
    BY <2>1, <2>4 DEF QuizNext, launchVars
  <2>6. scenario = "editing"
    BY <1>4 DEF Editing
  <2> QED BY <1>1, <2>5, <2>6 DEF QuizScenarios, AttemptScenarios, SubmissionScenarios
<1>5. CASE Generating
  BY <1>1, <1>5 DEF Generating, QuizNext, QuizScenarios, AttemptScenarios, SubmissionScenarios
<1>6. CASE Sitting
  <2>1. Starting => AttemptsNext
    BY InstanceAssumption DEF Starting, AttemptsNext
  <2>2. AttemptsNext /\ scenario \in {"starting", "attempts"}
    BY <1>6, <2>1 DEF Sitting
  <2> QED BY <1>1, <2>2 DEF QuizScenarios, AttemptScenarios, SubmissionScenarios
<1>7. CASE Submitting
  BY <1>1, <1>7
  DEF Submitting, SubmissionsNext, QuizScenarios, AttemptScenarios, SubmissionScenarios
<1>8. CASE Enrolment
  BY <1>1, <1>8 DEF Enrolment, QuizScenarios, AttemptScenarios, SubmissionScenarios
<1> QED BY <1>2, <1>3, <1>4, <1>5, <1>6, <1>7, <1>8 DEF Next, Quizzes

(* The retention scenario starts with a submission handed in.               *)
LEMMA HandedInStart == HandedIn /\ AccountFunded => SubmissionAll
<1> SUFFICES ASSUME HandedIn, AccountFunded PROVE SubmissionAll
  OBVIOUS
<1>1. /\ Resting \in RequestOf(TutorPCs) /\ Resting \in RequestOf(PupilPCs)
      /\ Resting \in RequestOf({"idle", "purging"})
      /\ Resting \in RequestOf({"idle", "mailing"})
      /\ Resting.pc = "idle" /\ Resting.row = NoSubmission /\ Resting.files = {}
      /\ NoSubmission.retain = Never
  BY RestingRequest DEF TutorPCs, PupilPCs, Resting
<1>2. submission \in SubmissionRow /\ submission.status = "submitted"
  <2>1. 1 \in 0..MaxText
    BY InstanceAssumption, SubmissionsAssumption
  <2> QED BY <2>1 DEF HandedIn, NoSubmission, SubmissionRow, Never
<1>3. NoRows \in Row /\ NoRows.charged = 0
  BY DEF NoRows, Row
<1>4. {f1} \subseteq Attachments
  BY InstanceAssumption DEF Attachments
<1>5. SubmissionColumns /\ RequestColumns
  BY <1>1, <1>2, <1>3, <1>4 DEF HandedIn, AccountFunded, SubmissionColumns, RequestColumns,
     LedgerType, Never
<1>6. GradedQuietly /\ PurgeDue /\ ExtendedOnRow /\ DeadlinePromised
  BY <1>1, <1>2 DEF HandedIn, GradedQuietly, PurgeDue, ExtendedOnRow, DeadlinePromised
<1>7. ChargedRefs = {}
  BY <1>3, SubmissionsAssumption DEF AccountFunded, ChargedRefs
<1>8. ChargesGranted
  BY <1>1, <1>7, FS_EmptySet DEF ChargesGranted, HandedIn
<1>9. FilesUsed
  BY <1>1 DEF HandedIn, FilesUsed
<1>10. SubmissionFlags
  BY DEF HandedIn, SubmissionFlags
<1>11. DaysCounted
  BY SubmissionsAssumption DEF HandedIn, DaysCounted
<1> QED BY <1>5, <1>6, <1>8, <1>9, <1>10, <1>11 DEF SubmissionInv, SubmissionAll

(* Every scenario starts its component's invariant.                         *)
LEMMA PlayedStart == Init => Played
<1> SUFFICES ASSUME Init PROVE Played
  OBVIOUS
<1>1. AccountFunded
  BY DEF Init, AccountFunded
<1>2. QuizAll /\ AttemptsInv /\ CourseAll
  BY <1>1, QuizAllStart, AttemptsStart, CourseAllStart DEF Init
<1>3. SubmissionAll
  BY <1>1, SubmissionAllStart, HandedInStart DEF Init
<1> QED BY <1>2, <1>3 DEF Played, Init

(* And every step keeps the one of its scenario.                            *)
LEMMA PlayedStep ==
    ASSUME Played, [Next]_allVars
    PROVE  Played'
<1>1. /\ scenario' = scenario
      /\ scenario \in QuizScenarios => [QuizNext]_quizVars
      /\ scenario \in AttemptScenarios => [AttemptsNext]_attemptVars
      /\ scenario \in SubmissionScenarios => [SubmissionsNext]_submissionVars
      /\ scenario = "enrolment" => [CoursesNext]_courseVars
  BY ScenarioSteps
<1>2. scenario \in QuizScenarios => QuizAll'
  BY <1>1, QuizAllStep DEF Played
<1>3. scenario \in AttemptScenarios => AttemptsInv'
  BY <1>1, AttemptsInvKeeps DEF Played
<1>4. scenario \in SubmissionScenarios => SubmissionAll'
  BY <1>1, SubmissionAllStep DEF Played
<1>5. scenario = "enrolment" => CourseAll'
  BY <1>1, CourseAllStep DEF Played
<1> QED BY <1>1, <1>2, <1>3, <1>4, <1>5 DEF Played

(* In every scenario the component that is played stays well formed, for    *)
(* every value of the constants: rows, requests, counters and the clock.    *)
THEOREM TeachingTypeCorrect == Spec => []TypeOK
<1>1. Played => TypeOK
  <2> SUFFICES ASSUME Played PROVE TypeOK
    OBVIOUS
  <2>1. CASE scenario \in QuizScenarios
    BY <2>1, QuizAllTyped DEF Played, QuizScenarios, TypeOK
  <2>2. CASE scenario \in AttemptScenarios
    BY <2>2, AttemptsInvTells DEF Played, AttemptScenarios, TypeOK
  <2>3. CASE scenario \in SubmissionScenarios
    BY <2>3, SubmissionAllTyped DEF Played, SubmissionScenarios, TypeOK
  <2>4. CASE scenario = "enrolment"
    BY <2>4, CourseAllTyped DEF Played, TypeOK
  <2> QED BY <2>1, <2>2, <2>3, <2>4
          DEF Played, Scenarios, QuizScenarios, AttemptScenarios, SubmissionScenarios
<1> QED BY <1>1, PlayedStart, PlayedStep, PTL DEF Spec

(* Whoever is not played rests where the component began, and the journal   *)
(* of the retention charges is not written by the others.                   *)
Rests ==
    /\ scenario \notin QuizScenarios => QuestionsInit /\ GenerateInit
    /\ scenario \notin AttemptScenarios => AttemptsInit
    /\ scenario \notin SubmissionScenarios => SubmissionsInit /\ ChargedRefs = {}
    /\ scenario # "enrolment" => CoursesInit

(* A generation writes its own bill.                                        *)
LEMMA QuizBillsItself ==
    ASSUME [QuizNext]_quizVars, LedgerType, NEW ref \in Refs \ QLaunches
    PROVE  ledger'[ref] = ledger[ref]
<1>1. ASSUME NEW l \in QLaunches, GenerateStep(l) PROVE ledger'[ref] = ledger[ref]
  <2>1. \/ UNCHANGED ledgerVars \/ ReserveCredits(l, QEstimate) \/ ReleaseCredits(l, QEstimate)
        \/ \E spent2 \in {0, QEstimate} : FinalizeGeneration(l, QEstimate, spent2)
    BY <1>1 DEF GenerateStep, QuizClick, QuizBill, QuizEnqueue, QuizUnqueue, QuizSaveTask,
       QuizEndpointDies, QuizStart, QuizRetires, QuizCommit, QuizCharges, QuizFails,
       QuizFailUnlocks, QuizRefunds, QuizEnds, QuizWorkerDies, QuizSettled, quizVars, ledgerVars
  <2>2. UNCHANGED ledgerVars => ledger'[ref] = ledger[ref]
    BY DEF ledgerVars
  <2>3. ledger \in [Refs -> Row] /\ l # ref
    BY DEF LedgerType
  <2>4. ReserveCredits(l, QEstimate) \/ ReleaseCredits(l, QEstimate) => ledger'[ref] = ledger[ref]
    BY <2>3 DEF ReserveCredits, ReleaseCredits
  <2>5. ASSUME NEW spent2 \in {0, QEstimate}, FinalizeGeneration(l, QEstimate, spent2)
        PROVE  ledger'[ref] = ledger[ref]
    BY <2>3, <2>5 DEF FinalizeGeneration
  <2> QED BY <2>1, <2>2, <2>4, <2>5
<1> QED BY <1>1 DEF QuizNext, GenerateNext, quizVars, ledgerVars

(* A grading task writes the bill of its hold.                              *)
LEMMA GradingBillsItself ==
    ASSUME [AttemptsNext]_attemptVars, AttemptsInv, NEW ref \in Refs \ GradeRefs
    PROVE  ledger'[ref] = ledger[ref]
<1>1. ledger \in [Refs -> Row]
  BY DEF AttemptsInv, LedgerType
<1>2. ASSUME NEW u \in Submitters, GradeAuthorized(u) PROVE ledger'[ref] = ledger[ref]
  BY <1>1, <1>2 DEF GradeAuthorized, ReserveCredits, ledgerVars
<1>3. ASSUME NEW u \in Submitters, GradeSettles(u) PROVE ledger'[ref] = ledger[ref]
  <2>1. grader[u].ref \in GradeRefs \cup {"none"}
    BY DEF AttemptsInv, WorkTyped, Work
  <2> QED BY <1>1, <1>3, <2>1 DEF GradeSettles, FinalizeGeneration, ledgerVars
<1>4. \/ UNCHANGED ledgerVars
      \/ \E u \in Submitters : GradeAuthorized(u) \/ GradeSettles(u)
  BY DEF AttemptsNext, attemptVars, StartChecks, StartCounts, StartInserts, SaveLoads,
     OverrideLoads, SaveWrites, SubmitLoads, SubmitTakesSlot, SubmitReadsProgress, SubmitWrites,
     SubmitEnqueues, SubmitStrands, GradeLoads, GradeReads, GradeAsks, GradeCommits, GradeFails,
     GradeLosesRace, GradeWorkerDies, OverrideWrites, GradeByHandLoads, GradeByHandWrites
<1> QED BY <1>2, <1>3, <1>4 DEF ledgerVars

(* A component that is not played does not move.                            *)
LEMMA StillElsewhere ==
    ASSUME [Next]_allVars
    PROVE  /\ scenario \notin QuizScenarios => UNCHANGED <<questionVars, launchVars>>
           /\ scenario \notin AttemptScenarios => UNCHANGED gradingVars
           /\ scenario \notin SubmissionScenarios => UNCHANGED workVars
           /\ scenario # "enrolment" => UNCHANGED courseVars
  BY DEF Next, allVars, Quizzes, Authoring, Editing, Generating, Sitting, Submitting, Enrolment,
     QuizScenarios, AttemptScenarios, SubmissionScenarios, quizVars, launchVars

(* What rests stays where it is.                                            *)
LEMMA RestsStep ==
    ASSUME Played, Rests, [Next]_allVars
    PROVE  Rests'
<1>1. scenario' = scenario
  BY ScenarioSteps
<1>2. /\ scenario \notin QuizScenarios => UNCHANGED <<questionVars, launchVars>>
      /\ scenario \notin AttemptScenarios => UNCHANGED gradingVars
      /\ scenario \notin SubmissionScenarios => UNCHANGED workVars
      /\ scenario # "enrolment" => UNCHANGED courseVars
  BY StillElsewhere
<1>3. UNCHANGED <<questionVars, launchVars>> /\ QuestionsInit /\ GenerateInit
      => (QuestionsInit /\ GenerateInit)'
  BY DEF questionVars, launchVars, QuestionsInit, GenerateInit
<1>4. UNCHANGED gradingVars /\ AttemptsInit => AttemptsInit'
  BY DEF gradingVars, AttemptsInit
<1>5. UNCHANGED workVars /\ SubmissionsInit => SubmissionsInit'
  BY DEF workVars, SubmissionsInit
<1>6. UNCHANGED courseVars /\ CoursesInit => CoursesInit'
  BY DEF courseVars, CoursesInit
<1>7. ASSUME scenario \notin SubmissionScenarios, ChargedRefs = {} PROVE ChargedRefs' = {}
  <2>1. ASSUME NEW ref \in RetentionRefs PROVE ledger'[ref] = ledger[ref]
    <3>1. ref \in Refs /\ ref \notin QLaunches /\ ref \notin GradeRefs
      BY SubmissionsAssumption, InstanceAssumption
    <3>2. CASE scenario \in QuizScenarios
      <4>1. [QuizNext]_quizVars /\ LedgerType
        BY <3>2, ScenarioSteps DEF Played, QuizAll, BillInv
      <4> QED BY <3>1, <4>1, QuizBillsItself
    <3>3. CASE scenario \in AttemptScenarios
      <4>1. [AttemptsNext]_attemptVars /\ AttemptsInv
        BY <3>3, ScenarioSteps DEF Played
      <4> QED BY <3>1, <4>1, GradingBillsItself
    <3>4. CASE scenario = "enrolment"
      BY <3>4 DEF Next, allVars, Quizzes, Authoring, Editing, Generating, Sitting, Submitting,
         Enrolment, quizVars, ledgerVars
    <3> QED BY <1>7, <3>2, <3>3, <3>4
            DEF Played, Scenarios, QuizScenarios, AttemptScenarios, SubmissionScenarios
  <2> QED BY <1>7, <2>1 DEF ChargedRefs
<1> QED BY <1>1, <1>2, <1>3, <1>4, <1>5, <1>6, <1>7 DEF Rests

(* At first nothing is charged and everybody is at the beginning, but who   *)
(* is played.                                                               *)
LEMMA RestsStart == Init => Rests
<1> SUFFICES ASSUME Init PROVE Rests
  OBVIOUS
<1>1. NoRows.charged = 0 /\ \A ref \in RetentionRefs : ledger[ref] = NoRows
  BY SubmissionsAssumption DEF Init, NoRows
<1>2. ChargedRefs = {}
  BY <1>1 DEF ChargedRefs
<1> QED BY <1>2 DEF Init, Rests, SubmissionScenarios

(* The trial slots are counted while generations are played.                *)
SlotsPlayed == scenario \in QuizScenarios => SlotInv

(* Every step keeps the count.                                             *)
LEMMA SlotsPlayedStep ==
    ASSUME Played, SlotsPlayed, [Next]_allVars
    PROVE  SlotsPlayed'
BY ScenarioSteps, SlotsKept, InstanceAssumption DEF Played, QuizAll, SlotsPlayed

(* Whoever is played keeps its promises by its invariant, and whoever rests *)
(* has not broken any.                                                      *)
LEMMA PromisesKept ==
    ASSUME Played, Rests, SlotsPlayed
    PROVE  /\ OneCurrentVersion /\ NoSlotForNothing /\ QuizChargedIfMade
           /\ AttemptsWithinAllowance /\ GradingPaidIfGraded
           /\ GradedAndKept /\ EnrolledKeepTheirCourse
<1>1. OneCurrentVersion
  BY InvUnique, InitInv DEF Played, Rests, QuizAll
<1>2. NoSlotForNothing
  BY SlotsStart, SlotsTell, InstanceAssumption DEF Rests, SlotsPlayed
<1>3. QuizChargedIfMade
  <2>1. GenerateInit => QuizChargedIfMade
    BY DEF GenerateInit, NoJob, QuizChargedIfMade
  <2> QED BY <2>1, BillTells DEF Played, Rests, QuizAll
<1>4. AttemptsWithinAllowance /\ GradingPaidIfGraded
  <2>1. AttemptsInit => AttemptsWithinAllowance
    <3>1. AttemptsInit => Existing = {}
      BY DEF AttemptsInit, Existing, NoAttempt
    <3> QED BY <3>1, FS_EmptySet, GradingAssumption DEF AttemptsWithinAllowance
  <2>2. AttemptsInit => GradingPaidIfGraded
    BY DEF AttemptsInit, Idle, GradingPaidIfGraded
  <2> QED BY <2>1, <2>2, AttemptsInvTells DEF Played, Rests
<1>5. GradedAndKept
  <2>1. SubmissionsInit /\ ChargedRefs = {} => GradedAndKept
    <3> SUFFICES ASSUME SubmissionsInit, ChargedRefs = {} PROVE GradedAndKept
      OBVIOUS
    <3>1. GradedWorkStands
      BY DEF SubmissionsInit, NoSubmission, GradedWorkStands
    <3>2. Cardinality({ref \in RetentionRefs : ledger[ref].charged > 0}) = 0
      BY FS_EmptySet DEF ChargedRefs
    <3>3. RetentionKept
      BY <3>2 DEF SubmissionsInit, RetentionKept
    <3> QED BY <3>1, <3>3 DEF GradedAndKept
  <2> QED BY <2>1, SubmissionInvKeeps DEF Played, Rests, SubmissionAll
<1>6. EnrolledKeepTheirCourse
  BY CourseStart, CourseInvKeeps DEF Played, Rests, CourseAll
<1> QED BY <1>1, <1>2, <1>3, <1>4, <1>5, <1>6

(* What the run checks of the instance holds of it for every value of the   *)
(* constants, in whichever scenario: one current version and resolvable     *)
(* snapshots, bills and slots earned, allowances, scores and completion,    *)
(* graded work and paid retention, and a course that stays.                 *)
THEOREM TeachingKeepsItsPromises ==
    Spec => /\ []OneCurrentVersion /\ []NoSlotForNothing /\ []QuizChargedIfMade
            /\ []AttemptsWithinAllowance /\ []GradingPaidIfGraded
            /\ []GradedAndKept /\ []EnrolledKeepTheirCourse
            /\ SnapshotsResolve /\ OnlyStaleCopiesMisscore /\ CompletionKept
<1>1. Init => SlotsPlayed
  BY SlotsStart, InstanceAssumption DEF Init, SlotsPlayed
<1>2. Spec => [](Played /\ Rests /\ SlotsPlayed)
  BY <1>1, PlayedStart, PlayedStep, RestsStart, RestsStep, SlotsPlayedStep, PTL DEF Spec
<1>3. Played /\ [Next]_allVars =>
         [\A a \in Sittings :
             /\ ~BrokenSnapshot(rows', pins[a])
             /\ Resolved(rows', pins[a]) = Resolved(rows, pins[a])]_questionVars
  <2> SUFFICES ASSUME Played, [Next]_allVars, questionVars' # questionVars,
                      NEW a \in Sittings
               PROVE  /\ ~BrokenSnapshot(rows', pins[a])
                      /\ Resolved(rows', pins[a]) = Resolved(rows, pins[a])
    OBVIOUS
  <2>1. scenario \in QuizScenarios
    BY StillElsewhere
  <2> QED BY <2>1, ScenarioSteps, PinsResolved DEF Played, QuizAll
<1>4. Played /\ [Next]_allVars =>
         [(\A a \in Attempts : Scored(a) => Scored(a)') \/ StaleCopyWritten]_attemptVars
  <2> SUFFICES ASSUME Played, [Next]_allVars, ~StaleCopyWritten,
                      NEW a \in Attempts, Scored(a)
               PROVE  Scored(a)'
    OBVIOUS
  <2>1. CASE gradingVars' = gradingVars
    BY <2>1 DEF gradingVars, Scored, Aggregate, Questions2
  <2>2. CASE gradingVars' # gradingVars
    <3>1. scenario \in AttemptScenarios
      BY <2>2, StillElsewhere
    <3>2. AttemptsInv /\ AttemptsNext
      BY <2>2, <3>1, ScenarioSteps DEF Played, attemptVars
    <3> QED BY <3>2, ScoreStep
  <2> QED BY <2>1, <2>2
<1>5. Played /\ [Next]_allVars =>
         [progress.done /\ editing.pc # "byhand" => progress'.done]_attemptVars
  <2> SUFFICES ASSUME Played, [Next]_allVars, progress.done, editing.pc # "byhand"
               PROVE  progress'.done
    OBVIOUS
  <2>1. CASE gradingVars' = gradingVars
    BY <2>1 DEF gradingVars
  <2>2. CASE gradingVars' # gradingVars
    <3>1. scenario \in AttemptScenarios
      BY <2>2, StillElsewhere
    <3>2. AttemptsInv /\ AttemptsNext
      BY <2>2, <3>1, ScenarioSteps DEF Played, attemptVars
    <3> QED BY <3>2, CompletionStep
  <2> QED BY <2>1, <2>2
<1> QED
  BY <1>2, <1>3, <1>4, <1>5, PromisesKept, PTL
  DEF Spec, SnapshotsResolve, OnlyStaleCopiesMisscore, CompletionKept
=============================================================================
