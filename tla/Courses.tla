------------------------------ MODULE Courses ------------------------------
(***************************************************************************)
(* One course with one module and one lesson: who may enrol, restricted    *)
(* access and its grants, roster import, publication flags and what a      *)
(* student may open, archiving, and the daily purge of archived courses    *)
(* and of deleted owners.  An enrolment inserts its row (and holds a key   *)
(* share lock on the course) before it commits; the purge holds row locks  *)
(* from its guard to its commit and deletes files before rows.             *)
(***************************************************************************)
EXTENDS Naturals, FiniteSets

CONSTANTS
    Students,
    MaxTurns    \* bound on the teacher's and owner's changes (exploration only)

ASSUME CoursesAssumption == MaxTurns \in Nat

VARIABLES
    course,         \* courses
    owner,          \* the owner's account, seen from the purge
    content,        \* modules and lessons: existence and is_published
    media,          \* the lesson's files are in storage
    enrolled, grants, studied,  \* enrollments, course_access_grants,
                                \* lesson_progress
    enroller, restricting, roster, coursePurge,    \* requests and tasks in flight
    everEnrolled, revoked, slipped, stranded,          \* history
    turns

courseVars == <<course, owner, content, media, enrolled, grants, studied, enroller,
                restricting, roster, coursePurge, everEnrolled, revoked, slipped, stranded,
                turns>>
flightVars == <<enroller, restricting, roster, coursePurge>>
historyVars == <<everEnrolled, revoked, slipped, stranded>>

NoCourse == [exists |-> FALSE, published |-> FALSE, archived |-> FALSE, aged |-> FALSE,
             invite |-> FALSE, code |-> FALSE]

Turn == turns < MaxTurns /\ turns' = turns + 1

(* FOR UPDATE of the purge and FOR KEY SHARE of an uncommitted enrolment.  *)
CourseLocked == coursePurge.what = "course" /\ coursePurge.pc \in {"guarded", "emptied"}
OwnerLocked == coursePurge.what = "owner" /\ coursePurge.pc \in {"guarded", "emptied"}
Enrolling == \E s \in Students : enroller[s] = "inserted"

(* course_access_service.access_clause with the enrolment, and             *)
(* visibility_service.lesson_visible_to_student.                           *)
HasAccess(s) == s \in enrolled /\ (course.invite => s \in grants)
HiddenByAuthor == ~(content.modulePublished /\ content.lessonPublished)
LessonVisible(s) == content.lesson /\ (~HiddenByAuthor \/ s \in studied)

-----------------------------------------------------------------------------
(* enroll: the checks, then the insert.                                    *)
EnrollChecks(s) ==
    /\ enroller[s] = "idle" /\ course.exists
    /\ course.published /\ ~course.archived
    /\ course.invite => s \in grants
    /\ s \notin enrolled
    /\ enroller' = [enroller EXCEPT ![s] = "checked"]
    /\ slipped' = IF restricting.pc = "idle" THEN slipped ELSE slipped \cup {s}
    /\ UNCHANGED <<course, owner, content, media, enrolled, grants, studied, restricting,
                   roster, coursePurge, everEnrolled, revoked, stranded, turns>>

(* The insert waits for the purge's lock; a purged course or a concurrent  *)
(* enrolment makes it fail.                                                *)
EnrollInserts(s) ==
    /\ enroller[s] = "checked" /\ ~CourseLocked
    /\ enroller' = [enroller EXCEPT ![s] =
                        IF course.exists /\ s \notin enrolled THEN "inserted" ELSE "idle"]
    /\ UNCHANGED <<course, owner, content, media, enrolled, grants, studied, restricting,
                   roster, coursePurge, historyVars, turns>>

EnrollCommits(s) ==
    /\ enroller[s] = "inserted"
    /\ enroller' = [enroller EXCEPT ![s] = "idle"]
    /\ enrolled' = enrolled \cup {s} /\ everEnrolled' = everEnrolled \cup {s}
    /\ UNCHANGED <<course, owner, content, media, grants, studied, restricting, roster,
                   coursePurge, revoked, slipped, stranded, turns>>

(* complete_lesson behind require_lesson_access.                           *)
CompleteLesson(s) ==
    /\ HasAccess(s) /\ LessonVisible(s) /\ s \notin studied
    /\ studied' = studied \cup {s}
    /\ UNCHANGED <<course, owner, content, media, enrolled, grants, flightVars, historyVars,
                   turns>>

-----------------------------------------------------------------------------
(* The teacher.  A request changes the columns it names, in one commit.    *)
Teaching == owner = "live" /\ course.exists
Edits == Teaching /\ ~CourseLocked /\ Turn

(* toggle_publish, the publish flags of module and lesson.                 *)
TogglePublish ==
    /\ Edits
    /\ course' = [course EXCEPT !.published = ~@]
    /\ UNCHANGED <<owner, content, media, enrolled, grants, studied, flightVars,
                   historyVars>>

PublishContent ==
    /\ Teaching /\ Turn
    /\ \/ content.module /\ content' = [content EXCEPT !.modulePublished = ~@]
       \/ content.lesson /\ content' = [content EXCEPT !.lessonPublished = ~@]
    /\ UNCHANGED <<course, owner, media, enrolled, grants, studied, flightVars,
                   historyVars>>

(* delete_module and delete_lesson: the rows cascade, progress included,   *)
(* and the files stay behind.                                              *)
DeleteContent ==
    /\ Teaching /\ content.lesson /\ Turn
    /\ content' \in {[content EXCEPT !.lesson = FALSE],
                     [content EXCEPT !.lesson = FALSE, !.module = FALSE]}
    /\ studied' = {}
    /\ UNCHANGED <<course, owner, media, enrolled, grants, flightVars, historyVars>>

DeleteCourse ==
    /\ Edits /\ ~course.archived
    /\ course' = [course EXCEPT !.archived = TRUE]
    /\ UNCHANGED <<owner, content, media, enrolled, grants, studied, flightVars,
                   historyVars>>

RestoreCourse ==
    /\ Edits /\ course.archived
    /\ course' = [course EXCEPT !.archived = FALSE, !.aged = FALSE]
    /\ UNCHANGED <<owner, content, media, enrolled, grants, studied, flightVars,
                   historyVars>>

(* generate_access_code and delete_access_code both leave the restricted   *)
(* mode; set_access_mode to open keeps the code.                           *)
OpenAccess ==
    /\ Edits
    /\ course' \in {[course EXCEPT !.invite = FALSE, !.code = c] : c \in BOOLEAN}
    /\ course' # course
    /\ UNCHANGED <<owner, content, media, enrolled, grants, studied, flightVars,
                   historyVars>>

(* set_access_mode to restricted: grants for every committed enrolment and *)
(* the flag become visible together.                                       *)
Backfill_GrantedOnly == enrolled \cap grants
Backfill == enrolled

RestrictBackfills ==
    /\ restricting.pc = "idle" /\ Teaching /\ Turn
    /\ restricting' = [pc |-> "backfilled", grants |-> Backfill]
    /\ slipped' = slipped \cup {s \in Students : enroller[s] # "idle"}
    /\ UNCHANGED <<course, owner, content, media, enrolled, grants, studied, enroller,
                   roster, coursePurge, everEnrolled, revoked, stranded>>

RestrictCommits ==
    /\ restricting.pc = "backfilled" /\ ~CourseLocked
    /\ restricting' = [pc |-> "idle", grants |-> {}]
    /\ IF course.exists
       THEN /\ course' = [course EXCEPT !.invite = TRUE]
            /\ grants' = grants \cup restricting.grants
       ELSE UNCHANGED <<course, grants>>
    /\ UNCHANGED <<owner, content, media, enrolled, studied, enroller, roster, coursePurge,
                   historyVars, turns>>

(* grant_access: the grant and the enrolment in one commit.                *)
Grants(s) ==
    /\ ~CourseLocked /\ course.exists
    /\ grants' = grants \cup {s} /\ enrolled' = enrolled \cup {s}
    /\ everEnrolled' = everEnrolled \cup {s} /\ revoked' = revoked \ {s}

AddAccessGrant(s) ==
    /\ Teaching /\ s \notin grants /\ Turn /\ Grants(s)
    /\ UNCHANGED <<course, owner, content, media, studied, flightVars, slipped, stranded>>

RemoveAccessGrant(s) ==
    /\ Teaching /\ s \in grants /\ Turn
    /\ grants' = grants \ {s} /\ revoked' = revoked \cup {s}
    /\ UNCHANGED <<course, owner, content, media, enrolled, studied, flightVars,
                   everEnrolled, slipped, stranded>>

(* import_from_file: who is already listed is read once, then one commit   *)
(* per student.                                                            *)
RosterLoads(wanted) ==
    /\ roster = {} /\ Teaching /\ wanted \ grants # {} /\ Turn
    /\ roster' = wanted \ grants
    /\ UNCHANGED <<course, owner, content, media, enrolled, grants, studied, enroller,
                   restricting, coursePurge, historyVars>>

RosterGrants(s) ==
    /\ s \in roster /\ Grants(s)
    /\ roster' = roster \ {s}
    /\ UNCHANGED <<course, owner, content, media, studied, enroller, restricting,
                   coursePurge, slipped, stranded, turns>>

RosterFails ==
    /\ roster # {} /\ Turn
    /\ roster' = {}
    /\ UNCHANGED <<course, owner, content, media, enrolled, grants, studied, enroller,
                   restricting, coursePurge, historyVars>>

-----------------------------------------------------------------------------
(* The owner's account, and time.                                          *)
OwnerChanges ==
    /\ ~OwnerLocked /\ Turn
    /\ \/ owner = "live" /\ owner' = "deleted"
       \/ owner \in {"deleted", "aged"} /\ owner' = "live"
    /\ UNCHANGED <<course, content, media, enrolled, grants, studied, flightVars,
                   historyVars>>

Ages ==
    /\ \/ course.archived /\ ~course.aged /\ ~CourseLocked
          /\ course' = [course EXCEPT !.aged = TRUE] /\ UNCHANGED owner
       \/ owner = "deleted" /\ owner' = "aged" /\ UNCHANGED course
    /\ UNCHANGED <<content, media, enrolled, grants, studied, flightVars, historyVars,
                   turns>>

-----------------------------------------------------------------------------
(* _purge_model for courses and for users: the scan, then per row the      *)
(* guard under its lock, the files, the row.                               *)
PurgeScans ==
    /\ coursePurge.pc = "idle"
    /\ \/ course.archived /\ course.aged
          /\ coursePurge' = [pc |-> "scanned", what |-> "course"]
       \/ owner = "aged" /\ coursePurge' = [pc |-> "scanned", what |-> "owner"]
    /\ UNCHANGED <<course, owner, content, media, enrolled, grants, studied, enroller,
                   restricting, roster, historyVars, turns>>

(* _course_purge_guard: a course whose row is locked is skipped, and the   *)
(* predicate and the enrolments are read again under the lock.             *)
Purgeable_AsScanned == course.exists
Purgeable ==
    ~Enrolling /\ course.exists /\ course.archived /\ course.aged /\ enrolled = {}

GuardsCourse ==
    /\ coursePurge = [pc |-> "scanned", what |-> "course"]
    /\ coursePurge' = [coursePurge EXCEPT !.pc = IF Purgeable THEN "guarded" ELSE "idle"]
    /\ UNCHANGED <<course, owner, content, media, enrolled, grants, studied, enroller,
                   restricting, roster, historyVars, turns>>

(* _user_purge_guard: only the users row is locked; an owner someone       *)
(* learns from is anonymized.                                              *)
GuardsOwner ==
    LET kept == owner = "aged" /\ course.exists /\ enrolled # {}
    IN  /\ coursePurge = [pc |-> "scanned", what |-> "owner"]
        /\ owner' = IF kept THEN "anonymized" ELSE owner
        /\ coursePurge' = [coursePurge EXCEPT
                !.pc = IF owner = "aged" /\ ~kept THEN "guarded" ELSE "idle"]
        /\ UNCHANGED <<course, content, media, enrolled, grants, studied, enroller,
                       restricting, roster, historyVars, turns>>

PurgeEmpties ==
    /\ coursePurge.pc = "guarded"
    /\ coursePurge' = [coursePurge EXCEPT !.pc = "emptied"]
    /\ media' = FALSE
    /\ UNCHANGED <<course, owner, content, enrolled, grants, studied, enroller, restricting,
                   roster, historyVars, turns>>

(* The delete waits for an uncommitted enrolment and fails on a committed  *)
(* one (enrollments.course_id restricts): the row survives its files.      *)
PurgeDeletes ==
    LET done == enrolled = {}
    IN  /\ coursePurge.pc = "emptied" /\ ~Enrolling
        /\ coursePurge' = [coursePurge EXCEPT !.pc = "idle"]
        /\ IF done
           THEN /\ course' = NoCourse /\ grants' = {}
                /\ content' = [content EXCEPT !.module = FALSE, !.lesson = FALSE]
                /\ owner' = IF coursePurge.what = "owner" THEN "gone" ELSE owner
                /\ UNCHANGED stranded
           ELSE stranded' = TRUE /\ UNCHANGED <<course, grants, content, owner>>
        /\ UNCHANGED <<media, enrolled, studied, enroller, restricting, roster,
                       everEnrolled, revoked, slipped, turns>>

-----------------------------------------------------------------------------
CoursesInit ==
    /\ course = [NoCourse EXCEPT !.exists = TRUE, !.published = TRUE]
    /\ owner = "live" /\ media = TRUE
    /\ content = [module |-> TRUE, modulePublished |-> TRUE,
                  lesson |-> TRUE, lessonPublished |-> TRUE]
    /\ enrolled = {} /\ grants = {} /\ studied = {}
    /\ enroller = [s \in Students |-> "idle"]
    /\ restricting = [pc |-> "idle", grants |-> {}] /\ roster = {}
    /\ coursePurge = [pc |-> "idle", what |-> "course"]
    /\ everEnrolled = {} /\ revoked = {} /\ slipped = {} /\ stranded = FALSE
    /\ turns = 0

EnrolNext ==
    \E s \in Students : \/ EnrollChecks(s) \/ EnrollInserts(s) \/ EnrollCommits(s)
                        \/ CompleteLesson(s)

TeacherNext ==
    \/ TogglePublish \/ PublishContent \/ DeleteContent \/ DeleteCourse \/ RestoreCourse
    \/ OpenAccess \/ RestrictBackfills \/ RestrictCommits
    \/ \E s \in Students : AddAccessGrant(s) \/ RemoveAccessGrant(s) \/ RosterGrants(s)
    \/ \E wanted \in SUBSET Students : RosterLoads(wanted)
    \/ RosterFails

CoursePurgeNext ==
    \/ OwnerChanges \/ Ages \/ PurgeScans \/ GuardsCourse \/ GuardsOwner \/ PurgeEmpties
    \/ PurgeDeletes

CoursesNext == EnrolNext \/ TeacherNext \/ CoursePurgeNext

(* The course from its publication on.                                     *)
CoursesSpec == CoursesInit /\ [][CoursesNext]_courseVars

CoursesTypeOK ==
    /\ course \in [exists : BOOLEAN, published : BOOLEAN, archived : BOOLEAN,
                   aged : BOOLEAN, invite : BOOLEAN, code : BOOLEAN]
    /\ owner \in {"live", "deleted", "aged", "anonymized", "gone"}
    /\ content \in [module : BOOLEAN, modulePublished : BOOLEAN, lesson : BOOLEAN,
                    lessonPublished : BOOLEAN]
    /\ {media, stranded} \subseteq BOOLEAN
    /\ enrolled \cup grants \cup studied \cup roster \subseteq Students
    /\ enroller \in [Students -> {"idle", "checked", "inserted"}]
    /\ restricting \in [pc : {"idle", "backfilled"}, grants : SUBSET Students]
    /\ coursePurge \in [pc : {"idle", "scanned", "guarded", "emptied"},
                        what : {"course", "owner"}]
    /\ everEnrolled \cup revoked \cup slipped \subseteq Students
    /\ turns \in 0..MaxTurns

(* PROPERTY: whoever has enrolled keeps the course: the row is never       *)
(* purged, switching to restricted never locks out a student whose         *)
(* enrolment did not overlap the switch and whom the teacher did not       *)
(* revoke, and the files are gone only when an enrolment slipped past the  *)
(* purge of a deleted owner, which locks no course.                        *)
EnrolledKeepTheirCourse ==
    \A s \in everEnrolled :
        /\ course.exists /\ s \in enrolled
        /\ HasAccess(s) \/ s \in revoked \cup slipped
        /\ media \/ stranded \/ coursePurge = [pc |-> "emptied", what |-> "owner"]
=============================================================================
