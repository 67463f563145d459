\* Quizzes, assignments and courses.
CONSTANTS
    q1 = q1  q2 = q2  q3 = q3  e1 = e1  e2 = e2  l1 = l1  l2 = l2  p1 = p1
    a1 = a1  a2 = a2  a3 = a3  s1 = s1  s2 = s2  u1 = u1  u2 = u2
    g1 = g1  g2 = g2  f1 = f1  r1 = r1  r2 = r2
    NoId = NoId
    Refs <- MCRefs
    WelcomeCredits = 0
    Allowance = 0
    CarryCap = 0
    Questions <- MCQuestions
    MaxVersion = 3
    Editors <- MCEditors
    Sittings <- MCSittings
    QLaunches <- MCLaunches
    QEstimate = 2
    QTrialLimit = 1
    QFree = TRUE
    MaxQuizFaults = 1
    Attempts <- MCAttempts
    Starters <- MCStarters
    Submitters <- MCSubmitters
    AttemptsAllowed = 2
    PassScore = 1
    GradeRefs <- MCGradeRefs
    GradeCost = 1
    FreeGrades = 1
    DailyGrades = 2
    MaxEdits = 1
    MaxGradeFaults = 1
    StudentFiles <- MCStudentFiles
    FeedbackFiles = {feedback1}
    MaxFiles = 1
    MaxText = 1
    BaseDays = 1
    ExtensionDays = 2
    ReminderDays = 1
    LastDay = 4
    RetentionRefs <- MCRetentionRefs
    ExtensionPrice = 1
    Students = {pupil1, pupil2}
    MaxTurns = 3
CHECK_DEADLOCK FALSE
SPECIFICATION Spec
INVARIANTS
    TypeOK
    OneCurrentVersion
    NoSlotForNothing
    QuizChargedIfMade
    AttemptsWithinAllowance
    GradingPaidIfGraded
    
    EnrolledKeepTheirCourse
PROPERTIES
    SnapshotsResolve
    OnlyStaleCopiesMisscore
    CompletionKept
