\* Two launches of one lesson pass the same guard.
CONSTANTS
    l1 = l1
    l2 = l2
    NoId = NoId
    Refs <- MCLaunches
    Launches <- MCLaunches
    Kinds <- VideoOnly
    Estimates <- OnePrice
    StartCredits = 6
    FreePlan = FALSE
    TrialLimit = 0
    Slides = 1
    BaseCost = 1
    Patience = "none"
    MaxCrashes = 0
    MaxCancels = 0
    MaxSweeps = 0
    WelcomeCredits = 0
    Allowance = 0
    CarryCap = 0
SPECIFICATION Spec
SYMMETRY Symm
CHECK_DEADLOCK FALSE
INVARIANTS
    OneActiveGeneration
