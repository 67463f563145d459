\* Delivery, trial counter, holds and endings, under fairness.
CONSTANTS
    l1 = l1
    l2 = l2
    NoId = NoId
    Refs <- MCLaunches
    Launches <- MCLaunches
    Kinds <- BothKinds
    Estimates <- OnePrice
    StartCredits = 5
    FreePlan = TRUE
    TrialLimit = 1
    Slides = 2
    BaseCost = 1
    Patience = "settled"
    MaxCrashes = 0
    MaxCancels = 1
    MaxSweeps = 0
    WelcomeCredits = 0
    Allowance = 0
    CarryCap = 0
SPECIFICATION LiveSpec
CHECK_DEADLOCK FALSE
INVARIANTS
    TrialSlotsFair
    DeliveredIsPaid
    ImmediateCancelRefunds
PROPERTIES
    EveryHoldSettles
    ActiveEnds
