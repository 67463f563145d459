\* A worker crash and a redelivery while the teacher cancels.
CONSTANTS
    l1 = l1
    l2 = l2
    NoId = NoId
    Refs <- MCLaunches
    Launches <- MCLaunches
    Kinds <- BothKinds
    Estimates <- OnePrice
    StartCredits = 5
    FreePlan = FALSE
    TrialLimit = 0
    Slides = 1
    BaseCost = 1
    Patience = "settled"
    MaxCrashes = 2
    MaxCancels = 1
    MaxSweeps = 1
    WelcomeCredits = 0
    Allowance = 0
    CarryCap = 0
SPECIFICATION Spec
SYMMETRY Symm
CHECK_DEADLOCK FALSE
INVARIANTS
    SettledWithinHold
    OneSettler
    ChargedOnlyIfDelivered
PROPERTIES
    UsesLedgerAsAgreed
