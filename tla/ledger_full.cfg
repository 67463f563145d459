\* Every caller of the account, with an admin grant and a monthly renewal.
CONSTANTS
    run1 = run1
    run2 = run2
    slide1 = slide1
    Refs <- MCRefs
    RunRefs <- MCRunRefs
    DirectRefs <- MCDirectRefs
    Estimates <- MCEstimates
    Credits <- MCCredits
    WelcomeCredits = 0
    Allowance = 3
    CarryCap = 1
    MaxCredited = 6
    MaxGrants = 1
    MaxRenewals = 1
    MaxReserves = 2
SYMMETRY Symm
CHECK_DEADLOCK FALSE
SPECIFICATION Spec
INVARIANTS
    HoldsConserved
    RunNeverOvercharged
PROPERTIES
    RunSettledOnce
    OnlyRenewalAndGrantOverdraw
    OnlyStaleGrantOrOverdraftUnexplained
    ImplementsAuthCapture
