\* A paid payment is credited by the sweep alone, polls and tasks aside.
CONSTANTS
    pay1 = pay1
    pay2 = pay2
    w1 = w1
    w2 = w2
    r1 = r1
    r2 = r2
    Refs <- Nobody
    Payments <- OnePayment
    Workers <- OneWorker
    Pollers <- TwoPollers
    Package = 5
    MaxNotices = 1
    MaxErrors = 1
    WelcomeCredits = 0
    Allowance = 0
    CarryCap = 0
SPECIFICATION LiveSpec
CHECK_DEADLOCK FALSE
INVARIANTS
    PaidBeforeCredited

    
