\* The billing page polls while the webhook task settles.
CONSTANTS
    pay1 = pay1
    pay2 = pay2
    w1 = w1
    w2 = w2
    r1 = r1
    r2 = r2
    Refs <- Nobody
    Payments <- OnePayment
    Workers <- OneWorker
    Pollers <- OnePoller
    Package = 5
    MaxNotices = 1
    MaxErrors = 0
    WelcomeCredits = 0
    Allowance = 0
    CarryCap = 0
SPECIFICATION Spec
CHECK_DEADLOCK FALSE
INVARIANTS
    CreditedOnce
