\* The webhook task and the sweep, two workers, errors and redeliveries.
CONSTANTS
    pay1 = pay1
    pay2 = pay2
    w1 = w1
    w2 = w2
    r1 = r1
    r2 = r2
    Refs <- Nobody
    Payments <- OnePayment
    Workers <- TwoWorkers
    Pollers <- Nobody
    Package = 5
    MaxNotices = 2
    MaxErrors = 2
    WelcomeCredits = 0
    Allowance = 0
    CarryCap = 0
SPECIFICATION Spec
SYMMETRY WorkerSymm
CHECK_DEADLOCK FALSE
INVARIANTS
    CreditedOnce
    StatusTellsCredit
PROPERTIES
    OutcomeIsFinal
