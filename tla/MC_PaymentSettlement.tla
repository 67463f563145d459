------------------------ MODULE MC_PaymentSettlement ------------------------
(* Two payments of one buyer, two worker slots, at most two polls.         *)
EXTENDS PaymentSettlement, TLC

CONSTANTS pay1, pay2, w1, w2, r1, r2

OnePayment == {pay1}
TwoPayments == {pay1, pay2}
OneWorker == {w1}
TwoWorkers == {w1, w2}
OnePoller == {r1}
TwoPollers == {r1, r2}
Nobody == {}

WorkerSymm == Permutations(TwoWorkers)
PollerSymm == Permutations(TwoPollers)

=============================================================================
