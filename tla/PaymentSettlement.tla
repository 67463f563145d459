-------------------------- MODULE PaymentSettlement --------------------------
(***************************************************************************)
(* Credit packages bought through YooKassa.  Three paths carry the news    *)
(* that a payment succeeded to the payments row and the credit account:    *)
(*   - the webhook, which only enqueues the Celery task                    *)
(*     process_yookassa_payment;                                           *)
(*   - the beat sweep reconcile_pending_payments;                          *)
(*   - the billing page polling GET /billing/payments/{id}.                *)
(* Each reads the authoritative status first and settles afterwards, so    *)
(* any number of them can be between those two steps.  The task and the    *)
(* sweep lock the row and look at it then; the poll works on the ORM copy  *)
(* it loaded before it asked YooKassa, which a SELECT ... FOR UPDATE of    *)
(* the same session does not reload.                                       *)
(*                                                                         *)
(* All payments belong to one buyer, whose account is that of CreditLedger.*)
(***************************************************************************)
EXTENDS CreditLedger, FiniteSets

CONSTANTS
    Payments,       \* payments the buyer may start
    Workers,        \* Celery worker slots of the quiz queue
    Pollers,        \* concurrent requests of the billing page
    Package,        \* credits of the package bought
    MaxNotices,     \* bound on the deliveries of one notification
    MaxErrors       \* bound on failed GETs, failed creates and crashes

ASSUME PaymentAssumption ==
    /\ Refs = {}
    /\ Package \in Nat \ {0}
    /\ MaxNotices \in Nat /\ MaxErrors \in Nat

VARIABLES
    pays,       \* per payment: the payments row
    buyers,     \* per payment: the create_payment request
    shop,       \* per payment: YooKassa's own record
    notices,    \* per payment and event: notifications delivered so far
    inbox,      \* per payment and event: queued process_yookassa_payment tasks
    jobs,       \* per worker slot: the task it runs
    sweep,      \* the running reconcile_pending_payments
    polls,      \* per poller: the request it serves
    purchases,  \* history: PURCHASE rows per payment
    errors      \* counter of the bound

payVars == <<pays, buyers, shop, notices, inbox, jobs, sweep, polls,
             purchases, errors>>
vars == <<opened, balance, reserved, credited, ledger, pays, buyers, shop,
          notices, inbox, jobs, sweep, polls, purchases, errors>>

Events == {"payment.succeeded", "payment.canceled", "refund.succeeded"}
NoPayment == "none"

PayStatuses == {"absent", "pending", "succeeded", "canceled"}
PayRow == [status : PayStatuses, hasId : BOOLEAN, refunded : BOOLEAN,
           alerted : BOOLEAN]
NoRow == [status |-> "absent", hasId |-> FALSE, refunded |-> FALSE,
          alerted |-> FALSE]

(* What GET /payments/{id} answers; `matches` is payment_matches' verdict  *)
(* on the amount, the currency and the paid flag.                          *)
ShopStatuses == {"absent", "pending", "succeeded", "canceled"}
ShopRecord == [status : ShopStatuses, matches : BOOLEAN, refunded : BOOLEAN]
NoRecord == [status |-> "absent", matches |-> FALSE, refunded |-> FALSE]

BuyerPcs == {"idle", "inserted", "created", "redirected", "failed"}

Job == [pc : {"idle", "fetching", "settling"}, pay : Payments \cup {NoPayment},
        event : Events \cup {"reconcile"}, seen : ShopRecord]
NoJob == [pc |-> "idle", pay |-> NoPayment, event |-> "reconcile",
          seen |-> NoRecord]

Sweep == [pc : {"idle", "picking", "fetching", "settling"},
          todo : SUBSET Payments, pay : Payments \cup {NoPayment},
          seen : ShopRecord]
NoSweep == [pc |-> "idle", todo |-> {}, pay |-> NoPayment, seen |-> NoRecord]

Poll == [pc : {"idle", "asking", "applying"}, pay : Payments \cup {NoPayment},
         copy : PayRow, seen : ShopRecord]
NoPoll == [pc |-> "idle", pay |-> NoPayment, copy |-> NoRow, seen |-> NoRecord]

-----------------------------------------------------------------------------
(* create_payment.                                                         *)

InsertPayment(p) ==
    /\ buyers[p] = "idle"
    /\ buyers' = [buyers EXCEPT ![p] = "inserted"]
    /\ pays' = [pays EXCEPT ![p].status = "pending"]
    /\ UNCHANGED <<ledgerVars, shop, notices, inbox, jobs, sweep, polls,
                   purchases, errors>>

CreateAtShop(p) ==
    /\ buyers[p] = "inserted"
    /\ shop[p].status = "absent"
    /\ shop' = [shop EXCEPT ![p].status = "pending"]
    /\ buyers' = [buyers EXCEPT ![p] = "created"]
    /\ UNCHANGED <<ledgerVars, pays, notices, inbox, jobs, sweep, polls,
                   purchases, errors>>

(* The id is committed before the buyer gets the confirmation URL.         *)
SavePaymentId(p) ==
    /\ buyers[p] = "created"
    /\ pays' = [pays EXCEPT ![p].hasId = TRUE]
    /\ buyers' = [buyers EXCEPT ![p] = "redirected"]
    /\ UNCHANGED <<ledgerVars, shop, notices, inbox, jobs, sweep, polls,
                   purchases, errors>>

CreateUnfinished_OrRedirected(p) ==
    buyers[p] \in {"inserted", "created", "redirected"}

CreateUnfinished(p) == buyers[p] \in {"inserted", "created"}

(* The create call failed, or its answer was lost or had no URL: the       *)
(* request writes "canceled" whatever the row says by now.                 *)
CreateFails(p) ==
    /\ CreateUnfinished(p)
    /\ errors < MaxErrors
    /\ errors' = errors + 1
    /\ pays' = [pays EXCEPT ![p].status = "canceled"]
    /\ buyers' = [buyers EXCEPT ![p] = "failed"]
    /\ UNCHANGED <<ledgerVars, shop, notices, inbox, jobs, sweep, polls,
                   purchases>>

CreateCrashes(p) ==
    /\ CreateUnfinished(p)
    /\ errors < MaxErrors
    /\ errors' = errors + 1
    /\ buyers' = [buyers EXCEPT ![p] = "failed"]
    /\ UNCHANGED <<ledgerVars, pays, shop, notices, inbox, jobs, sweep, polls,
                   purchases>>

-----------------------------------------------------------------------------
(* YooKassa, as the code uses it: a payment ends in one of two statuses,   *)
(* can be paid only by a buyer who got the URL, and is refunded by hand.   *)

ShopSucceeds(p, matching) ==
    /\ shop[p].status = "pending"
    /\ buyers[p] = "redirected"
    /\ shop' = [shop EXCEPT ![p].status = "succeeded", ![p].matches = matching]
    /\ UNCHANGED <<ledgerVars, pays, buyers, notices, inbox, jobs, sweep,
                   polls, purchases, errors>>

ShopCancels(p) ==
    /\ shop[p].status = "pending"
    /\ shop' = [shop EXCEPT ![p].status = "canceled"]
    /\ UNCHANGED <<ledgerVars, pays, buyers, notices, inbox, jobs, sweep,
                   polls, purchases, errors>>

ShopRefunds(p) ==
    /\ shop[p].status = "succeeded"
    /\ ~shop[p].refunded
    /\ shop' = [shop EXCEPT ![p].refunded = TRUE]
    /\ UNCHANGED <<ledgerVars, pays, buyers, notices, inbox, jobs, sweep,
                   polls, purchases, errors>>

Happened(p, event) ==
    CASE event = "payment.succeeded" -> shop[p].status = "succeeded"
      [] event = "payment.canceled"  -> shop[p].status = "canceled"
      [] event = "refund.succeeded"  -> shop[p].refunded

(* A notification reaches the webhook, perhaps again, perhaps never; the   *)
(* webhook enqueues the task and answers 200.                              *)
Webhook(p, event) ==
    /\ Happened(p, event)
    /\ notices[p][event] < MaxNotices
    /\ notices' = [notices EXCEPT ![p][event] = @ + 1]
    /\ inbox' = [inbox EXCEPT ![p][event] = @ + 1]
    /\ UNCHANGED <<ledgerVars, pays, buyers, shop, jobs, sweep, polls,
                   purchases, errors>>

-----------------------------------------------------------------------------
(* The single money path of the tasks: _settle_payment.                    *)

Pending_Unguarded(p) == TRUE

(* The status guard, read under the row lock.                              *)
Pending(p) == pays[p].status = "pending"

Creditable_AnySuccess(answer) == answer.status = "succeeded"

Creditable(answer) == answer.status = "succeeded" /\ answer.matches

ApplyPurchase_Debits(p, keepId) ==
    /\ CreditAccount(-Package)
    /\ purchases' = [purchases EXCEPT ![p] = @ + 1]
    /\ pays' = [pays EXCEPT ![p].status = "succeeded",
                            ![p].hasId = @ \/ ~keepId]

(* apply_purchase / sync_apply_purchase: PURCHASE row, balance and status  *)
(* in one commit.                                                          *)
ApplyPurchase(p, keepId) ==
    /\ CreditAccount(Package)
    /\ purchases' = [purchases EXCEPT ![p] = @ + 1]
    /\ pays' = [pays EXCEPT ![p].status = "succeeded",
                            ![p].hasId = @ \/ ~keepId]

NothingChanges == UNCHANGED <<ledgerVars, pays, purchases>>

SettlePayment(p, answer, event) ==
    IF event = "refund.succeeded"
    THEN /\ pays' = [pays EXCEPT ![p].refunded = TRUE]
         /\ UNCHANGED <<ledgerVars, purchases>>
    ELSE CASE Pending(p) /\ answer.status = "canceled" ->
                  /\ pays' = [pays EXCEPT ![p].status = "canceled"]
                  /\ UNCHANGED <<ledgerVars, purchases>>
           [] Pending(p) /\ Creditable(answer) -> ApplyPurchase(p, FALSE)
           [] OTHER -> NothingChanges

-----------------------------------------------------------------------------
(* process_yookassa_payment.                                               *)

TakeTask(w, p, event) ==
    /\ jobs[w].pc = "idle"
    /\ inbox[p][event] > 0
    /\ inbox' = [inbox EXCEPT ![p][event] = @ - 1]
    /\ jobs' = [jobs EXCEPT ![w] = [NoJob EXCEPT !.pc = "fetching", !.pay = p,
                                                 !.event = event]]
    /\ UNCHANGED <<ledgerVars, pays, buyers, shop, notices, sweep, polls,
                   purchases, errors>>

TaskFetches(w) ==
    /\ jobs[w].pc = "fetching"
    /\ jobs' = [jobs EXCEPT ![w].pc = "settling",
                            ![w].seen = shop[jobs[w].pay]]
    /\ UNCHANGED <<ledgerVars, pays, buyers, shop, notices, inbox, sweep,
                   polls, purchases, errors>>

TaskSettles(w) ==
    /\ jobs[w].pc = "settling"
    /\ SettlePayment(jobs[w].pay, jobs[w].seen, jobs[w].event)
    /\ jobs' = [jobs EXCEPT ![w] = NoJob]
    /\ UNCHANGED <<buyers, shop, notices, inbox, sweep, polls, errors>>

(* A failed GET retries the task, and a worker that dies has its message   *)
(* redelivered (task_acks_late).                                           *)
TaskRequeued(w) ==
    /\ jobs[w].pc # "idle"
    /\ errors < MaxErrors
    /\ errors' = errors + 1
    /\ inbox' = [inbox EXCEPT ![jobs[w].pay][jobs[w].event] = @ + 1]
    /\ jobs' = [jobs EXCEPT ![w] = NoJob]
    /\ UNCHANGED <<ledgerVars, pays, buyers, shop, notices, sweep, polls,
                   purchases>>

(* max_retries exhausted.                                                  *)
TaskGivesUp(w) ==
    /\ jobs[w].pc = "fetching"
    /\ errors < MaxErrors
    /\ errors' = errors + 1
    /\ jobs' = [jobs EXCEPT ![w] = NoJob]
    /\ UNCHANGED <<ledgerVars, pays, buyers, shop, notices, inbox, sweep,
                   polls, purchases>>

-----------------------------------------------------------------------------
(* reconcile_pending_payments.                                             *)

Due_NotAlerted(p) ==
    pays[p].status = "pending" /\ pays[p].hasId /\ ~pays[p].alerted

Due(p) == pays[p].status = "pending" /\ pays[p].hasId

SweepScan ==
    /\ sweep.pc = "idle"
    /\ sweep' = [NoSweep EXCEPT !.pc = "picking",
                                !.todo = {p \in Payments : Due(p)}]
    /\ UNCHANGED <<ledgerVars, pays, buyers, shop, notices, inbox, jobs, polls,
                   purchases, errors>>

SweepPicks(p) ==
    /\ sweep.pc = "picking"
    /\ p \in sweep.todo
    /\ sweep' = [sweep EXCEPT !.pc = "fetching", !.pay = p,
                              !.todo = @ \ {p}]
    /\ UNCHANGED <<ledgerVars, pays, buyers, shop, notices, inbox, jobs, polls,
                   purchases, errors>>

SweepFetches ==
    /\ sweep.pc = "fetching"
    /\ sweep' = [sweep EXCEPT !.pc = "settling", !.seen = shop[sweep.pay]]
    /\ UNCHANGED <<ledgerVars, pays, buyers, shop, notices, inbox, jobs, polls,
                   purchases, errors>>

(* A failed GET skips the payment until the next sweep.                    *)
SweepFetchFails ==
    /\ sweep.pc = "fetching"
    /\ errors < MaxErrors
    /\ errors' = errors + 1
    /\ sweep' = [sweep EXCEPT !.pc = "picking", !.pay = NoPayment]
    /\ UNCHANGED <<ledgerVars, pays, buyers, shop, notices, inbox, jobs, polls,
                   purchases>>

SweepSettles ==
    /\ sweep.pc = "settling"
    /\ SettlePayment(sweep.pay, sweep.seen, "reconcile")
    /\ sweep' = [sweep EXCEPT !.pc = "picking", !.pay = NoPayment,
                              !.seen = NoRecord]
    /\ UNCHANGED <<buyers, shop, notices, inbox, jobs, polls, errors>>

(* _alert_stuck_payments: `stuck` are those among the pending that are old *)
(* enough and not locked by a settlement just now.                         *)
SweepAlerts(stuck) ==
    /\ sweep.pc = "picking"
    /\ sweep.todo = {}
    /\ \A p \in stuck : pays[p].status = "pending" /\ ~pays[p].alerted
    /\ pays' = [p \in Payments |-> [pays[p] EXCEPT !.alerted = @ \/ p \in stuck]]
    /\ sweep' = NoSweep
    /\ UNCHANGED <<ledgerVars, buyers, shop, notices, inbox, jobs, polls,
                   purchases, errors>>

-----------------------------------------------------------------------------
(* GET /billing/payments/{id}.                                             *)

PollLoads(r, p) ==
    /\ polls[r].pc = "idle"
    /\ pays[p].status = "pending" /\ pays[p].hasId
    /\ polls' = [polls EXCEPT ![r] = [NoPoll EXCEPT !.pc = "asking", !.pay = p,
                                                    !.copy = pays[p]]]
    /\ UNCHANGED <<ledgerVars, pays, buyers, shop, notices, inbox, jobs, sweep,
                   purchases, errors>>

PollAsks(r) ==
    /\ polls[r].pc = "asking"
    /\ polls' = [polls EXCEPT ![r].pc = "applying",
                              ![r].seen = shop[polls[r].pay]]
    /\ UNCHANGED <<ledgerVars, pays, buyers, shop, notices, inbox, jobs, sweep,
                   purchases, errors>>

(* apply_purchase looks for "succeeded", mark_payment_canceled for         *)
(* "pending", both in the copy the request has loaded before.              *)
PollApplies(r) ==
    LET p      == polls[r].pay
        answer == polls[r].seen
        copy   == polls[r].copy
    IN  /\ polls[r].pc = "applying"
        /\ CASE Creditable(answer) /\ copy.status # "succeeded" ->
                  ApplyPurchase(p, TRUE)
             [] answer.status = "canceled" /\ copy.status = "pending" ->
                  /\ pays' = [pays EXCEPT ![p].status = "canceled"]
                  /\ UNCHANGED <<ledgerVars, purchases>>
             [] OTHER -> NothingChanges
        /\ polls' = [polls EXCEPT ![r] = NoPoll]
        /\ UNCHANGED <<buyers, shop, notices, inbox, jobs, sweep, errors>>

-----------------------------------------------------------------------------
Init ==
    /\ LedgerInit
    /\ pays = [p \in Payments |-> NoRow]
    /\ buyers = [p \in Payments |-> "idle"]
    /\ shop = [p \in Payments |-> NoRecord]
    /\ notices = [p \in Payments |-> [e \in Events |-> 0]]
    /\ inbox = [p \in Payments |-> [e \in Events |-> 0]]
    /\ jobs = [w \in Workers |-> NoJob]
    /\ sweep = NoSweep
    /\ polls = [r \in Pollers |-> NoPoll]
    /\ purchases = [p \in Payments |-> 0]
    /\ errors = 0

Buyer(p) ==
    \/ InsertPayment(p) \/ CreateAtShop(p) \/ SavePaymentId(p)
    \/ CreateFails(p) \/ CreateCrashes(p)

Shop(p) ==
    \/ \E matching \in BOOLEAN : ShopSucceeds(p, matching)
    \/ ShopCancels(p) \/ ShopRefunds(p)
    \/ \E event \in Events : Webhook(p, event)

Sweeping ==
    \/ SweepScan
    \/ \E p \in Payments : SweepPicks(p)
    \/ SweepFetches \/ SweepSettles
    \/ \E stuck \in SUBSET Payments : SweepAlerts(stuck)

Polling(r) ==
    \/ \E p \in Payments : PollLoads(r, p)
    \/ PollAsks(r) \/ PollApplies(r)

Next ==
    \/ \E p \in Payments : Buyer(p) \/ Shop(p)
    \/ \E w \in Workers, p \in Payments, event \in Events : TakeTask(w, p, event)
    \/ \E w \in Workers :
            \/ TaskFetches(w) \/ TaskSettles(w)
            \/ TaskRequeued(w) \/ TaskGivesUp(w)
    \/ Sweeping \/ SweepFetchFails
    \/ \E r \in Pollers : Polling(r)

Spec == Init /\ [][Next]_vars

(* Celery beat keeps starting sweeps and a sweep runs to its end; nothing  *)
(* is assumed of webhooks, workers or the billing page.                    *)
LiveSpec == Spec /\ WF_vars(Sweeping)

-----------------------------------------------------------------------------
(* Every variable ranges over what its columns or its handler can hold.    *)
TypeOK ==
    /\ opened \in BOOLEAN /\ balance \in Nat /\ credited \in Nat
    /\ pays \in [Payments -> PayRow]
    /\ buyers \in [Payments -> BuyerPcs]
    /\ shop \in [Payments -> ShopRecord]
    /\ notices \in [Payments -> [Events -> 0..MaxNotices]]
    /\ inbox \in [Payments -> [Events -> Nat]]
    /\ jobs \in [Workers -> Job]
    /\ sweep \in Sweep
    /\ polls \in [Pollers -> Poll]
    /\ purchases \in [Payments -> Nat]
    /\ errors \in 0..MaxErrors

(* "Credits are granted exactly once": at most one PURCHASE row per        *)
(* payment, however often it is notified, swept or polled.                 *)
CreditedOnce == \A p \in Payments : purchases[p] <= 1

(* The status says whether the credits were granted, and every granted     *)
(* package is in the balance.                                              *)
StatusTellsCredit ==
    /\ \A p \in Payments : pays[p].status = "succeeded" <=> purchases[p] >= 1
    /\ balance = WelcomeCredits * (IF opened THEN 1 ELSE 0)
                 + Package * Cardinality({p \in Payments : pays[p].status = "succeeded"})

(* Nothing is credited that YooKassa does not hold as paid in full.        *)
PaidBeforeCredited ==
    \A p \in Payments :
        purchases[p] > 0 => shop[p].status = "succeeded" /\ shop[p].matches

(* A settled payment is never reopened, nor moved to the other outcome.    *)
OutcomeIsFinal ==
    [][\A p \in Payments :
            pays[p].status \in {"succeeded", "canceled"}
                => pays'[p].status = pays[p].status]_vars

(* A buyer who paid gets the credits, even if no notification ever comes:  *)
(* the sweep finds every payment whose id was saved.                       *)
PaidIsCredited ==
    \A p \in Payments :
        shop[p].status = "succeeded" /\ shop[p].matches
            ~> pays[p].status = "succeeded"

=============================================================================
