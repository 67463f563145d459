----------------------- MODULE PaymentSettlement_proofs -----------------------
(***************************************************************************)
(* What holds of PaymentSettlement for any number of payments, worker      *)
(* slots, notifications and errors: with the billing page polling, the     *)
(* types, and that nothing is credited that was not paid in full; and,     *)
(* when only the webhook task and the sweep settle payments (Pollers = {}),*)
(* that no payment is credited twice, no outcome is revised and the        *)
(* balance holds exactly the packages sold.  With a poller a payment can   *)
(* be credited twice: see pay_double.cfg.                                  *)
(***************************************************************************)
EXTENDS PaymentSettlement, FiniteSetTheorems, TLAPS

(* The parts of TypeOK that change together.                               *)
MoneyType == opened \in BOOLEAN /\ balance \in Nat /\ credited \in Nat
RowsType == /\ pays \in [Payments -> PayRow]
            /\ buyers \in [Payments -> BuyerPcs]
            /\ shop \in [Payments -> ShopRecord]
            /\ purchases \in [Payments -> Nat]
QueueType == /\ notices \in [Payments -> [Events -> 0..MaxNotices]]
             /\ inbox \in [Payments -> [Events -> Nat]]
             /\ errors \in 0..MaxErrors
WorkType == /\ jobs \in [Workers -> Job]
            /\ sweep \in Sweep
            /\ polls \in [Pollers -> Poll]

(* A handler past its first step knows which payment it is about: TypeOK   *)
(* alone is not inductive.                                                 *)
Busy ==
    /\ \A w \in Workers : jobs[w].pc # "idle" =>
            jobs[w].pay \in Payments /\ jobs[w].event \in Events
    /\ sweep.pc \in {"fetching", "settling"} => sweep.pay \in Payments
    /\ \A r \in Pollers : polls[r].pc # "idle" => polls[r].pay \in Payments

Typed == MoneyType /\ RowsType /\ QueueType /\ WorkType /\ Busy

(* TypeOK is the parts without Busy.                                       *)
LEMMA TypeParts == TypeOK <=> MoneyType /\ RowsType /\ QueueType /\ WorkType
BY DEF TypeOK, MoneyType, RowsType, QueueType, WorkType

(* The initial state is typed and nothing runs.                            *)
LEMMA InitType == Init => Typed
<1> SUFFICES ASSUME Init PROVE Typed
  OBVIOUS
<1>1. MoneyType
  BY LedgerAssumption DEF Init, LedgerInit, MoneyType
<1>2. RowsType
  BY DEF Init, RowsType, NoRow, PayRow, PayStatuses, BuyerPcs, NoRecord, ShopRecord, ShopStatuses
<1>3. QueueType
  BY PaymentAssumption DEF Init, QueueType
<1>4. WorkType
  BY DEF Init, WorkType, NoJob, Job, NoSweep, Sweep, NoPoll, Poll, NoRow, PayRow, PayStatuses, NoRecord, ShopRecord, ShopStatuses
<1>5. Busy
  BY DEF Init, Busy, NoJob, NoSweep, NoPoll
<1> QED BY <1>1, <1>2, <1>3, <1>4, <1>5 DEF Typed

(* The steps of create_payment keep the types.                             *)
LEMMA BuyerType ==
    ASSUME Typed, NEW p \in Payments, Buyer(p)
    PROVE  Typed'
<1>0. MoneyType /\ RowsType /\ QueueType /\ WorkType /\ Busy
  BY DEF Typed
<1>1. MoneyType' /\ WorkType' /\ Busy'
  BY <1>0 DEF MoneyType, WorkType, Busy, Buyer, InsertPayment, CreateAtShop, SavePaymentId, CreateFails,
           CreateCrashes, ledgerVars
<1>2. QueueType'
  BY <1>0, PaymentAssumption DEF QueueType, Buyer, InsertPayment, CreateAtShop, SavePaymentId, CreateFails,
           CreateCrashes, ledgerVars
<1>3. RowsType'
  <2> USE <1>0 DEF RowsType
  <2>1. CASE InsertPayment(p)
    BY <2>1 DEF InsertPayment, PayRow, PayStatuses, BuyerPcs
  <2>2. CASE CreateAtShop(p)
    BY <2>2 DEF CreateAtShop, ShopRecord, ShopStatuses, BuyerPcs
  <2>3. CASE SavePaymentId(p)
    BY <2>3 DEF SavePaymentId, PayRow, BuyerPcs
  <2>4. CASE CreateFails(p)
    BY <2>4 DEF CreateFails, PayRow, PayStatuses, BuyerPcs
  <2>5. CASE CreateCrashes(p)
    BY <2>5 DEF CreateCrashes, BuyerPcs
  <2> QED BY <2>1, <2>2, <2>3, <2>4, <2>5 DEF Buyer
<1> QED BY <1>1, <1>2, <1>3 DEF Typed

(* So do YooKassa and the webhook.                                         *)
LEMMA ShopType ==
    ASSUME Typed, NEW p \in Payments, Shop(p)
    PROVE  Typed'
<1>0. MoneyType /\ RowsType /\ QueueType /\ WorkType /\ Busy
  BY DEF Typed
<1>1. MoneyType' /\ WorkType' /\ Busy'
  BY <1>0 DEF MoneyType, WorkType, Busy, Shop, ShopSucceeds, ShopCancels, ShopRefunds, Webhook, ledgerVars
<1>2. QueueType'
  <2> USE <1>0, PaymentAssumption DEF QueueType
  <2>1. CASE \E event \in Events : Webhook(p, event)
    BY <2>1 DEF Webhook
  <2>2. CASE ~\E event \in Events : Webhook(p, event)
    BY <2>2 DEF Shop, ShopSucceeds, ShopCancels, ShopRefunds
  <2> QED BY <2>1, <2>2
<1>3. RowsType'
  <2> USE <1>0 DEF RowsType
  <2>1. ASSUME NEW matching \in BOOLEAN, ShopSucceeds(p, matching)
        PROVE  shop' \in [Payments -> ShopRecord]
    BY <2>1 DEF ShopSucceeds, ShopRecord, ShopStatuses
  <2>2. CASE ShopCancels(p)
    BY <2>2 DEF ShopCancels, ShopRecord, ShopStatuses
  <2>3. CASE ShopRefunds(p)
    BY <2>3 DEF ShopRefunds, ShopRecord, ShopStatuses
  <2>4. CASE \E event \in Events : Webhook(p, event)
    BY <2>4 DEF Webhook
  <2> QED BY <2>1, <2>2, <2>3, <2>4 DEF Shop, ShopSucceeds
<1> QED BY <1>1, <1>2, <1>3 DEF Typed


-----------------------------------------------------------------------------
(* The crediting operation and the money path keep rows and account typed. *)
LEMMA ApplyPurchaseType ==
    ASSUME MoneyType, RowsType, NEW p \in Payments, NEW keepId \in BOOLEAN,
           ApplyPurchase(p, keepId)
    PROVE  /\ MoneyType'
           /\ pays' \in [Payments -> PayRow]
           /\ purchases' \in [Payments -> Nat]
<1> USE PaymentAssumption, LedgerAssumption
<1>1. MoneyType'
  BY DEF MoneyType, ApplyPurchase, CreditAccount
<1>2. purchases' \in [Payments -> Nat]
  BY DEF RowsType, ApplyPurchase
<1>3. pays' \in [Payments -> PayRow]
  <2> DEFINE hasId == pays[p].hasId \/ ~keepId
             row == [pays[p] EXCEPT !.status = "succeeded", !.hasId = hasId]
  <2>1. row \in PayRow
    <3>1. hasId \in BOOLEAN /\ pays[p] \in PayRow
      BY DEF RowsType, PayRow
    <3> HIDE DEF hasId
    <3> QED BY <3>1 DEF PayRow, PayStatuses
  <2>2. pays' = [pays EXCEPT ![p] = row]
    BY DEF RowsType, ApplyPurchase
  <2> HIDE DEF row
  <2> QED BY <2>1, <2>2 DEF RowsType
<1> QED BY <1>1, <1>2, <1>3

(* _settle_payment keeps rows and account typed.                           *)
LEMMA SettleType ==
    ASSUME MoneyType, RowsType, NEW p \in Payments, NEW answer, NEW event,
           SettlePayment(p, answer, event)
    PROVE  /\ MoneyType'
           /\ pays' \in [Payments -> PayRow]
           /\ purchases' \in [Payments -> Nat]
<1>1. CASE NothingChanges
  BY <1>1 DEF NothingChanges, ledgerVars, MoneyType, RowsType
<1>2. CASE ApplyPurchase(p, FALSE)
  BY <1>2, ApplyPurchaseType
<1>3. CASE /\ pays' = [pays EXCEPT ![p].status = "canceled"]
           /\ UNCHANGED <<ledgerVars, purchases>>
  BY <1>3 DEF ledgerVars, MoneyType, RowsType, PayRow, PayStatuses
<1>4. CASE /\ pays' = [pays EXCEPT ![p].refunded = TRUE]
           /\ UNCHANGED <<ledgerVars, purchases>>
  BY <1>4 DEF ledgerVars, MoneyType, RowsType, PayRow
<1> QED BY <1>1, <1>2, <1>3, <1>4 DEF SettlePayment

-----------------------------------------------------------------------------
(* An event queued or taken once more leaves the counters counters.        *)
LEMMA InboxType ==
    ASSUME QueueType, NEW p \in Payments, NEW event \in Events, NEW n \in Nat,
           inbox' = [inbox EXCEPT ![p][event] = n]
    PROVE  inbox' \in [Payments -> [Events -> Nat]]
<1> DEFINE queue == [inbox[p] EXCEPT ![event] = n]
<1>1. queue \in [Events -> Nat]
  BY DEF QueueType
<1>2. inbox' = [inbox EXCEPT ![p] = queue]
  BY DEF QueueType
<1> HIDE DEF queue
<1> QED BY <1>1, <1>2 DEF QueueType

(* A job begun, advanced or ended for a known payment is still a job.      *)
LEMMA JobsType ==
    ASSUME Typed, NEW w \in Workers, NEW job \in Job,
           job.pc # "idle" => job.pay \in Payments /\ job.event \in Events,
           jobs' = [jobs EXCEPT ![w] = job], sweep' = sweep, polls' = polls
    PROVE  WorkType' /\ Busy'
BY DEF Typed, WorkType, Busy

(* process_yookassa_payment keeps the types.                               *)
LEMMA WorkerType ==
    ASSUME Typed, NEW w \in Workers,
           \/ \E p \in Payments, event \in Events : TakeTask(w, p, event)
           \/ TaskFetches(w) \/ TaskSettles(w) \/ TaskRequeued(w) \/ TaskGivesUp(w)
    PROVE  Typed'
<1>0. /\ MoneyType /\ RowsType /\ QueueType /\ WorkType
      /\ jobs[w] \in Job
      /\ jobs[w].pc # "idle" => jobs[w].pay \in Payments /\ jobs[w].event \in Events
  BY DEF Typed, WorkType, Busy
<1>q. MoneyType' /\ RowsType' /\ QueueType' /\ WorkType' /\ Busy' => Typed'
  BY DEF Typed
<1>n. NoJob \in Job /\ NoJob.pc = "idle"
  BY DEF NoJob, Job, NoRecord, ShopRecord, ShopStatuses
<1>1. ASSUME NEW p \in Payments, NEW event \in Events, TakeTask(w, p, event)
      PROVE  Typed'
  <2>1. MoneyType' /\ RowsType'
    BY <1>0, <1>1 DEF TakeTask, MoneyType, RowsType, ledgerVars
  <2>2. QueueType'
    <3> DEFINE n == inbox[p][event] - 1
    <3>1. inbox[p][event] \in Nat /\ inbox[p][event] > 0
      BY <1>0, <1>1 DEF TakeTask, QueueType
    <3>2. inbox' = [inbox EXCEPT ![p][event] = n]
      BY <1>1 DEF TakeTask
    <3>3. n \in Nat
      BY <3>1
    <3> HIDE DEF n
    <3>4. inbox' \in [Payments -> [Events -> Nat]]
      BY <3>2, <3>3, <1>0, InboxType
    <3> QED BY <3>4, <1>0, <1>1 DEF TakeTask, QueueType
  <2> DEFINE job == [NoJob EXCEPT !.pc = "fetching", !.pay = p, !.event = event]
  <2>3. job \in Job /\ job.pay = p /\ job.event = event
    BY DEF NoJob, Job, NoRecord, ShopRecord, ShopStatuses
  <2>4. jobs' = [jobs EXCEPT ![w] = job] /\ sweep' = sweep /\ polls' = polls
    BY <1>1 DEF TakeTask
  <2> HIDE DEF job
  <2>5. WorkType' /\ Busy'
    BY <2>3, <2>4, JobsType
  <2> QED BY <2>1, <2>2, <2>5, <1>q
<1>2. CASE TaskFetches(w)
  <2>1. MoneyType' /\ RowsType' /\ QueueType'
    BY <1>0, <1>2 DEF TaskFetches, MoneyType, RowsType, QueueType, ledgerVars
  <2> DEFINE answer == shop[jobs[w].pay]
             job == [jobs[w] EXCEPT !.pc = "settling", !.seen = answer]
  <2>2. jobs[w].pay \in Payments /\ jobs[w].event \in Events /\ answer \in ShopRecord
    BY <1>0, <1>2 DEF TaskFetches, RowsType
  <2>3. jobs' = [jobs EXCEPT ![w] = job] /\ sweep' = sweep /\ polls' = polls
    BY <1>2, <1>0 DEF TaskFetches, WorkType
  <2>4. job \in Job /\ job.pay = jobs[w].pay /\ job.event = jobs[w].event
    <3> HIDE DEF answer
    <3> QED BY <2>2, <1>0 DEF Job
  <2> HIDE DEF job
  <2>5. WorkType' /\ Busy'
    BY <2>2, <2>3, <2>4, JobsType
  <2> QED BY <2>1, <2>5, <1>q
<1>3. CASE TaskSettles(w)
  <2>0. jobs[w].pay \in Payments
    BY <1>0, <1>3 DEF TaskSettles
  <2>1. /\ MoneyType' /\ pays' \in [Payments -> PayRow]
        /\ purchases' \in [Payments -> Nat]
    BY <1>0, <1>3, <2>0, SettleType DEF TaskSettles
  <2>2. MoneyType' /\ RowsType' /\ QueueType'
    BY <1>0, <1>3, <2>1 DEF TaskSettles, RowsType, QueueType
  <2>3. WorkType' /\ Busy'
    BY <1>3, <1>n, JobsType DEF TaskSettles
  <2> QED BY <2>2, <2>3, <1>q
<1>4. CASE TaskRequeued(w)
  <2>1. MoneyType' /\ RowsType'
    BY <1>0, <1>4 DEF TaskRequeued, MoneyType, RowsType, ledgerVars
  <2>2. inbox' \in [Payments -> [Events -> Nat]]
    <3> DEFINE p == jobs[w].pay
               e == jobs[w].event
               n == inbox[p][e] + 1
    <3>1. p \in Payments /\ e \in Events
      BY <1>0, <1>4 DEF TaskRequeued
    <3>2. n \in Nat
      BY <3>1, <1>0 DEF QueueType
    <3>3. inbox' = [inbox EXCEPT ![p][e] = n]
      BY <1>4 DEF TaskRequeued
    <3> HIDE DEF n, p, e
    <3> QED BY <3>1, <3>2, <3>3, <1>0, InboxType
  <2>3. QueueType'
    BY <1>0, <1>4, <2>2, PaymentAssumption DEF TaskRequeued, QueueType
  <2>4. WorkType' /\ Busy'
    BY <1>4, <1>n, JobsType DEF TaskRequeued
  <2> QED BY <2>1, <2>3, <2>4, <1>q
<1>5. CASE TaskGivesUp(w)
  <2>1. MoneyType' /\ RowsType'
    BY <1>0, <1>5 DEF TaskGivesUp, MoneyType, RowsType, ledgerVars
  <2>2. QueueType'
    BY <1>0, <1>5, PaymentAssumption DEF TaskGivesUp, QueueType
  <2>3. WorkType' /\ Busy'
    BY <1>5, <1>n, JobsType DEF TaskGivesUp
  <2> QED BY <2>1, <2>2, <2>3, <1>q
<1> QED BY <1>1, <1>2, <1>3, <1>4, <1>5

(* A sweep advanced or ended for a known payment is still a sweep.         *)
LEMMA SweepType ==
    ASSUME Typed, NEW next \in Sweep,
           next.pc \in {"fetching", "settling"} => next.pay \in Payments,
           sweep' = next, jobs' = jobs, polls' = polls
    PROVE  WorkType' /\ Busy'
BY DEF Typed, WorkType, Busy

(* A poll advanced or ended for a known payment is still a poll.           *)
LEMMA PollsType ==
    ASSUME Typed, NEW r \in Pollers, NEW poll \in Poll,
           poll.pc # "idle" => poll.pay \in Payments,
           polls' = [polls EXCEPT ![r] = poll], jobs' = jobs, sweep' = sweep
    PROVE  WorkType' /\ Busy'
BY DEF Typed, WorkType, Busy

(* reconcile_pending_payments keeps the types.                             *)
LEMMA SweepingType ==
    ASSUME Typed, Sweeping \/ SweepFetchFails
    PROVE  Typed'
<1>0. /\ MoneyType /\ RowsType /\ QueueType /\ WorkType /\ sweep \in Sweep
      /\ sweep.pc \in {"fetching", "settling"} => sweep.pay \in Payments
  BY DEF Typed, WorkType, Busy
<1>q. MoneyType' /\ RowsType' /\ QueueType' /\ WorkType' /\ Busy' => Typed'
  BY DEF Typed
<1>n. NoSweep \in Sweep /\ NoSweep.pc = "idle"
  BY DEF NoSweep, Sweep, NoRecord, ShopRecord, ShopStatuses
<1>1. CASE SweepScan
  <2> DEFINE due == {p \in Payments : Due(p)}
             next == [NoSweep EXCEPT !.pc = "picking", !.todo = due]
  <2>1. MoneyType' /\ RowsType' /\ QueueType'
    BY <1>0, <1>1 DEF SweepScan, MoneyType, RowsType, QueueType, ledgerVars
  <2>2. next \in Sweep /\ next.pc = "picking"
    <3>1. due \in SUBSET Payments
      OBVIOUS
    <3> HIDE DEF due
    <3> QED BY <3>1 DEF NoSweep, Sweep, NoRecord, ShopRecord, ShopStatuses
  <2>3. sweep' = next /\ jobs' = jobs /\ polls' = polls
    BY <1>1 DEF SweepScan
  <2> HIDE DEF next
  <2>4. WorkType' /\ Busy'
    BY <2>2, <2>3, SweepType
  <2> QED BY <2>1, <2>4, <1>q
<1>2. ASSUME NEW p \in Payments, SweepPicks(p)
      PROVE  Typed'
  <2> DEFINE rest == sweep.todo \ {p}
             next == [sweep EXCEPT !.pc = "fetching", !.pay = p, !.todo = rest]
  <2>1. MoneyType' /\ RowsType' /\ QueueType'
    BY <1>0, <1>2 DEF SweepPicks, MoneyType, RowsType, QueueType, ledgerVars
  <2>2. next \in Sweep /\ next.pay = p
    <3>1. rest \in SUBSET Payments
      BY <1>0 DEF Sweep
    <3> HIDE DEF rest
    <3> QED BY <3>1, <1>0 DEF Sweep
  <2>3. sweep' = next /\ jobs' = jobs /\ polls' = polls
    BY <1>2 DEF SweepPicks
  <2> HIDE DEF next
  <2>4. WorkType' /\ Busy'
    BY <2>2, <2>3, SweepType
  <2> QED BY <2>1, <2>4, <1>q
<1>3. CASE SweepFetches
  <2> DEFINE answer == shop[sweep.pay]
             next == [sweep EXCEPT !.pc = "settling", !.seen = answer]
  <2>1. MoneyType' /\ RowsType' /\ QueueType'
    BY <1>0, <1>3 DEF SweepFetches, MoneyType, RowsType, QueueType, ledgerVars
  <2>2. sweep.pay \in Payments /\ answer \in ShopRecord
    BY <1>0, <1>3 DEF SweepFetches, RowsType
  <2>3. next \in Sweep /\ next.pay = sweep.pay
    <3> HIDE DEF answer
    <3> QED BY <2>2, <1>0 DEF Sweep
  <2>4. sweep' = next /\ jobs' = jobs /\ polls' = polls
    BY <1>3 DEF SweepFetches
  <2> HIDE DEF next
  <2>5. WorkType' /\ Busy'
    BY <2>2, <2>3, <2>4, SweepType
  <2> QED BY <2>1, <2>5, <1>q
<1>4. CASE SweepFetchFails
  <2> DEFINE next == [sweep EXCEPT !.pc = "picking", !.pay = NoPayment]
  <2>1. MoneyType' /\ RowsType' /\ QueueType'
    BY <1>0, <1>4, PaymentAssumption
       DEF SweepFetchFails, MoneyType, RowsType, QueueType, ledgerVars
  <2>2. next \in Sweep /\ next.pc = "picking"
    BY <1>0 DEF Sweep
  <2>3. sweep' = next /\ jobs' = jobs /\ polls' = polls
    BY <1>4 DEF SweepFetchFails
  <2> HIDE DEF next
  <2>4. WorkType' /\ Busy'
    BY <2>2, <2>3, SweepType
  <2> QED BY <2>1, <2>4, <1>q
<1>5. CASE SweepSettles
  <2> DEFINE next == [sweep EXCEPT !.pc = "picking", !.pay = NoPayment,
                                   !.seen = NoRecord]
  <2>1. /\ MoneyType' /\ pays' \in [Payments -> PayRow]
        /\ purchases' \in [Payments -> Nat]
    BY <1>0, <1>5, SettleType DEF SweepSettles
  <2>2. RowsType' /\ QueueType'
    BY <1>0, <1>5, <2>1 DEF SweepSettles, RowsType, QueueType
  <2>3. next \in Sweep /\ next.pc = "picking"
    BY <1>0 DEF Sweep, NoRecord, ShopRecord, ShopStatuses
  <2>4. sweep' = next /\ jobs' = jobs /\ polls' = polls
    BY <1>5 DEF SweepSettles
  <2> HIDE DEF next
  <2>5. WorkType' /\ Busy'
    BY <2>3, <2>4, SweepType
  <2> QED BY <2>1, <2>2, <2>5, <1>q
<1>6. ASSUME NEW stuck \in SUBSET Payments, SweepAlerts(stuck)
      PROVE  Typed'
  <2>1. pays' \in [Payments -> PayRow]
    <3>1. \A p \in Payments :
            [pays[p] EXCEPT !.alerted = @ \/ p \in stuck] \in PayRow
      <4> TAKE p \in Payments
      <4> DEFINE alerted == pays[p].alerted \/ p \in stuck
      <4>1. alerted \in BOOLEAN /\ pays[p] \in PayRow
        BY <1>0 DEF RowsType, PayRow
      <4> HIDE DEF alerted
      <4>2. [pays[p] EXCEPT !.alerted = alerted] \in PayRow
        BY <4>1 DEF PayRow
      <4> QED BY <4>1, <4>2 DEF alerted
    <3> QED BY <3>1, <1>6 DEF SweepAlerts
  <2>2. MoneyType' /\ RowsType' /\ QueueType'
    BY <1>0, <1>6, <2>1 DEF SweepAlerts, MoneyType, RowsType, QueueType, ledgerVars
  <2>3. WorkType' /\ Busy'
    BY <1>6, <1>n, SweepType DEF SweepAlerts
  <2> QED BY <2>2, <2>3, <1>q
<1> QED BY <1>1, <1>2, <1>3, <1>4, <1>5, <1>6 DEF Sweeping

(* GET /billing/payments/{id} keeps the types.                             *)
LEMMA PollingType ==
    ASSUME Typed, NEW r \in Pollers, Polling(r)
    PROVE  Typed'
<1>0. /\ MoneyType /\ RowsType /\ QueueType /\ WorkType /\ polls[r] \in Poll
      /\ polls[r].pc # "idle" => polls[r].pay \in Payments
  BY DEF Typed, WorkType, Busy
<1>q. MoneyType' /\ RowsType' /\ QueueType' /\ WorkType' /\ Busy' => Typed'
  BY DEF Typed
<1>n. NoPoll \in Poll /\ NoPoll.pc = "idle"
  BY DEF NoPoll, Poll, NoRow, PayRow, PayStatuses, NoRecord, ShopRecord, ShopStatuses
<1>1. ASSUME NEW p \in Payments, PollLoads(r, p)
      PROVE  Typed'
  <2> DEFINE row == pays[p]
             poll == [NoPoll EXCEPT !.pc = "asking", !.pay = p, !.copy = row]
  <2>1. MoneyType' /\ RowsType' /\ QueueType'
    BY <1>0, <1>1 DEF PollLoads, MoneyType, RowsType, QueueType, ledgerVars
  <2>2. poll \in Poll /\ poll.pay = p
    <3>1. row \in PayRow
      BY <1>0 DEF RowsType
    <3> HIDE DEF row
    <3> QED BY <3>1 DEF NoPoll, Poll, NoRecord, ShopRecord, ShopStatuses
  <2>3. polls' = [polls EXCEPT ![r] = poll] /\ jobs' = jobs /\ sweep' = sweep
    BY <1>1 DEF PollLoads
  <2> HIDE DEF poll
  <2>4. WorkType' /\ Busy'
    BY <2>2, <2>3, PollsType
  <2> QED BY <2>1, <2>4, <1>q
<1>2. CASE PollAsks(r)
  <2> DEFINE answer == shop[polls[r].pay]
             poll == [polls[r] EXCEPT !.pc = "applying", !.seen = answer]
  <2>1. MoneyType' /\ RowsType' /\ QueueType'
    BY <1>0, <1>2 DEF PollAsks, MoneyType, RowsType, QueueType, ledgerVars
  <2>2. polls[r].pay \in Payments /\ answer \in ShopRecord
    BY <1>0, <1>2 DEF PollAsks, RowsType
  <2>3. poll \in Poll /\ poll.pay = polls[r].pay
    <3> HIDE DEF answer
    <3> QED BY <2>2, <1>0 DEF Poll
  <2>4. polls' = [polls EXCEPT ![r] = poll] /\ jobs' = jobs /\ sweep' = sweep
    BY <1>2, <1>0 DEF PollAsks, WorkType
  <2> HIDE DEF poll
  <2>5. WorkType' /\ Busy'
    BY <2>2, <2>3, <2>4, PollsType
  <2> QED BY <2>1, <2>5, <1>q
<1>3. CASE PollApplies(r)
  <2> DEFINE p == polls[r].pay
  <2>0. p \in Payments
    BY <1>0, <1>3 DEF PollApplies
  <2>1. \/ ApplyPurchase(p, TRUE)
        \/ /\ pays' = [pays EXCEPT ![p].status = "canceled"]
           /\ UNCHANGED <<ledgerVars, purchases>>
        \/ NothingChanges
    BY <1>3 DEF PollApplies
  <2>f. /\ polls' = [polls EXCEPT ![r] = NoPoll] /\ jobs' = jobs /\ sweep' = sweep
        /\ UNCHANGED <<buyers, shop, notices, inbox, errors>>
    BY <1>3 DEF PollApplies
  <2> HIDE DEF p
  <2>2. /\ MoneyType' /\ pays' \in [Payments -> PayRow]
        /\ purchases' \in [Payments -> Nat]
    <3>1. CASE ApplyPurchase(p, TRUE)
      BY <3>1, <2>0, <1>0, ApplyPurchaseType
    <3>2. CASE /\ pays' = [pays EXCEPT ![p].status = "canceled"]
               /\ UNCHANGED <<ledgerVars, purchases>>
      BY <3>2, <2>0, <1>0 DEF ledgerVars, MoneyType, RowsType, PayRow, PayStatuses
    <3>3. CASE NothingChanges
      BY <3>3, <1>0 DEF NothingChanges, ledgerVars, MoneyType, RowsType
    <3> QED BY <2>1, <3>1, <3>2, <3>3
  <2>3. RowsType' /\ QueueType'
    BY <1>0, <2>2, <2>f DEF RowsType, QueueType
  <2>4. WorkType' /\ Busy'
    BY <2>f, <1>n, PollsType
  <2> QED BY <2>2, <2>3, <2>4, <1>q
<1> QED BY <1>1, <1>2, <1>3 DEF Polling

-----------------------------------------------------------------------------
(* The strengthened type invariant holds in every behaviour.               *)
LEMMA TypedInvariant == Spec => []Typed
<1>1. Init => Typed
  BY InitType
<1>2. Typed /\ [Next]_vars => Typed'
  <2> SUFFICES ASSUME Typed, [Next]_vars
               PROVE  Typed'
    OBVIOUS
  <2>1. ASSUME NEW p \in Payments, Buyer(p) PROVE Typed'
    BY <2>1, BuyerType
  <2>2. ASSUME NEW p \in Payments, Shop(p) PROVE Typed'
    BY <2>2, ShopType
  <2>3. ASSUME NEW w \in Workers, NEW p \in Payments, NEW event \in Events,
               TakeTask(w, p, event)
        PROVE  Typed'
    BY <2>3, WorkerType
  <2>4. ASSUME NEW w \in Workers,
               TaskFetches(w) \/ TaskSettles(w) \/ TaskRequeued(w) \/ TaskGivesUp(w)
        PROVE  Typed'
    BY <2>4, WorkerType
  <2>5. CASE Sweeping \/ SweepFetchFails
    BY <2>5, SweepingType
  <2>6. ASSUME NEW r \in Pollers, Polling(r) PROVE Typed'
    BY <2>6, PollingType
  <2>7. CASE UNCHANGED vars
    BY <2>7 DEF vars, Typed, MoneyType, RowsType, QueueType, WorkType, Busy
  <2> QED BY <2>1, <2>2, <2>3, <2>4, <2>5, <2>6, <2>7 DEF Next
<1> QED BY <1>1, <1>2, PTL DEF Spec

(* Every variable ranges over what its columns or its handler can hold.    *)
THEOREM PaymentTypeCorrect == Spec => []TypeOK
<1>1. Typed => TypeOK
  BY TypeParts DEF Typed
<1> QED BY <1>1, TypedInvariant, PTL

-----------------------------------------------------------------------------
(* Why a payment is credited once.  CreditedOnce is not inductive: the row *)
(* has to say whether it was credited, and create_payment, which writes    *)
(* "canceled" without looking, must not be able to meet a credited row.    *)
(* It cannot, because YooKassa takes money only from a redirected buyer,   *)
(* and by then the request is over.                                        *)
Settled ==
    /\ \A p \in Payments :
            /\ purchases[p] = IF pays[p].status = "succeeded" THEN 1 ELSE 0
            /\ pays[p].status = "succeeded" => buyers[p] = "redirected"
            /\ shop[p].status = "succeeded" => buyers[p] = "redirected"
            /\ buyers[p] = "idle" => pays[p].status = "absent"
    /\ \A w \in Workers :
            jobs[w].pc = "settling" /\ jobs[w].seen.status = "succeeded"
                => buyers[jobs[w].pay] = "redirected"
    /\ sweep.pc = "settling" /\ sweep.seen.status = "succeeded"
            => buyers[sweep.pay] = "redirected"

(* What one step may do to the row of a payment.                           *)
RowMoves(p) ==
    \/ pays'[p].status = pays[p].status /\ purchases'[p] = purchases[p]
    \/ /\ pays[p].status = "absent" /\ pays'[p].status = "pending"
       /\ purchases'[p] = purchases[p] /\ buyers'[p] = "inserted"
    \/ /\ pays[p].status # "succeeded" /\ pays'[p].status = "canceled"
       /\ purchases'[p] = purchases[p] /\ buyers[p] # "idle"
    \/ /\ pays[p].status = "pending" /\ pays'[p].status = "succeeded"
       /\ purchases'[p] = purchases[p] + 1 /\ buyers[p] = "redirected"

(* ... and to its create request.                                          *)
BuyerMoves(p) ==
    /\ buyers[p] = "redirected" => buyers'[p] = "redirected"
    /\ buyers[p] # "idle" => buyers'[p] # "idle"

(* _settle_payment moves rows only so.                                     *)
LEMMA SettleMoves ==
    ASSUME RowsType, Settled, NEW q \in Payments, NEW answer, NEW event,
           answer.status = "succeeded" => buyers[q] = "redirected",
           SettlePayment(q, answer, event), NEW p \in Payments
    PROVE  RowMoves(p)
<1>1. CASE NothingChanges
  BY <1>1 DEF NothingChanges, RowMoves
<1>2. CASE /\ pays' = [pays EXCEPT ![q].refunded = TRUE]
           /\ UNCHANGED <<ledgerVars, purchases>>
  BY <1>2 DEF RowMoves, RowsType, PayRow
<1>3. CASE /\ Pending(q)
           /\ pays' = [pays EXCEPT ![q].status = "canceled"]
           /\ UNCHANGED <<ledgerVars, purchases>>
  BY <1>3 DEF RowMoves, RowsType, PayRow, Pending, Settled
<1>4. CASE Pending(q) /\ Creditable(answer) /\ ApplyPurchase(q, FALSE)
  BY <1>4 DEF RowMoves, RowsType, PayRow, Pending, Creditable, ApplyPurchase
<1> QED BY <1>1, <1>2, <1>3, <1>4 DEF SettlePayment

(* Without pollers every step does.                                        *)
LEMMA StepMoves ==
    ASSUME Typed, Settled, Pollers = {}, [Next]_vars, NEW p \in Payments
    PROVE  RowMoves(p) /\ BuyerMoves(p)
<1>0. RowsType /\ Busy
  BY DEF Typed
<1>1. ASSUME NEW q \in Payments, Buyer(q)
      PROVE  RowMoves(p) /\ BuyerMoves(p)
  <2> USE <1>0 DEF RowMoves, BuyerMoves, RowsType, PayRow, Settled
  <2>1. CASE InsertPayment(q)
    BY <2>1 DEF InsertPayment
  <2>2. CASE CreateAtShop(q)
    BY <2>2 DEF CreateAtShop
  <2>3. CASE SavePaymentId(q)
    BY <2>3 DEF SavePaymentId
  <2>4. CASE CreateFails(q)
    BY <2>4 DEF CreateFails, CreateUnfinished
  <2>5. CASE CreateCrashes(q)
    BY <2>5 DEF CreateCrashes, CreateUnfinished
  <2> QED BY <1>1, <2>1, <2>2, <2>3, <2>4, <2>5 DEF Buyer
<1>2. ASSUME UNCHANGED <<pays, purchases, buyers>>
      PROVE  RowMoves(p) /\ BuyerMoves(p)
  BY <1>2 DEF RowMoves, BuyerMoves
<1>3. ASSUME NEW w \in Workers, TaskSettles(w)
      PROVE  RowMoves(p) /\ BuyerMoves(p)
  <2>1. /\ jobs[w].pay \in Payments
        /\ jobs[w].seen.status = "succeeded" => buyers[jobs[w].pay] = "redirected"
        /\ SettlePayment(jobs[w].pay, jobs[w].seen, jobs[w].event)
        /\ buyers' = buyers
    BY <1>0, <1>3 DEF TaskSettles, Busy, Settled
  <2>2. RowMoves(p)
    BY <2>1, <1>0, SettleMoves
  <2> QED BY <2>1, <2>2 DEF BuyerMoves
<1>4. CASE SweepSettles
  <2>1. /\ sweep.pay \in Payments
        /\ sweep.seen.status = "succeeded" => buyers[sweep.pay] = "redirected"
        /\ SettlePayment(sweep.pay, sweep.seen, "reconcile")
        /\ buyers' = buyers
    BY <1>0, <1>4 DEF SweepSettles, Busy, Settled
  <2>2. RowMoves(p)
    BY <2>1, <1>0, SettleMoves
  <2> QED BY <2>1, <2>2 DEF BuyerMoves
<1>5. ASSUME NEW stuck \in SUBSET Payments, SweepAlerts(stuck)
      PROVE  RowMoves(p) /\ BuyerMoves(p)
  BY <1>5, <1>0 DEF SweepAlerts, RowMoves, BuyerMoves, RowsType, PayRow
<1>6. ASSUME NEW q \in Payments, Shop(q)
      PROVE  UNCHANGED <<pays, purchases, buyers>>
  BY <1>6 DEF Shop, ShopSucceeds, ShopCancels, ShopRefunds, Webhook
<1>7. ASSUME NEW w \in Workers, NEW q \in Payments, NEW event \in Events,
             TakeTask(w, q, event)
      PROVE  UNCHANGED <<pays, purchases, buyers>>
  BY <1>7 DEF TakeTask
<1>8. ASSUME NEW w \in Workers, TaskFetches(w) \/ TaskRequeued(w) \/ TaskGivesUp(w)
      PROVE  UNCHANGED <<pays, purchases, buyers>>
  BY <1>8 DEF TaskFetches, TaskRequeued, TaskGivesUp
<1>9. ASSUME \/ SweepScan \/ SweepFetches \/ SweepFetchFails
             \/ \E q \in Payments : SweepPicks(q)
      PROVE  UNCHANGED <<pays, purchases, buyers>>
  BY <1>9 DEF SweepScan, SweepFetches, SweepFetchFails, SweepPicks
<1>10. CASE UNCHANGED vars
  BY <1>2, <1>10 DEF vars
<1> QED BY <1>1, <1>2, <1>3, <1>4, <1>5, <1>6, <1>7, <1>8, <1>9, <1>10
        DEF Next, Sweeping

(* YooKassa takes money only from a redirected buyer.                      *)
LEMMA ShopMoves ==
    ASSUME Typed, Settled, Pollers = {}, [Next]_vars, NEW p \in Payments
    PROVE  shop'[p].status = "succeeded" => buyers'[p] = "redirected"
<1>0. RowsType /\ BuyerMoves(p)
  BY StepMoves DEF Typed
<1>1. CASE shop'[p].status = shop[p].status
  BY <1>0, <1>1 DEF Settled, BuyerMoves
<1>2. ASSUME NEW q \in Payments, NEW matching \in BOOLEAN,
             ShopSucceeds(q, matching)
      PROVE  shop'[p].status = "succeeded" => buyers'[p] = "redirected"
  BY <1>0, <1>2 DEF ShopSucceeds, RowsType, ShopRecord, Settled
<1>3. ASSUME NEW q \in Payments, ShopCancels(q) \/ ShopRefunds(q)
      PROVE  shop'[p].status \in {shop[p].status, "canceled"}
  BY <1>0, <1>3 DEF ShopCancels, ShopRefunds, RowsType, ShopRecord
<1>4. ASSUME NEW q \in Payments, Buyer(q)
      PROVE  shop'[p].status \in {shop[p].status, "pending"}
  BY <1>0, <1>4 DEF Buyer, InsertPayment, CreateAtShop, SavePaymentId,
     CreateFails, CreateCrashes, RowsType, ShopRecord
<1>5. CASE shop' = shop
  BY <1>1, <1>5
<1>6. ASSUME NEW q \in Payments, NEW event \in Events, Webhook(q, event)
      PROVE  shop' = shop
  BY <1>6 DEF Webhook
<1>7. ASSUME NEW w \in Workers,
             \/ \E q \in Payments, event \in Events : TakeTask(w, q, event)
             \/ TaskFetches(w) \/ TaskSettles(w) \/ TaskRequeued(w) \/ TaskGivesUp(w)
      PROVE  shop' = shop
  BY <1>7 DEF TakeTask, TaskFetches, TaskSettles, TaskRequeued, TaskGivesUp
<1>8. ASSUME Sweeping \/ SweepFetchFails
      PROVE  shop' = shop
  BY <1>8 DEF Sweeping, SweepScan, SweepPicks, SweepFetches, SweepSettles,
     SweepAlerts, SweepFetchFails
<1>9. CASE UNCHANGED vars
  BY <1>5, <1>9 DEF vars
<1>10. ASSUME NEW q \in Payments, Shop(q)
       PROVE  shop'[p].status = "succeeded" => buyers'[p] = "redirected"
  BY <1>1, <1>2, <1>3, <1>5, <1>6, <1>10 DEF Shop
<1>11. ASSUME NEW q \in Payments, Buyer(q)
       PROVE  shop'[p].status = "succeeded" => buyers'[p] = "redirected"
  BY <1>1, <1>4, <1>11
<1> QED BY <1>5, <1>7, <1>8, <1>9, <1>10, <1>11 DEF Next

(* A job or a sweep about to settle has its answer from the shop record.   *)
JobMoves(w) ==
    \/ jobs'[w] = jobs[w]
    \/ jobs'[w].pc # "settling"
    \/ /\ jobs[w].pc = "fetching"
       /\ jobs'[w].pay = jobs[w].pay /\ jobs'[w].seen = shop[jobs[w].pay]

SweepMoves ==
    \/ sweep' = sweep
    \/ sweep'.pc # "settling"
    \/ /\ sweep.pc = "fetching"
       /\ sweep'.pay = sweep.pay /\ sweep'.seen = shop[sweep.pay]

(* Every step moves jobs and the sweep only so.                            *)
LEMMA WorkMoves ==
    ASSUME Typed, [Next]_vars
    PROVE  (\A w \in Workers : JobMoves(w)) /\ SweepMoves
<1>0. WorkType
  BY DEF Typed
<1>1. CASE jobs' = jobs /\ sweep' = sweep
  BY <1>1 DEF JobMoves, SweepMoves
<1>2. ASSUME NEW p \in Payments, Buyer(p) \/ Shop(p)
      PROVE  jobs' = jobs /\ sweep' = sweep
  BY <1>2 DEF Buyer, InsertPayment, CreateAtShop, SavePaymentId, CreateFails,
     CreateCrashes, Shop, ShopSucceeds, ShopCancels, ShopRefunds, Webhook
<1>3. ASSUME NEW u \in Workers,
             \/ \E p \in Payments, event \in Events : TakeTask(u, p, event)
             \/ TaskSettles(u) \/ TaskRequeued(u) \/ TaskGivesUp(u)
      PROVE  (\A w \in Workers : JobMoves(w)) /\ SweepMoves
  <2>1. sweep' = sweep /\ \E job : /\ job.pc # "settling"
                                  /\ jobs' = [jobs EXCEPT ![u] = job]
    <3>1. ASSUME NEW p \in Payments, NEW event \in Events, TakeTask(u, p, event)
          PROVE  /\ sweep' = sweep
                 /\ \E job : /\ job.pc # "settling"
                            /\ jobs' = [jobs EXCEPT ![u] = job]
      <4> DEFINE new == [NoJob EXCEPT !.pc = "fetching", !.pay = p, !.event = event]
      <4>1. new.pc # "settling"
        BY DEF NoJob
      <4>2. jobs' = [jobs EXCEPT ![u] = new] /\ sweep' = sweep
        BY <3>1 DEF TakeTask
      <4> HIDE DEF new
      <4> QED BY <4>1, <4>2
    <3>2. ASSUME TaskSettles(u) \/ TaskRequeued(u) \/ TaskGivesUp(u)
          PROVE  jobs' = [jobs EXCEPT ![u] = NoJob] /\ sweep' = sweep
      BY <3>2 DEF TaskSettles, TaskRequeued, TaskGivesUp
    <3>3. NoJob.pc # "settling"
      BY DEF NoJob
    <3> QED BY <1>3, <3>1, <3>2, <3>3
  <2> QED BY <1>0, <2>1 DEF WorkType, JobMoves, SweepMoves
<1>4. ASSUME NEW u \in Workers, TaskFetches(u)
      PROVE  (\A w \in Workers : JobMoves(w)) /\ SweepMoves
  BY <1>0, <1>4 DEF WorkType, Job, TaskFetches, JobMoves, SweepMoves
<1>5. ASSUME \/ SweepScan \/ SweepSettles \/ SweepFetchFails
             \/ \E p \in Payments : SweepPicks(p)
             \/ \E stuck \in SUBSET Payments : SweepAlerts(stuck)
      PROVE  jobs' = jobs /\ SweepMoves
  <2>1. sweep \in Sweep
    BY <1>0 DEF WorkType
  <2>2. CASE SweepScan
    <3> DEFINE due == {p \in Payments : Due(p)}
               next == [NoSweep EXCEPT !.pc = "picking", !.todo = due]
    <3>1. next.pc = "picking"
      BY DEF NoSweep
    <3>2. sweep' = next /\ jobs' = jobs
      BY <2>2 DEF SweepScan
    <3> HIDE DEF next
    <3> QED BY <3>1, <3>2 DEF SweepMoves
  <2>3. CASE SweepSettles \/ SweepFetchFails
    BY <2>1, <2>3 DEF Sweep, SweepSettles, SweepFetchFails, SweepMoves
  <2>4. ASSUME NEW p \in Payments, SweepPicks(p)
        PROVE  jobs' = jobs /\ SweepMoves
    BY <2>1, <2>4 DEF Sweep, SweepPicks, SweepMoves
  <2>5. ASSUME NEW stuck \in SUBSET Payments, SweepAlerts(stuck)
        PROVE  jobs' = jobs /\ SweepMoves
    BY <2>5 DEF SweepAlerts, NoSweep, SweepMoves
  <2> QED BY <1>5, <2>2, <2>3, <2>4, <2>5
<1>6. CASE SweepFetches
  BY <1>0, <1>6 DEF WorkType, Sweep, SweepFetches, JobMoves, SweepMoves
<1>7. CASE UNCHANGED vars
  BY <1>1, <1>7 DEF vars
<1>8. CASE Sweeping \/ SweepFetchFails
  BY <1>5, <1>6, <1>8 DEF Sweeping, JobMoves
<1>9. ASSUME NEW r \in Pollers, Polling(r)
      PROVE  jobs' = jobs /\ sweep' = sweep
  BY <1>9 DEF Polling, PollLoads, PollAsks, PollApplies
<1> QED BY <1>1, <1>2, <1>3, <1>4, <1>7, <1>8, <1>9 DEF Next

(* What a handler learnt of YooKassa stays true of the create request.     *)
LEMMA AnswersKept ==
    ASSUME Typed, Settled, Pollers = {}, [Next]_vars
    PROVE  /\ \A w \in Workers :
                  jobs'[w].pc = "settling" /\ jobs'[w].seen.status = "succeeded"
                      => buyers'[jobs'[w].pay] = "redirected"
           /\ sweep'.pc = "settling" /\ sweep'.seen.status = "succeeded"
                  => buyers'[sweep'.pay] = "redirected"
<1>0. Busy /\ \A p \in Payments : BuyerMoves(p)
  BY StepMoves DEF Typed
<1>1. ASSUME NEW w \in Workers,
             jobs'[w].pc = "settling", jobs'[w].seen.status = "succeeded"
      PROVE  buyers'[jobs'[w].pay] = "redirected"
  BY <1>0, <1>1, WorkMoves DEF JobMoves, Busy, Settled, BuyerMoves
<1>2. ASSUME sweep'.pc = "settling", sweep'.seen.status = "succeeded"
      PROVE  buyers'[sweep'.pay] = "redirected"
  BY <1>0, <1>2, WorkMoves DEF SweepMoves, Busy, Settled, BuyerMoves
<1> QED BY <1>1, <1>2

(* Settled is an invariant.                                                *)
LEMMA SettledInvariant ==
    ASSUME Pollers = {}
    PROVE  Spec => []Settled
<1>1. Init => Settled
  BY DEF Init, Settled, NoRow, NoRecord, NoJob, NoSweep
<1>2. Typed /\ Settled /\ [Next]_vars => Settled'
  <2> SUFFICES ASSUME Typed, Settled, [Next]_vars
               PROVE  Settled'
    OBVIOUS
  <2>1. ASSUME NEW p \in Payments
        PROVE  /\ purchases'[p] = IF pays'[p].status = "succeeded" THEN 1 ELSE 0
               /\ pays'[p].status = "succeeded" => buyers'[p] = "redirected"
               /\ buyers'[p] = "idle" => pays'[p].status = "absent"
    <3>1. RowMoves(p) /\ BuyerMoves(p)
      BY StepMoves
    <3>2. /\ purchases[p] = IF pays[p].status = "succeeded" THEN 1 ELSE 0
          /\ pays[p].status = "succeeded" => buyers[p] = "redirected"
          /\ buyers[p] = "idle" => pays[p].status = "absent"
      BY DEF Settled
    <3> QED BY <3>1, <3>2 DEF RowMoves, BuyerMoves
  <2>2. \A p \in Payments : shop'[p].status = "succeeded" => buyers'[p] = "redirected"
    BY ShopMoves
  <2> QED BY <2>1, <2>2, AnswersKept DEF Settled
<1> QED BY <1>1, <1>2, TypedInvariant, PTL DEF Spec

(* "Credits are granted exactly once": whatever the webhook task and the   *)
(* sweep do, as long as nobody polls.                                      *)
THEOREM TasksCreditOnce ==
    ASSUME Pollers = {}
    PROVE  Spec => []CreditedOnce
<1>1. Settled => CreditedOnce
  BY DEF Settled, CreditedOnce
<1> QED BY <1>1, SettledInvariant, PTL

(* A settled payment is never reopened, nor moved to the other outcome.    *)
THEOREM TasksNeverRevise ==
    ASSUME Pollers = {}
    PROVE  Spec => OutcomeIsFinal
<1>1. Typed /\ Settled /\ [Next]_vars
        => [\A p \in Payments :
                pays[p].status \in {"succeeded", "canceled"}
                    => pays'[p].status = pays[p].status]_vars
  <2> SUFFICES ASSUME Typed, Settled, [Next]_vars, NEW p \in Payments,
                      pays[p].status \in {"succeeded", "canceled"}
               PROVE  pays'[p].status = pays[p].status
    OBVIOUS
  <2>1. RowMoves(p)
    BY StepMoves
  <2> QED BY <2>1 DEF RowMoves
<1> QED BY <1>1, TypedInvariant, SettledInvariant, PTL DEF Spec, OutcomeIsFinal

-----------------------------------------------------------------------------
(* Why nothing unpaid is credited, billing page included.  An answer that  *)
(* says "paid in full" stays true: YooKassa never takes a success back.    *)
PaidInFull(p) == shop[p].status = "succeeded" /\ shop[p].matches

Honest ==
    /\ \A p \in Payments : purchases[p] > 0 => PaidInFull(p)
    /\ \A w \in Workers :
            jobs[w].pc = "settling" /\ Creditable(jobs[w].seen) => PaidInFull(jobs[w].pay)
    /\ sweep.pc = "settling" /\ Creditable(sweep.seen) => PaidInFull(sweep.pay)
    /\ \A r \in Pollers :
            polls[r].pc = "applying" /\ Creditable(polls[r].seen) => PaidInFull(polls[r].pay)

(* A success with its amount is never taken back.                          *)
LEMMA PaidStays ==
    ASSUME Typed, [Next]_vars, NEW p \in Payments, PaidInFull(p)
    PROVE  PaidInFull(p)'
<1>0. shop \in [Payments -> ShopRecord]
  BY DEF Typed, RowsType
<1>1. CASE shop' = shop
  BY <1>1 DEF PaidInFull
<1>2. ASSUME NEW q \in Payments, CreateAtShop(q) PROVE PaidInFull(p)'
  BY <1>0, <1>2 DEF CreateAtShop, ShopRecord, PaidInFull
<1>3. ASSUME NEW q \in Payments, NEW matching \in BOOLEAN, ShopSucceeds(q, matching)
      PROVE  PaidInFull(p)'
  BY <1>0, <1>3 DEF ShopSucceeds, ShopRecord, PaidInFull
<1>4. ASSUME NEW q \in Payments, ShopCancels(q) \/ ShopRefunds(q)
      PROVE  PaidInFull(p)'
  BY <1>0, <1>4 DEF ShopCancels, ShopRefunds, ShopRecord, PaidInFull
<1>5. ASSUME NEW q \in Payments,
             \/ InsertPayment(q) \/ SavePaymentId(q) \/ CreateFails(q) \/ CreateCrashes(q)
             \/ \E event \in Events : Webhook(q, event)
      PROVE  shop' = shop
  BY <1>5 DEF InsertPayment, SavePaymentId, CreateFails, CreateCrashes, Webhook
<1>6. ASSUME NEW w \in Workers,
             \/ \E q \in Payments, event \in Events : TakeTask(w, q, event)
             \/ TaskFetches(w) \/ TaskSettles(w) \/ TaskRequeued(w) \/ TaskGivesUp(w)
      PROVE  shop' = shop
  BY <1>6 DEF TakeTask, TaskFetches, TaskSettles, TaskRequeued, TaskGivesUp
<1>7. ASSUME Sweeping \/ SweepFetchFails PROVE shop' = shop
  BY <1>7 DEF Sweeping, SweepScan, SweepPicks, SweepFetches, SweepSettles,
     SweepAlerts, SweepFetchFails
<1>8. ASSUME NEW r \in Pollers, Polling(r) PROVE shop' = shop
  BY <1>8 DEF Polling, PollLoads, PollAsks, PollApplies
<1>9. CASE UNCHANGED vars
  BY <1>1, <1>9 DEF vars
<1>10. ASSUME NEW q \in Payments, Buyer(q) \/ Shop(q) PROVE PaidInFull(p)'
  BY <1>1, <1>2, <1>3, <1>4, <1>5, <1>10 DEF Buyer, Shop
<1> QED BY <1>1, <1>6, <1>7, <1>8, <1>9, <1>10 DEF Next

(* A PURCHASE row is only added for an answer that says "paid in full".    *)
CreditMoves(p) ==
    \/ purchases'[p] = purchases[p]
    \/ PaidInFull(p)

(* Settling an honest answer credits no one else and nothing unpaid.       *)
LEMMA SettleCredits ==
    ASSUME RowsType, NEW q \in Payments, NEW answer, NEW event,
           Creditable(answer) => PaidInFull(q),
           SettlePayment(q, answer, event), NEW p \in Payments
    PROVE  CreditMoves(p)
<1>1. CASE purchases' = purchases
  BY <1>1 DEF CreditMoves
<1>2. CASE Creditable(answer) /\ ApplyPurchase(q, FALSE)
  BY <1>2 DEF CreditMoves, ApplyPurchase, RowsType
<1> QED BY <1>1, <1>2 DEF SettlePayment, NothingChanges

(* Every step adds rows only so, and a handler about to settle has its     *)
(* answer from the shop record.                                            *)
LEMMA HonestCredits ==
    ASSUME Typed, Honest, [Next]_vars, NEW p \in Payments
    PROVE  CreditMoves(p)
<1>0. RowsType /\ Busy
  BY DEF Typed
<1>1. CASE purchases' = purchases
  BY <1>1 DEF CreditMoves
<1>2. ASSUME NEW w \in Workers, TaskSettles(w) PROVE CreditMoves(p)
  <2>1. /\ jobs[w].pay \in Payments
        /\ Creditable(jobs[w].seen) => PaidInFull(jobs[w].pay)
        /\ SettlePayment(jobs[w].pay, jobs[w].seen, jobs[w].event)
    BY <1>0, <1>2 DEF TaskSettles, Busy, Honest
  <2> QED BY <1>0, <2>1, SettleCredits
<1>3. CASE SweepSettles
  <2>1. /\ sweep.pay \in Payments
        /\ Creditable(sweep.seen) => PaidInFull(sweep.pay)
        /\ SettlePayment(sweep.pay, sweep.seen, "reconcile")
    BY <1>0, <1>3 DEF SweepSettles, Busy, Honest
  <2> QED BY <1>0, <2>1, SettleCredits
<1>4. ASSUME NEW r \in Pollers, PollApplies(r) PROVE CreditMoves(p)
  <2>1. /\ polls[r].pay \in Payments
        /\ Creditable(polls[r].seen) => PaidInFull(polls[r].pay)
    BY <1>0, <1>4 DEF PollApplies, Busy, Honest
  <2>2. CASE purchases' = purchases
    BY <2>2 DEF CreditMoves
  <2>3. CASE Creditable(polls[r].seen) /\ ApplyPurchase(polls[r].pay, TRUE)
    BY <1>0, <2>1, <2>3 DEF CreditMoves, ApplyPurchase, RowsType
  <2> QED BY <1>4, <2>2, <2>3 DEF PollApplies, NothingChanges
<1>5. ASSUME NEW q \in Payments, Buyer(q) \/ Shop(q) PROVE purchases' = purchases
  BY <1>5 DEF Buyer, InsertPayment, CreateAtShop, SavePaymentId, CreateFails,
     CreateCrashes, Shop, ShopSucceeds, ShopCancels, ShopRefunds, Webhook
<1>6. ASSUME NEW w \in Workers,
             \/ \E q \in Payments, event \in Events : TakeTask(w, q, event)
             \/ TaskFetches(w) \/ TaskRequeued(w) \/ TaskGivesUp(w)
      PROVE  purchases' = purchases
  BY <1>6 DEF TakeTask, TaskFetches, TaskRequeued, TaskGivesUp
<1>7. ASSUME \/ SweepScan \/ SweepFetches \/ SweepFetchFails
             \/ \E q \in Payments : SweepPicks(q)
             \/ \E stuck \in SUBSET Payments : SweepAlerts(stuck)
      PROVE  purchases' = purchases
  BY <1>7 DEF SweepScan, SweepFetches, SweepFetchFails, SweepPicks, SweepAlerts
<1>8. ASSUME NEW r \in Pollers, (\E q \in Payments : PollLoads(r, q)) \/ PollAsks(r)
      PROVE  purchases' = purchases
  BY <1>8 DEF PollLoads, PollAsks
<1>9. CASE UNCHANGED vars
  BY <1>1, <1>9 DEF vars
<1> QED BY <1>1, <1>2, <1>3, <1>4, <1>5, <1>6, <1>7, <1>8, <1>9
        DEF Next, Sweeping, Polling

(* A poll about to apply has its answer from the shop record.              *)
PollMoves(r) ==
    \/ polls'[r] = polls[r]
    \/ polls'[r].pc # "applying"
    \/ /\ polls[r].pc = "asking"
       /\ polls'[r].pay = polls[r].pay /\ polls'[r].seen = shop[polls[r].pay]

(* No step but its own answer makes a poll ready to apply one.             *)
LEMMA PollsMove ==
    ASSUME Typed, [Next]_vars, NEW r \in Pollers
    PROVE  PollMoves(r)
<1>0. polls \in [Pollers -> Poll]
  BY DEF Typed, WorkType
<1>1. CASE polls' = polls
  BY <1>1 DEF PollMoves
<1>2. ASSUME NEW u \in Pollers, NEW p \in Payments, PollLoads(u, p) PROVE PollMoves(r)
  <2> DEFINE new == [NoPoll EXCEPT !.pc = "asking", !.pay = p, !.copy = pays[p]]
  <2>1. new.pc # "applying"
    BY DEF NoPoll
  <2>2. polls' = [polls EXCEPT ![u] = new]
    BY <1>2 DEF PollLoads
  <2> HIDE DEF new
  <2> QED BY <1>0, <2>1, <2>2 DEF PollMoves
<1>3. ASSUME NEW u \in Pollers, PollAsks(u) PROVE PollMoves(r)
  BY <1>0, <1>3 DEF PollAsks, Poll, PollMoves
<1>4. ASSUME NEW u \in Pollers, PollApplies(u) PROVE PollMoves(r)
  <2>1. polls' = [polls EXCEPT ![u] = NoPoll]
    BY <1>4 DEF PollApplies
  <2> QED BY <1>0, <2>1 DEF NoPoll, PollMoves
<1>5. ASSUME NEW q \in Payments, Buyer(q) \/ Shop(q) PROVE polls' = polls
  BY <1>5 DEF Buyer, InsertPayment, CreateAtShop, SavePaymentId, CreateFails,
     CreateCrashes, Shop, ShopSucceeds, ShopCancels, ShopRefunds, Webhook
<1>6. ASSUME NEW w \in Workers,
             \/ \E q \in Payments, event \in Events : TakeTask(w, q, event)
             \/ TaskFetches(w) \/ TaskSettles(w) \/ TaskRequeued(w) \/ TaskGivesUp(w)
      PROVE  polls' = polls
  BY <1>6 DEF TakeTask, TaskFetches, TaskSettles, TaskRequeued, TaskGivesUp
<1>7. ASSUME Sweeping \/ SweepFetchFails PROVE polls' = polls
  BY <1>7 DEF Sweeping, SweepScan, SweepPicks, SweepFetches, SweepSettles,
     SweepAlerts, SweepFetchFails
<1>8. CASE UNCHANGED vars
  BY <1>1, <1>8 DEF vars
<1> QED BY <1>1, <1>2, <1>3, <1>4, <1>5, <1>6, <1>7, <1>8 DEF Next, Polling

(* What a handler learnt stays true until it settles.                      *)
LEMMA HonestAnswers ==
    ASSUME Typed, Honest, [Next]_vars
    PROVE  /\ \A w \in Workers :
                  jobs'[w].pc = "settling" /\ Creditable(jobs'[w].seen)
                      => PaidInFull(jobs[w].pay)'
           /\ sweep'.pc = "settling" /\ Creditable(sweep'.seen) => PaidInFull(sweep.pay)'
           /\ \A r \in Pollers :
                  polls'[r].pc = "applying" /\ Creditable(polls'[r].seen)
                      => PaidInFull(polls[r].pay)'
<1>0. Busy
  BY DEF Typed
<1>1. \A p \in Payments : PaidInFull(p) => shop'[p].status = "succeeded" /\ shop'[p].matches
  BY PaidStays DEF PaidInFull
<1>2. \A p \in Payments : Creditable(shop[p]) => PaidInFull(p)
  BY DEF Creditable, PaidInFull
<1>3. ASSUME NEW w \in Workers, jobs'[w].pc = "settling", Creditable(jobs'[w].seen)
      PROVE  PaidInFull(jobs[w].pay)'
  <2>1. JobMoves(w)
    BY WorkMoves
  <2>2. jobs'[w].pay \in Payments /\ PaidInFull(jobs'[w].pay)
    BY <1>0, <1>2, <1>3, <2>1 DEF JobMoves, Busy, Honest
  <2> QED BY <1>1, <2>2 DEF PaidInFull
<1>4. ASSUME sweep'.pc = "settling", Creditable(sweep'.seen)
      PROVE  PaidInFull(sweep.pay)'
  <2>1. sweep'.pay \in Payments /\ PaidInFull(sweep'.pay)
    BY <1>0, <1>2, <1>4, WorkMoves DEF SweepMoves, Busy, Honest
  <2> QED BY <1>1, <2>1 DEF PaidInFull
<1>5. ASSUME NEW r \in Pollers, polls'[r].pc = "applying", Creditable(polls'[r].seen)
      PROVE  PaidInFull(polls[r].pay)'
  <2>1. PollMoves(r)
    BY PollsMove
  <2>2. polls'[r].pay \in Payments /\ PaidInFull(polls'[r].pay)
    BY <1>0, <1>2, <1>5, <2>1 DEF PollMoves, Busy, Honest
  <2> QED BY <1>1, <2>2 DEF PaidInFull
<1> QED BY <1>3, <1>4, <1>5

(* Nothing is credited that YooKassa does not hold as paid in full, with   *)
(* any number of pages polling at once.                                    *)
THEOREM OnlyPaidIsCredited == Spec => []PaidBeforeCredited
<1>1. Init => Honest
  BY DEF Init, Honest, NoJob, NoSweep, NoPoll
<1>2. Typed /\ Honest /\ [Next]_vars => Honest'
  <2> SUFFICES ASSUME Typed, Honest, [Next]_vars PROVE Honest'
    OBVIOUS
  <2>1. ASSUME NEW p \in Payments, purchases'[p] > 0 PROVE PaidInFull(p)'
    <3>1. PaidInFull(p)
      BY <2>1, HonestCredits DEF CreditMoves, Honest
    <3> QED BY <3>1, PaidStays
  <2> QED BY <2>1, HonestAnswers DEF Honest
<1>3. Honest => PaidBeforeCredited
  BY DEF Honest, PaidInFull, PaidBeforeCredited
<1> QED BY <1>1, <1>2, <1>3, TypedInvariant, PTL DEF Spec

-----------------------------------------------------------------------------
(* Why the balance is the packages sold: the only step that moves money    *)
(* adds one payment to the credited ones and one package to the account.   *)
Sold == {p \in Payments : pays[p].status = "succeeded"}

Balanced ==
    /\ IsFiniteSet(Sold)
    /\ balance = WelcomeCredits * (IF opened THEN 1 ELSE 0) + Package * Cardinality(Sold)
    /\ ~opened => Sold = {}

MoneyMoves ==
    \/ UNCHANGED <<opened, balance>> /\ Sold' = Sold
    \/ \E p \in Payments :
          /\ p \notin Sold /\ Sold' = Sold \cup {p}
          /\ CreditAccount(Package)

(* Crediting a pending payment.                                            *)
LEMMA PurchaseMoves ==
    ASSUME RowsType, NEW q \in Payments, Pending(q), ApplyPurchase(q, FALSE)
    PROVE  MoneyMoves
<1>1. \A p \in Payments : pays'[p].status = IF p = q THEN "succeeded" ELSE pays[p].status
  BY DEF RowsType, PayRow, ApplyPurchase
<1>2. q \notin Sold /\ Sold' = Sold \cup {q}
  BY <1>1 DEF Pending, Sold
<1> QED BY <1>2 DEF MoneyMoves, ApplyPurchase

(* _settle_payment in all its branches.                                    *)
LEMMA SettleMoney ==
    ASSUME RowsType, NEW q \in Payments, NEW answer, NEW event,
           SettlePayment(q, answer, event)
    PROVE  MoneyMoves
<1>1. CASE NothingChanges
  BY <1>1 DEF NothingChanges, MoneyMoves, Sold, ledgerVars
<1>2. CASE /\ pays' = [pays EXCEPT ![q].refunded = TRUE]
           /\ UNCHANGED <<ledgerVars, purchases>>
  BY <1>2 DEF MoneyMoves, Sold, ledgerVars, RowsType, PayRow
<1>3. CASE /\ Pending(q)
           /\ pays' = [pays EXCEPT ![q].status = "canceled"]
           /\ UNCHANGED <<ledgerVars, purchases>>
  BY <1>3 DEF MoneyMoves, Sold, ledgerVars, RowsType, PayRow, Pending
<1>4. CASE Pending(q) /\ ApplyPurchase(q, FALSE)
  BY <1>4, PurchaseMoves
<1> QED BY <1>1, <1>2, <1>3, <1>4 DEF SettlePayment

(* Without pollers every step moves money only so.                         *)
LEMMA StepMoney ==
    ASSUME Typed, Settled, Pollers = {}, [Next]_vars
    PROVE  MoneyMoves
<1>0. RowsType /\ Busy
  BY DEF Typed
<1>1. ASSUME NEW q \in Payments, Buyer(q) PROVE MoneyMoves
  <2>1. UNCHANGED <<opened, balance>>
    BY <1>1 DEF Buyer, InsertPayment, CreateAtShop, SavePaymentId, CreateFails,
       CreateCrashes, ledgerVars
  <2>2. ASSUME NEW p \in Payments
        PROVE  pays'[p].status = "succeeded" <=> pays[p].status = "succeeded"
    <3>1. RowMoves(p) /\ purchases' = purchases
      BY <1>1, StepMoves DEF Buyer, InsertPayment, CreateAtShop, SavePaymentId, CreateFails,
         CreateCrashes
    <3> QED BY <1>0, <3>1 DEF RowMoves, RowsType
  <2> QED BY <2>1, <2>2 DEF MoneyMoves, Sold
<1>2. CASE UNCHANGED <<opened, balance, pays>>
  BY <1>2 DEF MoneyMoves, Sold
<1>3. ASSUME NEW w \in Workers, TaskSettles(w) PROVE MoneyMoves
  BY <1>0, <1>3, SettleMoney DEF TaskSettles, Busy
<1>4. CASE SweepSettles
  BY <1>0, <1>4, SettleMoney DEF SweepSettles, Busy
<1>5. ASSUME NEW stuck \in SUBSET Payments, SweepAlerts(stuck) PROVE MoneyMoves
  BY <1>0, <1>5 DEF SweepAlerts, MoneyMoves, Sold, RowsType, PayRow, ledgerVars
<1>6. ASSUME NEW q \in Payments, Shop(q) PROVE UNCHANGED <<opened, balance, pays>>
  BY <1>6 DEF Shop, ShopSucceeds, ShopCancels, ShopRefunds, Webhook, ledgerVars
<1>7. ASSUME NEW w \in Workers,
             \/ \E q \in Payments, event \in Events : TakeTask(w, q, event)
             \/ TaskFetches(w) \/ TaskRequeued(w) \/ TaskGivesUp(w)
      PROVE  UNCHANGED <<opened, balance, pays>>
  BY <1>7 DEF TakeTask, TaskFetches, TaskRequeued, TaskGivesUp, ledgerVars
<1>8. ASSUME \/ SweepScan \/ SweepFetches \/ SweepFetchFails
             \/ \E q \in Payments : SweepPicks(q)
      PROVE  UNCHANGED <<opened, balance, pays>>
  BY <1>8 DEF SweepScan, SweepFetches, SweepFetchFails, SweepPicks, ledgerVars
<1>9. CASE UNCHANGED vars
  BY <1>2, <1>9 DEF vars
<1> QED BY <1>1, <1>2, <1>3, <1>4, <1>5, <1>6, <1>7, <1>8, <1>9 DEF Next, Sweeping

(* ... which keeps the account balanced.                                   *)
LEMMA StaysBalanced ==
    ASSUME Balanced, MoneyMoves
    PROVE  Balanced'
<1>1. CASE UNCHANGED <<opened, balance>> /\ Sold' = Sold
  BY <1>1 DEF Balanced
<1>2. ASSUME NEW p \in Payments, p \notin Sold, Sold' = Sold \cup {p}, CreditAccount(Package)
      PROVE  Balanced'
  <2> DEFINE n == Cardinality(Sold)
  <2>1. /\ IsFiniteSet(Sold') /\ Cardinality(Sold') = n + 1 /\ n \in Nat
    BY <1>2, FS_AddElement, FS_CardinalityType DEF Balanced
  <2>2. opened' = TRUE /\ balance' = Package + (IF opened THEN balance ELSE WelcomeCredits)
    BY <1>2 DEF CreditAccount
  <2>3. /\ balance = WelcomeCredits * (IF opened THEN 1 ELSE 0) + Package * n
        /\ ~opened => n = 0
    BY FS_EmptySet DEF Balanced
  <2>4. Package \in Nat /\ WelcomeCredits \in Nat
    BY PaymentAssumption, LedgerAssumption
  <2> HIDE DEF n
  <2>5. Package * (n + 1) = Package * n + Package /\ Package * n \in Nat
    BY <2>1, <2>4
  <2>6. balance' = WelcomeCredits + Package * (n + 1)
    <3>1. CASE opened
      BY <2>2, <2>3, <2>4, <2>5, <3>1
    <3>2. CASE ~opened
      <4>1. Package * (n + 1) = Package
        BY <2>3, <2>4, <3>2
      <4> QED BY <2>2, <2>4, <3>2, <4>1
    <3> QED BY <3>1, <3>2
  <2>7. balance' = WelcomeCredits * (IF opened' THEN 1 ELSE 0) + Package * Cardinality(Sold')
    BY <2>1, <2>2, <2>4, <2>6
  <2> QED BY <2>1, <2>2, <2>7 DEF Balanced
<1> QED BY <1>1, <1>2 DEF MoneyMoves

(* The status says whether the credits were granted, and every granted     *)
(* package is in the balance, once.                                        *)
THEOREM StatusIsMoney ==
    ASSUME Pollers = {}
    PROVE  Spec => []StatusTellsCredit
<1>1. Init => Balanced
  <2> SUFFICES ASSUME Init PROVE Balanced
    OBVIOUS
  <2>1. Sold = {}
    BY DEF Init, Sold, NoRow
  <2>2. balance = 0 /\ ~opened
    BY DEF Init, LedgerInit
  <2>3. WelcomeCredits * 0 + Package * 0 = 0
    BY PaymentAssumption, LedgerAssumption
  <2> QED BY <2>1, <2>2, <2>3, FS_EmptySet DEF Balanced
<1>2. Typed /\ Settled /\ Balanced /\ [Next]_vars => Balanced'
  BY StepMoney, StaysBalanced
<1>3. Typed /\ Settled /\ Balanced => StatusTellsCredit
  BY DEF Settled, Balanced, Sold, StatusTellsCredit
<1> QED BY <1>1, <1>2, <1>3, TypedInvariant, SettledInvariant, PTL DEF Spec

=============================================================================
