--------------------------- MODULE LedgerService ---------------------------
(***************************************************************************)
(* The credit account under all the callers of billing_service at once,    *)
(* each within its own contract:                                           *)
(*   RunRefs     one billing_ref per generation launch, reserved once,     *)
(*               finalized by the Celery task or released by an endpoint;  *)
(*   DirectRefs  refs that can be reserved again and again, every hold     *)
(*               charged or released once by the request that opened it    *)
(*               (slide regeneration reserves under str(slide_id)).        *)
(* Purchases, admin grants and the monthly renewal change the balance      *)
(* between those calls.                                                    *)
(***************************************************************************)
EXTENDS CreditLedger, FiniteSets

CONSTANTS
    RunRefs,        \* billing_refs: "<lesson id>:<random>", one per launch
    DirectRefs,     \* refs of request-scoped holds
    Estimates,      \* the amounts a hold can have
    Credits,        \* the amounts a purchase or an admin grant can have
    MaxCredited,    \* bound on `credited` (exploration only)
    MaxGrants,      \* bound on admin grants (exploration only)
    MaxRenewals,    \* bound on monthly renewals (exploration only)
    MaxReserves     \* bound on holds per direct ref (exploration only)

ASSUME ServiceAssumption ==
    /\ Refs = RunRefs \cup DirectRefs
    /\ RunRefs \cap DirectRefs = {}
    /\ IsFiniteSet(Refs)
    /\ Estimates \subseteq Nat
    /\ Credits \subseteq Nat

VARIABLES
    grantSeen,  \* balance an admin grant in progress has loaded, or NoGrant
    grants,     \* number of admin grants started
    renewals    \* number of monthly renewals so far

vars == <<opened, balance, reserved, credited, ledger,
          grantSeen, grants, renewals>>

calls == <<grantSeen, grants, renewals>>

NoGrant == -1

Init ==
    /\ LedgerInit
    /\ grantSeen = NoGrant
    /\ grants = 0
    /\ renewals = 0

OpenAccount == GetOrCreateAccount /\ UNCHANGED calls

(* A launch reserves its estimate under a fresh billing_ref.               *)
ReserveRun(ref, amount) ==
    /\ ledger[ref].reserves = 0
    /\ ReserveCredits(ref, amount)
    /\ UNCHANGED calls

(* The task settles its launch; Celery may deliver the task again.         *)
FinalizeRun(ref, spent) ==
    /\ ledger[ref].reserves > 0
    /\ FinalizeGeneration(ref, ledger[ref].last, spent)
    /\ UNCHANGED calls

(* The cancel endpoint, for a task that never ran.                         *)
CancelRun(ref) == ReleaseReservationIfHeld(ref) /\ UNCHANGED calls

(* The launching endpoint, when the broker refused the task: no task will  *)
(* ever finalize the hold.                                                 *)
ReleaseRun(ref) ==
    /\ HoldOpen(ref)
    /\ ReleaseCredits(ref, ledger[ref].last)
    /\ UNCHANGED calls

(* regenerate_slide_text, extend_retention: hold, then charge or release.  *)
ReserveDirect(ref, amount) ==
    /\ ledger[ref].reserves < MaxReserves
    /\ ledger[ref].reserves > 0 => amount = ledger[ref].last
    /\ ReserveCredits(ref, amount)
    /\ UNCHANGED calls

ChargeDirect(ref) ==
    /\ HoldOpen(ref)
    /\ ChargeCredits(ref, ledger[ref].last)
    /\ UNCHANGED calls

ReleaseDirect(ref) ==
    /\ HoldOpen(ref)
    /\ ReleaseCredits(ref, ledger[ref].last)
    /\ UNCHANGED calls

Purchase(amount) ==
    /\ credited + amount <= MaxCredited
    /\ CreditAccount(amount)
    /\ UNCHANGED calls

(* grant_credits, first half: the account is loaded (and kept).            *)
AdminGrantLoads ==
    /\ opened
    /\ grantSeen = NoGrant
    /\ grants < MaxGrants
    /\ grantSeen' = balance
    /\ grants' = grants + 1
    /\ UNCHANGED <<ledgerVars, renewals>>

AdminGrantWrites(amount) ==
    /\ grantSeen # NoGrant
    /\ GrantOnto(grantSeen, amount)
    /\ grantSeen' = NoGrant
    /\ UNCHANGED <<grants, renewals>>

MonthlyRenewal ==
    /\ renewals < MaxRenewals
    /\ RenewAllowance
    /\ renewals' = renewals + 1
    /\ UNCHANGED <<grantSeen, grants>>

Next ==
    \/ OpenAccount
    \/ \E ref \in RunRefs, amount \in Estimates : ReserveRun(ref, amount)
    \/ \E ref \in RunRefs : \E spent \in 0..ledger[ref].last :
            FinalizeRun(ref, spent)
    \/ \E ref \in RunRefs : CancelRun(ref)
    \/ \E ref \in RunRefs : ReleaseRun(ref)
    \/ \E ref \in DirectRefs, amount \in Estimates : ReserveDirect(ref, amount)
    \/ \E ref \in DirectRefs : ChargeDirect(ref)
    \/ \E ref \in DirectRefs : ReleaseDirect(ref)
    \/ \E amount \in Credits : Purchase(amount)
    \/ AdminGrantLoads
    \/ \E amount \in Credits : AdminGrantWrites(amount)
    \/ MonthlyRenewal

Spec == Init /\ [][Next]_vars

-----------------------------------------------------------------------------
(* Every variable ranges over what its column can hold.                    *)
TypeOK ==
    /\ opened \in BOOLEAN
    /\ balance \in Nat
    /\ reserved \in Nat
    /\ credited \in Int
    /\ ledger \in [Refs -> Row]
    /\ grantSeen \in Nat \cup {NoGrant}
    /\ grants \in Nat
    /\ renewals \in Nat

(* The `reserved` counter is exactly what the journal still holds: the     *)
(* max(0, ...) clamps in release, charge and finalize never lose a hold    *)
(* and never free one twice, whatever the order of calls and redeliveries. *)
HoldsConserved ==
    reserved = SumFunction([ref \in Refs |-> Outstanding(ref)])

(* The balance is what the GRANT, PURCHASE and charge rows say it is.      *)
AuditTrail ==
    balance = credited - SumFunction([ref \in Refs |-> ledger[ref].charged])

(* A launch never costs more than the estimate reserved for it.            *)
RunNeverOvercharged ==
    \A ref \in RunRefs :
        ledger[ref].charged + ledger[ref].released <= ledger[ref].held

(* A settled launch is never settled again: neither a redelivered task nor *)
(* the cancel endpoint adds a row to a billing_ref that has a finalizer.   *)
RunSettledOnce ==
    [][\A ref \in RunRefs :
            ledger[ref].finals > 0 => ledger'[ref] = ledger[ref]]_vars

(* Holds never exceed the balance, so a charge always finds its money; the *)
(* only steps that can break this are the monthly renewal, which ignores   *)
(* `reserved`, and an admin grant that writes back a balance it read       *)
(* before another request changed it.                                      *)
Solvent == reserved <= balance

OnlyRenewalAndGrantOverdraw ==
    [][Solvent /\ renewals' = renewals /\ (grantSeen # NoGrant => grantSeen' # NoGrant)
        => Solvent']_vars

(* "success: charge the full estimate": a charge row of a launch and the   *)
(* balance move together.                                                  *)
ChargeTakesBalance ==
    [][\A ref \in RunRefs :
            ledger'[ref].charged # ledger[ref].charged
                => balance - balance' = ledger'[ref].charged - ledger[ref].charged]_vars

(* Only an admin grant that writes back a balance it loaded before another *)
(* change, and a charge of a hold the balance no longer covers, separate   *)
(* the balance from what the journal explains.                             *)
Unexplained ==
    balance - credited + SumFunction([ref \in Refs |-> ledger[ref].charged])

OnlyStaleGrantOrOverdraftUnexplained ==
    [][\/ Unexplained' = Unexplained
       \/ ~Solvent
       \/ grantSeen # NoGrant /\ grantSeen' = NoGrant /\ grantSeen # balance]_vars

(* The service implements the auth/capture account of AuthCapture; the     *)
(* renewals and the writes of admin grants are its interventions.          *)
Promise == INSTANCE AuthCapture
    WITH wallet <- balance, hold <- [ref \in Refs |-> Outstanding(ref)],
         interventions <- renewals + grants
                            - (IF grantSeen = NoGrant THEN 0 ELSE 1)

ImplementsAuthCapture == Promise!Spec

=============================================================================
