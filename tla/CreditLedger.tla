---------------------------- MODULE CreditLedger ----------------------------
(***************************************************************************)
(* One teacher's credit account and its transaction journal, as            *)
(* services/billing_service.py operates on them.  Every operation of the   *)
(* service locks the account row (SELECT ... FOR UPDATE) and commits once, *)
(* so each is one atomic step here.  The journal is kept per ref_id: how   *)
(* many RESERVE rows and how many other rows ("finalizers") the ref has,   *)
(* and the totals of their deltas.                                         *)
(*                                                                         *)
(* A definition named like another with a suffix (CanReserve_NoHolds) is a *)
(* deliberately wrong variant of it: the properties are tried against the  *)
(* variants, and have to notice them.                                      *)
(*                                                                         *)
(* The operations are parameterised actions.  LedgerService lets every     *)
(* caller of the service use them in any order; GenerationBilling composes *)
(* them with the router, the worker and the cancel endpoint that call them *)
(* for one lesson.                                                         *)
(***************************************************************************)
EXTENDS Integers, Functions

CONSTANTS
    Refs,           \* ref_ids that holds are opened under
    WelcomeCredits, \* PLAN_CONFIGS["free"]["onetime_credits"]
    Allowance,      \* monthly_allowance of the account's plan
    CarryCap        \* int(monthly_allowance * CREDIT_CARRYOVER_RATIO)

ASSUME LedgerAssumption ==
    /\ WelcomeCredits \in Nat
    /\ Allowance \in Nat
    /\ CarryCap \in Nat

VARIABLES
    opened,     \* the credit_accounts row exists
    balance,    \* credit_accounts.balance
    reserved,   \* credit_accounts.reserved
    credited,   \* sum of the GRANT, PURCHASE and EXPIRE rows
    ledger      \* per ref_id: summary of its credit_transactions rows

ledgerVars == <<opened, balance, reserved, credited, ledger>>

NoRows == [reserves |-> 0, finals |-> 0, last |-> 0,
           held |-> 0, charged |-> 0, released |-> 0]

Row == [reserves : Nat, finals : Nat, last : Nat,
        held : Nat, charged : Nat, released : Nat]

NonNeg(n) == IF n < 0 THEN 0 ELSE n     \* max(0, n)
Least(m, n) == IF m < n THEN m ELSE n   \* min(m, n)

-----------------------------------------------------------------------------
(* Rows appended to the journal of one ref.                                *)

Reserving(row, amount) ==
    [row EXCEPT !.reserves = @ + 1, !.last = amount, !.held = @ + amount]

Releasing(row, amount) ==
    [row EXCEPT !.finals = @ + 1, !.released = @ + amount]

Charging(row, amount) ==
    [row EXCEPT !.finals = @ + 1, !.charged = @ + amount]

Finalizing_Negative(row, estimate, spent) ==
    Releasing(Charging(row, spent), spent - estimate)

Finalizing_WholeEstimate(row, estimate, spent) ==
    Releasing(Charging(row, estimate), 0)

(* sync_finalize_generation writes a charge row when something was spent   *)
(* and a RELEASE row when something is left or nothing was spent.          *)
Finalizing(row, estimate, spent) ==
    LET charge == IF spent > 0 THEN Charging(row, spent) ELSE row
    IN  IF estimate > spent \/ spent = 0
        THEN Releasing(charge, estimate - spent)
        ELSE charge

(* What the rows of a ref still hold: RESERVE minus finalizers.            *)
Outstanding(ref) ==
    ledger[ref].held - ledger[ref].charged - ledger[ref].released

HoldOpen_Ever(ref) == ledger[ref].reserves > 0

HoldOpen(ref) == ledger[ref].reserves > ledger[ref].finals

-----------------------------------------------------------------------------
(* Operations of billing_service.                                          *)

(* get_or_create_account: INSERT ... ON CONFLICT DO NOTHING, and a GRANT   *)
(* row for the one-time credits when the account is new.                   *)
GetOrCreateAccount ==
    /\ ~opened
    /\ opened' = TRUE
    /\ balance' = WelcomeCredits
    /\ credited' = WelcomeCredits
    /\ UNCHANGED <<reserved, ledger>>

CanReserve_NoHolds(amount) == opened /\ balance >= amount

CanReserve(amount) == opened /\ balance - reserved >= amount

(* reserve_credits / sync_reserve_credits, the branch that returns True.   *)
ReserveCredits(ref, amount) ==
    /\ CanReserve(amount)
    /\ reserved' = reserved + amount
    /\ ledger' = [ledger EXCEPT ![ref] = Reserving(@, amount)]
    /\ UNCHANGED <<opened, balance, credited>>

(* release_credits: unconditional, the caller guarantees the hold is open. *)
ReleaseCredits(ref, amount) ==
    /\ opened
    /\ reserved' = NonNeg(reserved - amount)
    /\ ledger' = [ledger EXCEPT ![ref] = Releasing(@, amount)]
    /\ UNCHANGED <<opened, balance, credited>>

(* release_reservation_if_held: counts the rows of the ref and releases    *)
(* the amount of its latest RESERVE only when one is not finalized.        *)
ReleaseReservationIfHeld(ref) ==
    /\ opened
    /\ HoldOpen(ref)
    /\ reserved' = NonNeg(reserved - ledger[ref].last)
    /\ ledger' = [ledger EXCEPT ![ref] = Releasing(@, ledger[ref].last)]
    /\ UNCHANGED <<opened, balance, credited>>

(* charge_credits: unconditional like release_credits.                     *)
ChargeCredits(ref, amount) ==
    /\ opened
    /\ balance' = NonNeg(balance - amount)
    /\ reserved' = NonNeg(reserved - amount)
    /\ ledger' = [ledger EXCEPT ![ref] = Charging(@, amount)]
    /\ UNCHANGED <<opened, credited>>

CanFinalize_Again(ref) == opened

CanFinalize(ref) == opened /\ ledger[ref].finals = 0

(* sync_finalize_generation, the branch that settles: no finalizer row     *)
(* exists for the ref.  `spent` is clamped to [0, estimate].               *)
FinalizeGeneration(ref, estimate, spent) ==
    LET paid == Least(NonNeg(spent), estimate)
    IN  /\ CanFinalize(ref)
        /\ reserved' = NonNeg(reserved - estimate)
        /\ balance' = NonNeg(balance - paid)
        /\ ledger' = [ledger EXCEPT ![ref] = Finalizing(@, estimate, paid)]
        /\ UNCHANGED <<opened, credited>>

(* The crediting half of apply_purchase and sync_apply_purchase, and       *)
(* sync_grant_credits.  The sync forms insert a missing account themselves,*)
(* without the GRANT row get_or_create_account writes.                     *)
CreditAccount(amount) ==
    /\ opened' = TRUE
    /\ balance' = amount + (IF opened THEN balance ELSE WelcomeCredits)
    /\ credited' = credited + amount
    /\ UNCHANGED <<reserved, ledger>>

(* The write of grant_credits.  The account object it updates was loaded   *)
(* by get_or_create_account and is still referenced when the FOR UPDATE    *)
(* select runs, so the session's identity map returns it without reloading *)
(* its columns: `balance += amount` adds to the balance `seen` before the  *)
(* lock was taken.                                                         *)
GrantOnto(seen, amount) ==
    /\ opened
    /\ balance' = seen + amount
    /\ credited' = credited + amount
    /\ UNCHANGED <<opened, reserved, ledger>>

(* process_monthly_renewal for this account: unused credits above the      *)
(* carry-over expire, the allowance is granted; holds are not looked at.   *)
RenewAllowance ==
    LET carry == Least(balance, CarryCap)
    IN  /\ opened
        /\ balance' = carry + Allowance
        /\ credited' = credited - (balance - carry) + Allowance
        /\ UNCHANGED <<opened, reserved, ledger>>

-----------------------------------------------------------------------------
LedgerInit ==
    /\ opened = FALSE
    /\ balance = 0
    /\ reserved = 0
    /\ credited = 0
    /\ ledger = [ref \in Refs |-> NoRows]

(* An account that was credited and has not been used yet.                 *)
AccountFunded ==
    /\ opened = TRUE
    /\ balance \in Nat
    /\ reserved = 0
    /\ credited = balance
    /\ ledger = [ref \in Refs |-> NoRows]

=============================================================================
