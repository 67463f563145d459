---------------------------- MODULE AuthCapture ----------------------------
(***************************************************************************)
(* What the credit account promises its callers, without its `reserved`    *)
(* counter, journal rows or clamps: credits are set aside for a ref only   *)
(* while enough of the wallet is free, and every hold is later taken down  *)
(* by at most what it set aside, paying no more than it takes down.  Only  *)
(* an intervention (monthly renewal, admin grant) sets the wallet without  *)
(* regard to the holds.                                                    *)
(***************************************************************************)
EXTENDS Integers, Functions

CONSTANTS Refs

VARIABLES
    wallet,     \* credits owned
    hold,       \* credits set aside, per ref
    interventions   \* renewals and admin grants so far

vars == <<wallet, hold, interventions>>

Free == wallet - SumFunction(hold)

Init == wallet \in Nat /\ hold = [ref \in Refs |-> 0] /\ interventions = 0

TopUp == wallet' >= wallet /\ UNCHANGED <<hold, interventions>>

Authorize(ref) ==
    /\ hold'[ref] >= hold[ref]
    /\ hold'[ref] - hold[ref] <= Free
    /\ hold' = [hold EXCEPT ![ref] = hold'[ref]]
    /\ UNCHANGED <<wallet, interventions>>

Capture(ref) ==
    /\ hold'[ref] \in 0..hold[ref]
    /\ hold' = [hold EXCEPT ![ref] = hold'[ref]]
    /\ wallet - wallet' \in 0..(hold[ref] - hold'[ref])
    /\ UNCHANGED interventions

Intervene ==
    /\ wallet' \in Nat
    /\ interventions' = interventions + 1
    /\ UNCHANGED hold

Next ==
    \/ TopUp
    \/ \E ref \in Refs : Authorize(ref) \/ Capture(ref)
    \/ Intervene

Spec == Init /\ [][Next]_vars

=============================================================================
