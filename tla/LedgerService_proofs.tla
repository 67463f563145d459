------------------------ MODULE LedgerService_proofs ------------------------
(***************************************************************************)
(* What LedgerService guarantees for every number of launches and direct   *)
(* refs and for all amounts.                                               *)
(***************************************************************************)
EXTENDS LedgerService, CreditLedger_proofs

(* Every step keeps the columns of the right type.                         *)
LEMMA TypeStep ==
    ASSUME TypeOK, [Next]_vars
    PROVE  TypeOK'
<1> USE LedgerAssumption, ServiceAssumption
<1>0. LedgerType
  BY DEF TypeOK, LedgerType
<1> DEFINE Calls == /\ grantSeen \in Nat \cup {NoGrant}
                    /\ grants \in Nat
                    /\ renewals \in Nat
<1>c. Calls
  BY DEF TypeOK
<1>q. LedgerType' /\ Calls' => TypeOK'
  BY DEF TypeOK, LedgerType
<1>u. UNCHANGED calls => Calls'
  BY <1>c DEF calls
<1> HIDE DEF Calls
<1>1. CASE OpenAccount
  <2>1. LedgerType'
    BY <1>0, <1>1 DEF OpenAccount, GetOrCreateAccount, LedgerType
  <2> QED BY <2>1, <1>1, <1>u, <1>q DEF OpenAccount
<1>2. ASSUME NEW ref \in RunRefs, NEW amount \in Estimates, ReserveRun(ref, amount)
      PROVE  TypeOK'
  BY <1>2, <1>0, <1>u, <1>q, ReserveType DEF ReserveRun
<1>3. ASSUME NEW ref \in RunRefs, NEW spent \in 0..ledger[ref].last,
             FinalizeRun(ref, spent)
      PROVE  TypeOK'
  <2>1. ref \in Refs /\ ledger[ref].last \in Nat
    BY <1>0 DEF LedgerType, Row
  <2>2. spent \in Nat
    BY <2>1
  <2> QED BY <2>1, <2>2, <1>3, <1>0, <1>u, <1>q, FinalizeType DEF FinalizeRun
<1>4. ASSUME NEW ref \in RunRefs, CancelRun(ref)
      PROVE  TypeOK'
  BY <1>4, <1>0, <1>u, <1>q, ReleaseIfHeldType DEF CancelRun
<1>5. ASSUME NEW ref \in Refs, ReleaseRun(ref)
      PROVE  TypeOK'
  <2>1. ledger[ref].last \in Nat
    BY <1>0 DEF LedgerType, Row
  <2> QED BY <2>1, <1>5, <1>0, <1>u, <1>q, ReleaseType DEF ReleaseRun
<1>6. ASSUME NEW ref \in DirectRefs, NEW amount \in Estimates, ReserveDirect(ref, amount)
      PROVE  TypeOK'
  BY <1>6, <1>0, <1>u, <1>q, ReserveType DEF ReserveDirect
<1>7. ASSUME NEW ref \in DirectRefs, ChargeDirect(ref)
      PROVE  TypeOK'
  <2>1. ref \in Refs /\ ledger[ref].last \in Nat
    BY <1>0 DEF LedgerType, Row
  <2> QED BY <2>1, <1>7, <1>0, <1>u, <1>q, ChargeType DEF ChargeDirect
<1>8. ASSUME NEW ref \in DirectRefs, ReleaseDirect(ref)
      PROVE  TypeOK'
  <2>1. ref \in Refs /\ ledger[ref].last \in Nat
    BY <1>0 DEF LedgerType, Row
  <2> QED BY <2>1, <1>8, <1>0, <1>u, <1>q, ReleaseType DEF ReleaseDirect
<1>9. ASSUME NEW amount \in Credits, Purchase(amount)
      PROVE  TypeOK'
  <2>1. LedgerType'
    BY <1>0, <1>9 DEF Purchase, CreditAccount, LedgerType
  <2> QED BY <2>1, <1>9, <1>u, <1>q DEF Purchase
<1>10. CASE AdminGrantLoads
  BY <1>10 DEF AdminGrantLoads, TypeOK, ledgerVars
<1>11. ASSUME NEW amount \in Credits, AdminGrantWrites(amount)
       PROVE  TypeOK'
  BY <1>11 DEF AdminGrantWrites, GrantOnto, TypeOK, NoGrant
<1>12. CASE MonthlyRenewal
  <2>1. Least(balance, CarryCap) \in Nat
    BY <1>0, LeastNat DEF LedgerType
  <2> QED BY <2>1, <1>12 DEF MonthlyRenewal, RenewAllowance, TypeOK
<1>13. CASE UNCHANGED vars
  BY <1>13 DEF vars, TypeOK
<1> QED
  BY <1>1, <1>2, <1>3, <1>4, <1>5, <1>6, <1>7, <1>8, <1>9, <1>10, <1>11,
     <1>12, <1>13 DEF Next

-----------------------------------------------------------------------------
(* Every column stays in its range, whatever the callers do.               *)
THEOREM TypeCorrect == Spec => []TypeOK
<1> USE LedgerAssumption, ServiceAssumption
<1>1. Init => TypeOK
  <2>1. NoRows \in Row
    BY DEF NoRows, Row
  <2> SUFFICES ASSUME Init PROVE TypeOK
    OBVIOUS
  <2>2. opened \in BOOLEAN
    BY DEF Init, LedgerInit
  <2>3. ledger \in [Refs -> Row]
    BY <2>1 DEF Init, LedgerInit
  <2>4. /\ balance \in Nat /\ reserved \in Nat /\ credited \in Int
        /\ grantSeen \in Nat \cup {NoGrant} /\ grants \in Nat /\ renewals \in Nat
    BY DEF Init, LedgerInit
  <2> QED BY <2>2, <2>3, <2>4 DEF TypeOK
<1>2. TypeOK /\ [Next]_vars => TypeOK'
  BY TypeStep
<1> QED BY <1>1, <1>2, PTL DEF Spec

-----------------------------------------------------------------------------
(* Every launch's journal has the shape of RunRow.  RunNeverOvercharged    *)
(* alone is not inductive: it does not say that an unsettled row has no    *)
(* charge, nor that `last` is the amount held.                             *)
RunsAccounted == \A ref \in RunRefs : RunRow(ledger[ref])

(* What a step may do to the journal of a launch.                          *)
RunEvolves(run) ==
    /\ RunRow(ledger'[run])
    /\ ledger[run].finals > 0 => ledger'[run] = ledger[run]

(* Every step leaves every launch's journal accounted for, and a settled   *)
(* one as it is.                                                           *)
LEMMA RunStep ==
    ASSUME TypeOK, RunsAccounted, [Next]_vars, NEW run \in RunRefs
    PROVE  RunEvolves(run)
<1> USE ServiceAssumption
<1> DEFINE Kept == ledger'[run] = ledger[run]
<1>0. LedgerType /\ run \in Refs /\ ledger[run] \in Row /\ RunRow(ledger[run])
  BY DEF TypeOK, LedgerType, RunsAccounted
<1>k. Kept => RunEvolves(run)
  BY <1>0 DEF RunEvolves
<1>d. \A ref \in DirectRefs : ref # run
  OBVIOUS
<1>1. CASE OpenAccount
  BY <1>1, <1>k DEF OpenAccount, GetOrCreateAccount
<1>2. ASSUME NEW ref \in RunRefs, NEW amount \in Estimates, ReserveRun(ref, amount)
      PROVE  RunEvolves(run)
  <2>1. CASE ref # run
    BY <2>1, <1>0, <1>2, <1>k DEF ReserveRun, ReserveCredits, LedgerType
  <2>2. CASE ref = run
    <3>1. ledger[run].reserves = 0 /\ ledger'[run] = Reserving(ledger[run], amount)
      BY <2>2, <1>0, <1>2 DEF ReserveRun, ReserveCredits, LedgerType
    <3>2. ~(ledger[run].finals > 0)
      BY <3>1, <1>0, RowColumns DEF RunRow
    <3> QED BY <3>1, <3>2, <1>0, RunReserved DEF RunEvolves
  <2> QED BY <2>1, <2>2
<1>3. ASSUME NEW ref \in RunRefs, NEW spent \in 0..ledger[ref].last,
             FinalizeRun(ref, spent)
      PROVE  RunEvolves(run)
  <2>0. ref \in Refs /\ ledger[ref].last \in Nat /\ spent \in Nat
    BY <1>0 DEF LedgerType, Row
  <2>p. PICK paid \in Nat :
              /\ paid <= ledger[ref].last
              /\ ledger[ref].finals = 0
              /\ ledger' = [ledger EXCEPT ![ref] = Finalizing(@, ledger[ref].last, paid)]
    BY <2>0, <1>0, <1>3, FinalizeEffect DEF FinalizeRun
  <2>1. CASE ref # run
    BY <2>1, <2>p, <1>0, <1>k DEF LedgerType
  <2>2. CASE ref = run
    <3>1. ledger'[run] = Finalizing(ledger[run], ledger[run].last, paid)
      BY <2>2, <2>p, <1>0 DEF LedgerType
    <3>2. ledger[run].reserves > 0 /\ ledger[run].finals = 0
      BY <2>2, <2>p, <1>3 DEF FinalizeRun
    <3>3. RunRow(Finalizing(ledger[run], ledger[run].last, paid))
      BY <2>2, <2>p, <3>2, <1>0, RunFinalized
    <3> QED BY <3>1, <3>2, <3>3 DEF RunEvolves
  <2> QED BY <2>1, <2>2
<1>4. ASSUME NEW ref \in RunRefs, CancelRun(ref) \/ ReleaseRun(ref)
      PROVE  RunEvolves(run)
  <2>0. /\ ledger' = [ledger EXCEPT ![ref] = Releasing(@, ledger[ref].last)]
        /\ ledger[ref].reserves > ledger[ref].finals
    BY <1>4 DEF CancelRun, ReleaseReservationIfHeld, ReleaseRun, ReleaseCredits, HoldOpen
  <2>1. CASE ref # run
    BY <2>1, <2>0, <1>0, <1>k DEF LedgerType
  <2>2. CASE ref = run
    <3>1. ledger'[run] = Releasing(ledger[run], ledger[run].last)
      BY <2>2, <2>0, <1>0 DEF LedgerType
    <3>2. ledger[run].reserves > ledger[run].finals
      BY <2>2, <2>0
    <3>3. ~(ledger[run].finals > 0)
      BY <3>2, <1>0, RowColumns DEF RunRow
    <3> QED BY <3>1, <3>2, <3>3, <1>0, RunReleased DEF RunEvolves
  <2> QED BY <2>1, <2>2
<1>5. ASSUME NEW ref \in DirectRefs, NEW amount \in Estimates, ReserveDirect(ref, amount)
      PROVE  RunEvolves(run)
  BY <1>5, <1>d, <1>0, <1>k DEF ReserveDirect, ReserveCredits, LedgerType
<1>6. ASSUME NEW ref \in DirectRefs, ChargeDirect(ref)
      PROVE  RunEvolves(run)
  BY <1>6, <1>d, <1>0, <1>k DEF ChargeDirect, ChargeCredits, LedgerType
<1>7. ASSUME NEW ref \in DirectRefs, ReleaseDirect(ref)
      PROVE  RunEvolves(run)
  BY <1>7, <1>d, <1>0, <1>k DEF ReleaseDirect, ReleaseCredits, LedgerType
<1>8. ASSUME NEW amount \in Credits, Purchase(amount) \/ AdminGrantWrites(amount)
      PROVE  RunEvolves(run)
  BY <1>8, <1>k DEF Purchase, CreditAccount, AdminGrantWrites, GrantOnto
<1>9. CASE AdminGrantLoads
  BY <1>9, <1>k DEF AdminGrantLoads, ledgerVars
<1>10. CASE MonthlyRenewal
  BY <1>10, <1>k DEF MonthlyRenewal, RenewAllowance
<1>11. CASE UNCHANGED vars
  BY <1>11, <1>k DEF vars
<1>q. RunEvolves(run)
  <2>1. ASSUME NEW ref \in RunRefs, CancelRun(ref)
        PROVE  RunEvolves(run)
    BY <2>1, <1>4
  <2>2. ASSUME NEW ref \in RunRefs, ReleaseRun(ref)
        PROVE  RunEvolves(run)
    BY <2>2, <1>4
  <2>3. ASSUME NEW amount \in Credits, Purchase(amount)
        PROVE  RunEvolves(run)
    BY <2>3, <1>8
  <2>4. ASSUME NEW amount \in Credits, AdminGrantWrites(amount)
        PROVE  RunEvolves(run)
    BY <2>4, <1>8
  <2> QED
    BY <1>1, <1>2, <1>3, <2>1, <2>2, <1>5, <1>6, <1>7, <2>3, <2>4, <1>9,
       <1>10, <1>11, [Next]_vars DEF Next
<1> QED BY <1>q

(* Every launch's journal is accounted for in every reachable state.       *)
LEMMA RunsAccountedInvariant == Spec => []RunsAccounted
<1>1. Init => RunsAccounted
  BY ServiceAssumption DEF Init, LedgerInit, RunsAccounted, RunRow, NoRows
<1>2. TypeOK /\ RunsAccounted /\ [Next]_vars => RunsAccounted'
  <2> SUFFICES ASSUME TypeOK, RunsAccounted, [Next]_vars
               PROVE  RunsAccounted'
    OBVIOUS
  <2>1. \A run \in RunRefs : RunRow(ledger'[run])
    BY RunStep DEF RunEvolves
  <2> QED BY <2>1 DEF RunsAccounted, RunRow
<1> QED BY <1>1, <1>2, TypeCorrect, PTL DEF Spec

(* A launch never costs more than the estimate reserved for it.            *)
THEOREM NeverOvercharged == Spec => []RunNeverOvercharged
<1>1. TypeOK /\ RunsAccounted => RunNeverOvercharged
  <2> SUFFICES ASSUME TypeOK, RunsAccounted, NEW ref \in RunRefs
               PROVE  ledger[ref].charged + ledger[ref].released <= ledger[ref].held
    BY DEF RunNeverOvercharged
  <2>1. ledger[ref] \in Row /\ RunRow(ledger[ref])
    BY ServiceAssumption DEF TypeOK, RunsAccounted
  <2> QED BY <2>1, RowColumns DEF RunRow
<1> QED BY <1>1, TypeCorrect, RunsAccountedInvariant, PTL

(* A settled launch is never settled again.                                *)
THEOREM SettledOnce == Spec => RunSettledOnce
<1>1. TypeOK /\ RunsAccounted /\ [Next]_vars
        => [\A ref \in RunRefs :
                ledger[ref].finals > 0 => ledger'[ref] = ledger[ref]]_vars
  <2> SUFFICES ASSUME TypeOK, RunsAccounted, [Next]_vars
               PROVE  \A ref \in RunRefs :
                          ledger[ref].finals > 0 => ledger'[ref] = ledger[ref]
    OBVIOUS
  <2> QED BY RunStep DEF RunEvolves
<1> QED BY <1>1, TypeCorrect, RunsAccountedInvariant, PTL DEF Spec, RunSettledOnce

-----------------------------------------------------------------------------
(* An account that does not exist yet has, holds and was given nothing.    *)
NothingHeldBefore == ~opened => reserved = 0 /\ balance = 0 /\ credited = 0

(* It stays so until the account is opened.                                *)
LEMMA NothingHeldBeforeInvariant == Spec => []NothingHeldBefore
<1>1. Init => NothingHeldBefore
  BY DEF Init, LedgerInit, NothingHeldBefore
<1>2. NothingHeldBefore /\ [Next]_vars => NothingHeldBefore'
  <2> SUFFICES ASSUME NothingHeldBefore, [Next]_vars
               PROVE  NothingHeldBefore'
    OBVIOUS
  <2>1. opened' = TRUE \/ UNCHANGED <<opened, reserved, balance, credited>>
    BY DEF Next, OpenAccount, GetOrCreateAccount, ReserveRun, ReserveDirect,
           ReserveCredits, CanReserve, FinalizeRun, FinalizeGeneration,
           CanFinalize, CancelRun, ReleaseReservationIfHeld, ReleaseRun,
           ReleaseDirect, ReleaseCredits, ChargeDirect, ChargeCredits, Purchase,
           CreditAccount, AdminGrantLoads, ledgerVars, AdminGrantWrites,
           GrantOnto, MonthlyRenewal, RenewAllowance, vars
  <2> QED BY <2>1 DEF NothingHeldBefore
<1> QED BY <1>1, <1>2, PTL DEF Spec

(* Each operation on a hold keeps the holds covered by the balance.        *)
LEMMA ReserveSolvent ==
    ASSUME LedgerType, Solvent, NEW ref \in Refs, NEW amount \in Nat,
           ReserveCredits(ref, amount)
    PROVE  Solvent'
  BY DEF LedgerType, Solvent, ReserveCredits, CanReserve

(* Returning a hold keeps the holds covered.                               *)
LEMMA ReleaseSolvent ==
    ASSUME LedgerType, Solvent, NEW amount \in Nat,
           reserved' = NonNeg(reserved - amount), balance' = balance
    PROVE  Solvent'
  BY DEF LedgerType, Solvent, NonNeg

(* Charging at most the amount of a hold keeps the holds covered.          *)
LEMMA ChargeSolvent ==
    ASSUME LedgerType, Solvent, NEW amount \in Nat, NEW paid \in Nat,
           paid <= amount,
           reserved' = NonNeg(reserved - amount),
           balance' = NonNeg(balance - paid)
    PROVE  Solvent'
  BY DEF LedgerType, Solvent, NonNeg

(* Holds outgrow the balance only through a monthly renewal or the write   *)
(* of an admin grant.                                                      *)
THEOREM OverdrawnOnlyByRenewalOrGrant == Spec => OnlyRenewalAndGrantOverdraw
<1> USE LedgerAssumption, ServiceAssumption
<1> DEFINE Calm == /\ renewals' = renewals
                   /\ grantSeen # NoGrant => grantSeen' # NoGrant
<1>1. TypeOK /\ NothingHeldBefore /\ [Next]_vars /\ Solvent /\ Calm => Solvent'
  <2> SUFFICES ASSUME TypeOK, NothingHeldBefore, [Next]_vars, Solvent, Calm
               PROVE  Solvent'
    OBVIOUS
  <2>0. LedgerType /\ renewals \in Nat
    BY DEF TypeOK, LedgerType
  <2>l. \A ref \in Refs : ledger[ref].last \in Nat
    BY <2>0 DEF LedgerType, Row
  <2>1. CASE OpenAccount
    BY <2>1 DEF OpenAccount, GetOrCreateAccount, NothingHeldBefore, Solvent
  <2>2. ASSUME NEW ref \in RunRefs, NEW amount \in Estimates, ReserveRun(ref, amount)
        PROVE  Solvent'
    BY <2>2, <2>0, ReserveSolvent DEF ReserveRun
  <2>3. ASSUME NEW ref \in RunRefs, NEW spent \in 0..ledger[ref].last,
               FinalizeRun(ref, spent)
        PROVE  Solvent'
    <3>1. ref \in Refs /\ ledger[ref].last \in Nat /\ spent \in Nat
      BY <2>l
    <3>2. PICK paid \in Nat :
              /\ paid <= ledger[ref].last
              /\ reserved' = NonNeg(reserved - ledger[ref].last)
              /\ balance' = NonNeg(balance - paid)
      BY <3>1, <2>0, <2>3, FinalizeEffect DEF FinalizeRun
    <3> QED BY <3>1, <3>2, <2>0, ChargeSolvent
  <2>4. ASSUME NEW ref \in RunRefs, CancelRun(ref)
        PROVE  Solvent'
    BY <2>4, <2>0, <2>l, ReleaseSolvent DEF CancelRun, ReleaseReservationIfHeld
  <2>5. ASSUME NEW ref \in Refs, ReleaseRun(ref) \/ ReleaseDirect(ref)
        PROVE  Solvent'
    BY <2>5, <2>0, <2>l, ReleaseSolvent DEF ReleaseRun, ReleaseDirect, ReleaseCredits
  <2>6. ASSUME NEW ref \in DirectRefs, NEW amount \in Estimates, ReserveDirect(ref, amount)
        PROVE  Solvent'
    BY <2>6, <2>0, ReserveSolvent DEF ReserveDirect
  <2>7. ASSUME NEW ref \in DirectRefs, ChargeDirect(ref)
        PROVE  Solvent'
    <3>1. LedgerType /\ ledger[ref].last \in Nat
      BY <2>0, <2>l
    <3> QED BY <3>1, <2>7, ChargeSolvent DEF ChargeDirect, ChargeCredits
  <2>8. ASSUME NEW amount \in Credits, Purchase(amount)
        PROVE  Solvent'
    BY <2>8, <2>0 DEF Purchase, CreditAccount, NothingHeldBefore, Solvent, LedgerType
  <2>9. CASE AdminGrantLoads
    BY <2>9 DEF AdminGrantLoads, ledgerVars, Solvent
  <2>10. ASSUME NEW amount \in Credits, AdminGrantWrites(amount)
         PROVE  Solvent'
    BY <2>10 DEF AdminGrantWrites
  <2>11. CASE MonthlyRenewal
    BY <2>11, <2>0 DEF MonthlyRenewal
  <2>12. CASE UNCHANGED vars
    BY <2>12 DEF vars, Solvent
  <2> QED
    BY <2>1, <2>2, <2>3, <2>4, <2>5, <2>6, <2>7, <2>8, <2>9, <2>10, <2>11,
       <2>12 DEF Next
<1>2. TypeOK /\ NothingHeldBefore /\ [Next]_vars
        => [Solvent /\ renewals' = renewals
              /\ (grantSeen # NoGrant => grantSeen' # NoGrant) => Solvent']_vars
  BY <1>1
<1> QED BY <1>2, TypeCorrect, NothingHeldBeforeInvariant, PTL
        DEF Spec, OnlyRenewalAndGrantOverdraw

-----------------------------------------------------------------------------
(* Every direct ref's journal is accounted for too.                        *)
DirectsAccounted == \A ref \in DirectRefs : DirectRow(ledger[ref])

Accounted == RunsAccounted /\ DirectsAccounted

(* The account opens a hold ...                                            *)
Opens(ref, row, amount) ==
    /\ ledger' = [ledger EXCEPT ![ref] = row]
    /\ HeldBy(row) = HeldBy(ledger[ref]) + amount
    /\ row.charged = ledger[ref].charged
    /\ ref \in DirectRefs => DirectRow(row)
    /\ CanReserve(amount)
    /\ reserved' = reserved + amount
    /\ UNCHANGED <<balance, credited, calls>>

(* ... and takes one down, charging a part of it.                          *)
TakesDown(ref, row, amount, paid) ==
    /\ ledger' = [ledger EXCEPT ![ref] = row]
    /\ HeldBy(row) \in Nat /\ HeldBy(row) = HeldBy(ledger[ref]) - amount
    /\ row.charged = ledger[ref].charged + paid
    /\ ref \in DirectRefs => DirectRow(row)
    /\ reserved' = NonNeg(reserved - amount)
    /\ balance' = NonNeg(balance - paid)
    /\ UNCHANGED <<credited, calls>>

(* Or it does not touch the holds at all.                                  *)
HoldsApart ==
    \/ OpenAccount
    \/ \E amount \in Credits : Purchase(amount) \/ AdminGrantWrites(amount)
    \/ AdminGrantLoads \/ MonthlyRenewal \/ UNCHANGED vars

(* Every step is one of the three.                                         *)
LEMMA StepKinds ==
    ASSUME TypeOK, Accounted, [Next]_vars
    PROVE  \/ HoldsApart
           \/ \E ref \in Refs, row \in Row, amount \in Nat : Opens(ref, row, amount)
           \/ \E ref \in Refs, row \in Row, amount \in Nat : \E paid \in 0..amount :
                 TakesDown(ref, row, amount, paid)
<1> USE ServiceAssumption
<1> DEFINE Opening == \E ref \in Refs, row \in Row, amount \in Nat : Opens(ref, row, amount)
           Taking == \E ref \in Refs, row \in Row, amount \in Nat : \E paid \in 0..amount :
                        TakesDown(ref, row, amount, paid)
<1>0. LedgerType /\ balance \in Nat
  BY DEF TypeOK, LedgerType
<1>1. \A ref \in Refs : ledger[ref] \in Row /\ ledger[ref].last \in Nat
  BY <1>0, RowColumns DEF LedgerType
<1>2. /\ \A ref \in RunRefs : ref \in Refs /\ ref \notin DirectRefs /\ RunRow(ledger[ref])
      /\ \A ref \in DirectRefs : ref \in Refs /\ DirectRow(ledger[ref])
  BY DEF Accounted, RunsAccounted, DirectsAccounted
<1>3. ASSUME NEW ref \in RunRefs, NEW amount \in Estimates, ReserveRun(ref, amount)
      PROVE  Opening
  <2> DEFINE row == Reserving(ledger[ref], amount)
  <2>1. amount \in Nat
    OBVIOUS
  <2>2. /\ row \in Row /\ row.held = ledger[ref].held + amount
        /\ row.charged = ledger[ref].charged /\ row.released = ledger[ref].released
    BY <1>1, <1>2, <2>1, ReservingRow
  <2>3. /\ ledger' = [ledger EXCEPT ![ref] = row] /\ CanReserve(amount)
        /\ reserved' = reserved + amount /\ UNCHANGED <<balance, credited, calls>>
    BY <1>3 DEF ReserveRun, ReserveCredits
  <2> HIDE DEF row
  <2>4. HeldBy(row) = HeldBy(ledger[ref]) + amount
    BY <1>1, <1>2, <2>1, <2>2, RowColumns DEF HeldBy
  <2>5. Opens(ref, row, amount)
    BY <1>2, <2>2, <2>3, <2>4 DEF Opens
  <2> QED BY <1>2, <2>1, <2>2, <2>5
<1>4. ASSUME NEW ref \in DirectRefs, NEW amount \in Estimates, ReserveDirect(ref, amount)
      PROVE  Opening
  <2> DEFINE row == Reserving(ledger[ref], amount)
  <2>1. amount \in Nat /\ (ledger[ref].reserves > 0 => amount = ledger[ref].last)
    BY <1>4 DEF ReserveDirect
  <2>2. row \in Row /\ row.charged = ledger[ref].charged
    BY <1>1, <1>2, <2>1, ReservingRow
  <2>3. /\ ledger' = [ledger EXCEPT ![ref] = row] /\ CanReserve(amount)
        /\ reserved' = reserved + amount /\ UNCHANGED <<balance, credited, calls>>
    BY <1>4 DEF ReserveDirect, ReserveCredits
  <2>4. DirectRow(row) /\ HeldBy(row) = HeldBy(ledger[ref]) + amount
    BY <1>1, <1>2, <2>1, DirectReserved
  <2> HIDE DEF row
  <2>5. Opens(ref, row, amount)
    BY <2>2, <2>3, <2>4 DEF Opens
  <2> QED BY <1>2, <2>1, <2>2, <2>5
<1>5. ASSUME NEW ref \in RunRefs, NEW spent \in 0..ledger[ref].last,
             FinalizeRun(ref, spent)
      PROVE  Taking
  <2> DEFINE amount == ledger[ref].last
  <2>0. amount \in Nat /\ spent \in Nat /\ ledger[ref].reserves > 0
    BY <1>1, <1>2, <1>5 DEF FinalizeRun
  <2>1. FinalizeGeneration(ref, amount, spent) /\ UNCHANGED <<credited, calls>>
    BY <1>5 DEF FinalizeRun, FinalizeGeneration
  <2>p. PICK paid \in Nat :
              /\ paid <= amount
              /\ ledger[ref].finals = 0
              /\ reserved' = NonNeg(reserved - amount)
              /\ balance' = NonNeg(balance - paid)
              /\ ledger' = [ledger EXCEPT ![ref] = Finalizing(@, amount, paid)]
    BY <1>0, <1>2, <2>0, <2>1, FinalizeEffect
  <2> DEFINE row == Finalizing(ledger[ref], amount, paid)
  <2>2. /\ row \in Row /\ row.held = ledger[ref].held
        /\ row.charged = ledger[ref].charged + paid
        /\ row.released = ledger[ref].released + (amount - paid)
    <3> DEFINE old == ledger[ref]
    <3>1. old \in Row /\ amount \in Nat /\ paid <= amount
      BY <1>1, <1>2, <2>p
    <3> HIDE DEF old, amount
    <3>2. LET final == Finalizing(old, amount, paid)
          IN  /\ final \in Row /\ final.held = old.held
              /\ final.charged = old.charged + paid
              /\ final.released = old.released + (amount - paid)
      BY <3>1, FinalizingRow
    <3> QED BY <3>2 DEF old
  <2>3. ledger' = [ledger EXCEPT ![ref] = row]
    BY <2>p
  <2> HIDE DEF row
  <2>4. HeldBy(ledger[ref]) = amount /\ HeldBy(row) = 0
    BY <1>1, <1>2, <2>0, <2>p, <2>2, RowColumns DEF HeldBy, RunRow
  <2> HIDE DEF amount
  <2>5. TakesDown(ref, row, amount, paid)
    <3>1. HeldBy(row) \in Nat /\ HeldBy(row) = HeldBy(ledger[ref]) - amount
      BY <2>0, <2>4
    <3> QED BY <1>2, <2>1, <2>2, <2>3, <2>p, <3>1 DEF TakesDown
  <2> QED BY <1>2, <2>0, <2>2, <2>5, <2>p
<1>6. ASSUME NEW ref \in RunRefs, CancelRun(ref) \/ ReleaseRun(ref)
      PROVE  Taking
  <2> DEFINE amount == ledger[ref].last
             row == Releasing(ledger[ref], amount)
  <2>0. amount \in Nat /\ ledger[ref].reserves > ledger[ref].finals
    BY <1>1, <1>2, <1>6
       DEF CancelRun, ReleaseRun, ReleaseReservationIfHeld, HoldOpen
  <2>1. /\ ledger' = [ledger EXCEPT ![ref] = row]
        /\ reserved' = NonNeg(reserved - amount)
        /\ UNCHANGED <<balance, credited, calls>>
    BY <1>6 DEF CancelRun, ReleaseRun, ReleaseReservationIfHeld, ReleaseCredits
  <2>2. /\ row \in Row /\ row.held = ledger[ref].held
        /\ row.charged = ledger[ref].charged
        /\ row.released = ledger[ref].released + amount
    BY <1>1, <1>2, <2>0, ReleasingRow
  <2> HIDE DEF row
  <2>3. HeldBy(ledger[ref]) = amount /\ HeldBy(row) = 0
    BY <1>1, <1>2, <2>0, <2>2, RowColumns DEF HeldBy, RunRow
  <2>4. balance' = NonNeg(balance - 0) /\ row.charged = ledger[ref].charged + 0
    BY <1>0, <1>1, <1>2, <2>1, <2>2, RowColumns DEF NonNeg
  <2> HIDE DEF amount
  <2>5. TakesDown(ref, row, amount, 0)
    BY <1>2, <2>0, <2>1, <2>2, <2>3, <2>4 DEF TakesDown
  <2> QED BY <1>2, <2>0, <2>2, <2>5
<1>7. ASSUME NEW ref \in DirectRefs, ReleaseDirect(ref)
      PROVE  Taking
  <2> DEFINE amount == ledger[ref].last
             row == Releasing(ledger[ref], amount)
  <2>0. amount \in Nat /\ ledger[ref].reserves > ledger[ref].finals
    BY <1>1, <1>2, <1>7 DEF ReleaseDirect, HoldOpen
  <2>1. /\ ledger' = [ledger EXCEPT ![ref] = row]
        /\ reserved' = NonNeg(reserved - amount)
        /\ UNCHANGED <<balance, credited, calls>>
    BY <1>7 DEF ReleaseDirect, ReleaseCredits
  <2>2. row \in Row /\ row.charged = ledger[ref].charged
    BY <1>1, <1>2, <2>0, ReleasingRow
  <2>3. DirectRow(row) /\ HeldBy(row) = HeldBy(ledger[ref]) - amount
    BY <1>1, <1>2, <2>0, DirectSettled
  <2> HIDE DEF row
  <2>4. balance' = NonNeg(balance - 0) /\ row.charged = ledger[ref].charged + 0
    BY <1>0, <1>1, <1>2, <2>1, <2>2, RowColumns DEF NonNeg
  <2>5. HeldBy(row) \in Nat
    BY <2>2, <2>3, OpenRowHolds
  <2> HIDE DEF amount
  <2>6. TakesDown(ref, row, amount, 0)
    BY <1>2, <2>0, <2>1, <2>3, <2>4, <2>5 DEF TakesDown
  <2> QED BY <1>2, <2>0, <2>2, <2>6
<1>8. ASSUME NEW ref \in DirectRefs, ChargeDirect(ref)
      PROVE  Taking
  <2> DEFINE amount == ledger[ref].last
             row == Charging(ledger[ref], amount)
  <2>0. amount \in Nat /\ ledger[ref].reserves > ledger[ref].finals
    BY <1>1, <1>2, <1>8 DEF ChargeDirect, HoldOpen
  <2>1. /\ ledger' = [ledger EXCEPT ![ref] = row]
        /\ reserved' = NonNeg(reserved - amount)
        /\ balance' = NonNeg(balance - amount)
        /\ UNCHANGED <<credited, calls>>
    BY <1>8 DEF ChargeDirect, ChargeCredits
  <2>2. row \in Row /\ row.charged = ledger[ref].charged + amount
    BY <1>1, <1>2, <2>0, ChargingRow
  <2>3. DirectRow(row) /\ HeldBy(row) = HeldBy(ledger[ref]) - amount
    BY <1>1, <1>2, <2>0, DirectSettled
  <2> HIDE DEF row
  <2>4. HeldBy(row) \in Nat
    BY <2>2, <2>3, OpenRowHolds
  <2> HIDE DEF amount
  <2>5. TakesDown(ref, row, amount, amount)
    BY <1>2, <2>0, <2>1, <2>2, <2>3, <2>4 DEF TakesDown
  <2> QED BY <1>2, <2>0, <2>2, <2>5
<1> QED BY <1>3, <1>4, <1>5, <1>6, <1>7, <1>8 DEF Next, HoldsApart

(* The sums of the holds and of the charges, and what each hold is worth.  *)
HeldSum == SumFunction([ref \in Refs |-> Outstanding(ref)])
ChargedSum == SumFunction([ref \in Refs |-> ledger[ref].charged])

(* No hold is larger than all of them together, and none is negative.      *)
LEMMA HeldInSum ==
    ASSUME TypeOK, Accounted
    PROVE  /\ HeldSum \in Nat /\ ChargedSum \in Int
           /\ \A ref \in Refs : HeldBy(ledger[ref]) \in 0..HeldSum
<1> DEFINE f == [ref \in Refs |-> Outstanding(ref)]
           g == [ref \in Refs |-> ledger[ref].charged]
<1>1. \A ref \in Refs : ledger[ref] \in Row /\ (RunRow(ledger[ref]) \/ DirectRow(ledger[ref]))
  BY ServiceAssumption DEF TypeOK, Accounted, RunsAccounted, DirectsAccounted
<1>2. \A ref \in Refs : HeldBy(ledger[ref]) \in Nat
  BY <1>1, OpenRowHolds
<1>3. f \in [Refs -> Int] /\ \A ref \in Refs : f[ref] = HeldBy(ledger[ref]) /\ f[ref] >= 0
  BY <1>2 DEF Outstanding, HeldBy
<1>4. g \in [Refs -> Int]
  BY <1>1, RowColumns
<1> HIDE DEF f, g
<1>5. SumFunction(f) \in Int /\ SumFunction(f) >= 0
      /\ \A ref \in Refs : f[ref] <= SumFunction(f)
  BY <1>3, SumNumber, ServiceAssumption
<1>6. SumFunction(g) \in Int
  BY <1>4, SumNumber, ServiceAssumption
<1> QED BY <1>2, <1>3, <1>5, <1>6 DEF HeldSum, ChargedSum, f, g

(* A hold that is opened or taken down moves the sums by its amount.       *)
LEMMA SumsFollow ==
    ASSUME TypeOK, Accounted, NEW ref \in Refs, NEW row \in Row,
           ledger' = [ledger EXCEPT ![ref] = row]
    PROVE  /\ HeldSum' = HeldSum + (HeldBy(row) - HeldBy(ledger[ref]))
           /\ ChargedSum' = ChargedSum + (row.charged - ledger[ref].charged)
<1>1. LedgerType /\ IsFiniteSet(Refs) /\ ledger[ref] \in Row
  BY ServiceAssumption DEF TypeOK, LedgerType
<1>2. /\ HeldSum' = HeldSum - HeldBy(ledger[ref]) + HeldBy(row)
      /\ ChargedSum' = ChargedSum - ledger[ref].charged + row.charged
  BY <1>1, SumsMove DEF HeldSum, ChargedSum
<1>3. /\ HeldSum \in Int /\ ChargedSum \in Int
      /\ HeldBy(row) \in Int /\ HeldBy(ledger[ref]) \in Int
      /\ row.charged \in Int /\ ledger[ref].charged \in Int
  BY <1>1, HeldInSum, RowColumns DEF HeldBy
<1> QED BY <1>2, <1>3

(* Steps apart from the holds leave the sums and the counter alone.        *)
LEMMA ApartKeeps ==
    ASSUME HoldsApart
    PROVE  ledger' = ledger /\ reserved' = reserved
           /\ HeldSum' = HeldSum /\ ChargedSum' = ChargedSum
<1>1. ledger' = ledger /\ reserved' = reserved
  BY DEF HoldsApart, OpenAccount, GetOrCreateAccount, Purchase, CreditAccount,
         AdminGrantWrites, GrantOnto, AdminGrantLoads, MonthlyRenewal, RenewAllowance,
         vars, ledgerVars
<1> QED BY <1>1 DEF HeldSum, ChargedSum, Outstanding

(* What is held, what the counter says and the journals move together.     *)
LEMMA ConservedStep ==
    ASSUME TypeOK, Accounted, HoldsConserved, [Next]_vars
    PROVE  DirectsAccounted' /\ HoldsConserved'
<1>0. reserved = HeldSum /\ ledger \in [Refs -> Row] /\ DirectsAccounted /\ HeldSum \in Nat
  BY HeldInSum DEF HoldsConserved, HeldSum, TypeOK, Accounted
<1>q. reserved' = HeldSum' => HoldsConserved'
  BY DEF HoldsConserved, HeldSum
<1>1. CASE HoldsApart
  BY <1>0, <1>1, <1>q, ApartKeeps DEF DirectsAccounted
<1>2. ASSUME NEW ref \in Refs, NEW row \in Row, NEW amount \in Nat, Opens(ref, row, amount)
      PROVE  DirectsAccounted' /\ HoldsConserved'
  <2>1. ledger' = [ledger EXCEPT ![ref] = row]
    BY <1>2 DEF Opens
  <2>2. DirectsAccounted'
    BY <1>0, <1>2, <2>1 DEF DirectsAccounted, Opens
  <2>3. HeldSum' = HeldSum + amount
    <3>1. HeldSum' = HeldSum + (HeldBy(row) - HeldBy(ledger[ref]))
      BY <2>1, SumsFollow
    <3>2. HeldBy(row) = HeldBy(ledger[ref]) + amount /\ HeldBy(ledger[ref]) \in 0..HeldSum
      BY <1>2, HeldInSum DEF Opens
    <3> QED BY <1>0, <3>1, <3>2
  <2> QED BY <1>0, <1>2, <1>q, <2>2, <2>3 DEF Opens
<1>3. ASSUME NEW ref \in Refs, NEW row \in Row, NEW amount \in Nat, NEW paid \in 0..amount,
             TakesDown(ref, row, amount, paid)
      PROVE  DirectsAccounted' /\ HoldsConserved'
  <2>1. ledger' = [ledger EXCEPT ![ref] = row]
    BY <1>3 DEF TakesDown
  <2>2. DirectsAccounted'
    BY <1>0, <1>3, <2>1 DEF DirectsAccounted, TakesDown
  <2>3. HeldSum' = HeldSum - amount /\ amount <= HeldSum
    <3>1. HeldSum' = HeldSum + (HeldBy(row) - HeldBy(ledger[ref]))
      BY <2>1, SumsFollow
    <3>2. /\ HeldBy(row) \in Nat /\ HeldBy(row) = HeldBy(ledger[ref]) - amount
          /\ HeldBy(ledger[ref]) \in 0..HeldSum
      BY <1>3, HeldInSum DEF TakesDown
    <3> QED BY <1>0, <3>1, <3>2
  <2>4. reserved' = NonNeg(reserved - amount)
    BY <1>3 DEF TakesDown
  <2>5. reserved' = HeldSum - amount
    BY <1>0, <2>3, <2>4 DEF NonNeg
  <2> QED BY <1>q, <2>2, <2>3, <2>5
<1> QED BY <1>1, <1>2, <1>3, StepKinds

(* The `reserved` counter is exactly what the journal still holds.         *)
LEMMA ConservedInvariant == Spec => [](Accounted /\ HoldsConserved)
<1>1. Init => DirectsAccounted /\ HoldsConserved
  <2> SUFFICES ASSUME Init PROVE DirectsAccounted /\ HoldsConserved
    OBVIOUS
  <2>1. \A ref \in Refs : ledger[ref] = NoRows
    BY DEF Init, LedgerInit
  <2>2. DirectsAccounted
    <3>1. ASSUME NEW ref \in DirectRefs PROVE DirectRow(ledger[ref])
      <4>1. ledger[ref] = NoRows
        BY <2>1, ServiceAssumption
      <4> QED BY <4>1 DEF DirectRow, HeldBy, NoRows
    <3> QED BY <3>1 DEF DirectsAccounted
  <2> DEFINE f == [ref \in Refs |-> Outstanding(ref)]
  <2>3. f \in [Refs -> Int] /\ \A ref \in Refs : f[ref] = 0
    BY <2>1 DEF Outstanding, NoRows
  <2> HIDE DEF f
  <2>4. SumFunction(f) = 0
    BY <2>3, SumNumber, ServiceAssumption
  <2> QED BY <2>2, <2>4 DEF Init, LedgerInit, HoldsConserved, f
<1>2. TypeOK /\ RunsAccounted /\ DirectsAccounted /\ HoldsConserved /\ [Next]_vars
        => DirectsAccounted' /\ HoldsConserved'
  BY ConservedStep DEF Accounted
<1>3. RunsAccounted /\ DirectsAccounted /\ HoldsConserved => Accounted /\ HoldsConserved
  BY DEF Accounted
<1> QED BY <1>1, <1>2, <1>3, TypeCorrect, RunsAccountedInvariant, PTL DEF Spec

(* max(0, ...) in release, charge and finalize never loses a hold and      *)
(* never frees one twice, whatever the order of calls and redeliveries.    *)
THEOREM CounterMatchesJournal == Spec => []HoldsConserved
  BY ConservedInvariant, PTL

-----------------------------------------------------------------------------
(* As long as a new account starts empty (the free plan's onetime_credits  *)
(* is 0), only the write of an admin grant over a balance that has changed *)
(* since it was loaded, and a charge of a hold the balance no longer       *)
(* covers, separate the balance from what the journal explains.            *)
THEOREM ExplainedByJournal ==
    ASSUME WelcomeCredits = 0
    PROVE  Spec => OnlyStaleGrantOrOverdraftUnexplained
<1> DEFINE Stale == grantSeen # NoGrant /\ grantSeen' = NoGrant /\ grantSeen # balance
<1>1. TypeOK /\ Accounted /\ HoldsConserved /\ NothingHeldBefore /\ [Next]_vars
        => Unexplained' = Unexplained \/ ~Solvent \/ Stale
  <2> SUFFICES ASSUME TypeOK, Accounted, HoldsConserved, NothingHeldBefore, [Next]_vars,
                      Solvent, ~Stale
               PROVE  Unexplained' = Unexplained
    OBVIOUS
  <2>0. /\ balance \in Nat /\ reserved \in Nat /\ credited \in Int /\ HeldSum \in Nat
        /\ ChargedSum \in Int /\ reserved = HeldSum /\ reserved <= balance
    BY HeldInSum DEF TypeOK, HoldsConserved, HeldSum, Solvent
  <2>u. /\ Unexplained = balance - credited + ChargedSum
        /\ Unexplained' = balance' - credited' + ChargedSum'
    BY DEF Unexplained, ChargedSum
  <2>1. CASE HoldsApart
    <3>0. ChargedSum' = ChargedSum
      BY <2>1, ApartKeeps
    <3>1. CASE OpenAccount
      <4>1. /\ balance = 0 /\ credited = 0
            /\ balance' = WelcomeCredits /\ credited' = WelcomeCredits
        BY <3>1 DEF OpenAccount, GetOrCreateAccount, NothingHeldBefore
      <4> QED BY <2>0, <2>u, <3>0, <4>1
    <3>2. ASSUME NEW amount \in Credits, Purchase(amount) PROVE Unexplained' = Unexplained
      <4>1. amount \in Nat
        BY ServiceAssumption
      <4>2. balance' = amount + balance /\ credited' = credited + amount
        BY <2>0, <3>2, <4>1 DEF Purchase, CreditAccount, NothingHeldBefore
      <4> QED BY <2>0, <2>u, <3>0, <4>1, <4>2
    <3>3. ASSUME NEW amount \in Credits, AdminGrantWrites(amount)
          PROVE  Unexplained' = Unexplained
      <4>1. amount \in Nat
        BY ServiceAssumption
      <4>2. balance' = balance + amount /\ credited' = credited + amount
        BY <3>3 DEF AdminGrantWrites, GrantOnto
      <4> QED BY <2>0, <2>u, <3>0, <4>1, <4>2
    <3>4. CASE MonthlyRenewal
      <4> DEFINE carry == Least(balance, CarryCap)
      <4>1. carry \in Nat /\ Allowance \in Nat
        BY <2>0, LeastNat, LedgerAssumption
      <4>2. balance' = carry + Allowance /\ credited' = credited - (balance - carry) + Allowance
        BY <3>4 DEF MonthlyRenewal, RenewAllowance
      <4> HIDE DEF carry
      <4> QED BY <2>0, <2>u, <3>0, <4>1, <4>2
    <3>5. CASE AdminGrantLoads \/ UNCHANGED vars
      <4>1. balance' = balance /\ credited' = credited
        BY <3>5 DEF AdminGrantLoads, ledgerVars, vars
      <4> QED BY <2>u, <3>0, <4>1
    <3> QED BY <2>1, <3>1, <3>2, <3>3, <3>4, <3>5 DEF HoldsApart
  <2>2. ASSUME NEW ref \in Refs, NEW row \in Row, NEW amount \in Nat, Opens(ref, row, amount)
        PROVE  Unexplained' = Unexplained
    <3>1. ChargedSum' = ChargedSum + (row.charged - ledger[ref].charged)
      BY <2>2, SumsFollow DEF Opens
    <3>2. row.charged = ledger[ref].charged /\ row.charged \in Nat
      BY <2>2, RowColumns DEF Opens
    <3>3. ChargedSum' = ChargedSum
      BY <2>0, <3>1, <3>2
    <3> QED BY <2>2, <2>u, <3>3 DEF Opens
  <2>3. ASSUME NEW ref \in Refs, NEW row \in Row, NEW amount \in Nat, NEW paid \in 0..amount,
               TakesDown(ref, row, amount, paid)
        PROVE  Unexplained' = Unexplained
    <3>1. ChargedSum' = ChargedSum + (row.charged - ledger[ref].charged)
      BY <2>3, SumsFollow DEF TakesDown
    <3>2. row.charged = ledger[ref].charged + paid /\ ledger[ref].charged \in Nat
      BY <2>3, RowColumns DEF TakesDown, TypeOK
    <3>3. ChargedSum' = ChargedSum + paid
      BY <2>0, <3>1, <3>2
    <3>4. HeldBy(row) \in Nat /\ HeldBy(row) = HeldBy(ledger[ref]) - amount
          /\ HeldBy(ledger[ref]) \in 0..HeldSum
      BY <2>3, HeldInSum DEF TakesDown
    <3>5. amount <= balance
      BY <2>0, <3>4
    <3>6. balance' = balance - paid /\ credited' = credited
      BY <2>0, <2>3, <3>5 DEF TakesDown, NonNeg
    <3> QED BY <2>0, <2>u, <3>3, <3>6
  <2> QED BY <2>1, <2>2, <2>3, StepKinds
<1>2. TypeOK /\ Accounted /\ HoldsConserved /\ NothingHeldBefore /\ [Next]_vars
        => [Unexplained' = Unexplained \/ ~Solvent \/ Stale]_vars
  BY <1>1
<1> QED BY <1>2, TypeCorrect, ConservedInvariant, NothingHeldBeforeInvariant, PTL
        DEF Spec, OnlyStaleGrantOrOverdraftUnexplained

-----------------------------------------------------------------------------
(* The holds, as the auth/capture account sees them.                       *)
Holds == [ref \in Refs |-> Outstanding(ref)]

(* Both modules add up in the same way.                                    *)
LEMMA PromiseSums ==
    ASSUME NEW f
    PROVE  Promise!SumFunction(f) = SumFunction(f)
  BY DEF SumFunction, SumFunctionOnSet, FoldFunctionOnSet, MapThenFoldSet,
         Promise!SumFunction, Promise!SumFunctionOnSet, Promise!FoldFunctionOnSet,
         Promise!MapThenFoldSet

(* Opening a hold authorizes it, taking one down captures it.              *)
LEMMA HoldChanges ==
    ASSUME TypeOK, NEW ref \in Refs, NEW row \in Row,
           ledger' = [ledger EXCEPT ![ref] = row]
    PROVE  /\ Holds[ref] = HeldBy(ledger[ref]) /\ Holds'[ref] = HeldBy(row)
           /\ Holds' = [Holds EXCEPT ![ref] = Holds'[ref]]
  BY DEF TypeOK, Holds, Outstanding, HeldBy

(* Every step of the service is a step of the auth/capture account, or     *)
(* leaves it as it is.                                                     *)
LEMMA PromisedStep ==
    ASSUME TypeOK, Accounted, HoldsConserved, NothingHeldBefore, [Next]_vars
    PROVE  Promise!Next \/ UNCHANGED Promise!vars
<1> DEFINE count == renewals + grants - (IF grantSeen = NoGrant THEN 0 ELSE 1)
<1>0. /\ balance \in Nat /\ reserved \in Nat /\ HeldSum \in Nat /\ reserved = HeldSum
      /\ balance' \in Nat /\ renewals \in Nat /\ grants \in Nat
    BY HeldInSum, TypeStep DEF TypeOK, HoldsConserved, HeldSum
<1>p. /\ Promise!vars = <<balance, Holds, count>>
      /\ Promise!Free = balance - HeldSum
  BY PromiseSums DEF Promise!vars, Promise!Free, Holds, HeldSum
<1>s. balance' = balance /\ Holds' = Holds /\ count' = count => UNCHANGED Promise!vars
  BY DEF Promise!vars, Holds
<1>t. balance' >= balance /\ Holds' = Holds /\ count' = count => Promise!TopUp
  BY DEF Promise!TopUp, Holds
<1>i. count' = count + 1 /\ Holds' = Holds => Promise!Intervene
  BY <1>0 DEF Promise!Intervene, Holds
<1>1. CASE HoldsApart
  <2>0. Holds' = Holds
    BY <1>1, ApartKeeps DEF Holds, Outstanding
  <2>1. CASE OpenAccount
    <3>1. balance' >= balance
      BY <1>0, <2>1 DEF OpenAccount, GetOrCreateAccount, NothingHeldBefore
    <3>2. count' = count
      BY <2>1 DEF OpenAccount, calls
    <3> QED BY <1>t, <2>0, <3>1, <3>2 DEF Promise!Next
  <2>2. ASSUME NEW amount \in Credits, Purchase(amount) PROVE Promise!Next
    <3>1. amount \in Nat /\ WelcomeCredits \in Nat
      BY ServiceAssumption, LedgerAssumption
    <3>2. balance' >= balance
      BY <1>0, <2>2, <3>1 DEF Purchase, CreditAccount, NothingHeldBefore
    <3>3. count' = count
      BY <2>2 DEF Purchase, calls
    <3> QED BY <1>t, <2>0, <3>2, <3>3 DEF Promise!Next
  <2>3. ASSUME NEW amount \in Credits, AdminGrantWrites(amount) PROVE Promise!Next
    <3>1. grantSeen # NoGrant /\ grantSeen' = NoGrant /\ UNCHANGED <<grants, renewals>>
      BY <2>3 DEF AdminGrantWrites
    <3>2. count' = count + 1
      BY <1>0, <3>1
    <3> QED BY <1>i, <2>0, <3>2 DEF Promise!Next
  <2>4. CASE MonthlyRenewal
    <3>1. renewals' = renewals + 1 /\ UNCHANGED <<grants, grantSeen>>
      BY <2>4 DEF MonthlyRenewal
    <3>2. count' = count + 1
      BY <1>0, <3>1
    <3> QED BY <1>i, <2>0, <3>2 DEF Promise!Next
  <2>5. CASE AdminGrantLoads
    <3>1. /\ grantSeen = NoGrant /\ grantSeen' = balance /\ balance # NoGrant
          /\ grants' = grants + 1 /\ renewals' = renewals /\ balance' = balance
      BY <1>0, <2>5 DEF AdminGrantLoads, NoGrant, ledgerVars
    <3>2. count' = count
      BY <1>0, <3>1
    <3> QED BY <1>s, <2>0, <3>1, <3>2
  <2>6. CASE UNCHANGED vars
    <3>1. balance' = balance /\ count' = count
      BY <2>6 DEF vars
    <3> QED BY <1>s, <2>0, <3>1
  <2> QED BY <1>1, <2>1, <2>2, <2>3, <2>4, <2>5, <2>6 DEF HoldsApart
<1>2. ASSUME NEW ref \in Refs, NEW row \in Row, NEW amount \in Nat, Opens(ref, row, amount)
      PROVE  Promise!Next
  <2>1. /\ Holds[ref] = HeldBy(ledger[ref]) /\ Holds'[ref] = HeldBy(row)
        /\ Holds' = [Holds EXCEPT ![ref] = Holds'[ref]]
    BY <1>2, HoldChanges DEF Opens
  <2>2. /\ HeldBy(row) = HeldBy(ledger[ref]) + amount /\ amount <= balance - reserved
        /\ balance' = balance /\ count' = count
    BY <1>2 DEF Opens, CanReserve, calls
  <2>3. HeldBy(ledger[ref]) \in Nat
    BY <1>0, HeldInSum
  <2>4. Holds'[ref] >= Holds[ref] /\ Holds'[ref] - Holds[ref] <= Promise!Free
    BY <1>0, <1>p, <2>1, <2>2, <2>3
  <2>5. Promise!Authorize(ref)
    BY <2>1, <2>2, <2>4 DEF Promise!Authorize, Holds
  <2> QED BY <2>5 DEF Promise!Next
<1>3. ASSUME NEW ref \in Refs, NEW row \in Row, NEW amount \in Nat, NEW paid \in 0..amount,
             TakesDown(ref, row, amount, paid)
      PROVE  Promise!Next
  <2>1. /\ Holds[ref] = HeldBy(ledger[ref]) /\ Holds'[ref] = HeldBy(row)
        /\ Holds' = [Holds EXCEPT ![ref] = Holds'[ref]]
    BY <1>3, HoldChanges DEF TakesDown
  <2>2. /\ HeldBy(row) \in Nat /\ HeldBy(row) = HeldBy(ledger[ref]) - amount
        /\ balance' = NonNeg(balance - paid) /\ count' = count
    BY <1>3 DEF TakesDown, calls
  <2>3. HeldBy(ledger[ref]) \in Nat
    BY <1>0, HeldInSum
  <2>4. Holds'[ref] \in 0..Holds[ref] /\ Holds[ref] - Holds'[ref] = amount
    BY <2>1, <2>2, <2>3
  <2>5. balance - balance' \in 0..amount
    BY <1>0, <2>2 DEF NonNeg
  <2>6. Promise!Capture(ref)
    BY <2>1, <2>2, <2>4, <2>5 DEF Promise!Capture, Holds
  <2> QED BY <2>6 DEF Promise!Next
<1> QED BY <1>1, <1>2, <1>3, StepKinds

(* The service, with its counter, journal rows and clamps, implements the  *)
(* auth/capture account.                                                   *)
THEOREM AuthCaptureImplemented == Spec => ImplementsAuthCapture
<1>1. Init => Promise!Init
  <2> SUFFICES ASSUME Init PROVE Promise!Init
    OBVIOUS
  <2>1. balance \in Nat /\ renewals + grants - (IF grantSeen = NoGrant THEN 0 ELSE 1) = 0
    BY DEF Init, LedgerInit
  <2>2. [ref \in Refs |-> Outstanding(ref)] = [ref \in Refs |-> 0]
    BY DEF Init, LedgerInit, Outstanding, NoRows
  <2> QED BY <2>1, <2>2 DEF Promise!Init
<1>2. TypeOK /\ Accounted /\ HoldsConserved /\ NothingHeldBefore /\ [Next]_vars
        => [Promise!Next]_(Promise!vars)
  BY PromisedStep
<1> QED BY <1>1, <1>2, TypeCorrect, ConservedInvariant, NothingHeldBeforeInvariant, PTL
        DEF Spec, ImplementsAuthCapture, Promise!Spec

=============================================================================
