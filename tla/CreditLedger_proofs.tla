------------------------- MODULE CreditLedger_proofs -------------------------
(***************************************************************************)
(* Lemmas about the operations of the credit account and the rows they add *)
(* to the journal, for every set of refs and all amounts.  The proofs of   *)
(* LedgerService and GenerationBilling build on them.                      *)
(***************************************************************************)
EXTENDS CreditLedger, FiniteSetTheorems, WellFoundedInduction, TLAPS

(* The parts of TypeOK that the steps of the ledger can disturb.           *)
LedgerType ==
    /\ opened \in BOOLEAN
    /\ balance \in Nat
    /\ reserved \in Nat
    /\ credited \in Int
    /\ ledger \in [Refs -> Row]

-----------------------------------------------------------------------------
(* max(0, n) and min(m, n) as the service uses them.                       *)
LEMMA NonNegNat ==
    ASSUME NEW n \in Int
    PROVE  NonNeg(n) \in Nat /\ NonNeg(n) >= n /\ (n >= 0 => NonNeg(n) = n)
  BY DEF NonNeg

(* Least is one of its arguments and at most both.                         *)
LEMMA LeastNat ==
    ASSUME NEW m \in Nat, NEW n \in Nat
    PROVE  Least(m, n) \in Nat /\ Least(m, n) <= m /\ Least(m, n) <= n
  BY DEF Least

(* The columns of a row are natural numbers.                               *)
LEMMA RowColumns ==
    ASSUME NEW row \in Row
    PROVE  /\ row.reserves \in Nat /\ row.finals \in Nat /\ row.last \in Nat
           /\ row.held \in Nat /\ row.charged \in Nat /\ row.released \in Nat
  BY DEF Row

(* The row operators keep rows well-formed and touch only their columns.   *)
LEMMA ReservingRow ==
    ASSUME NEW row \in Row, NEW amount \in Nat
    PROVE  /\ Reserving(row, amount) \in Row
           /\ Reserving(row, amount).reserves = row.reserves + 1
           /\ Reserving(row, amount).finals = row.finals
           /\ Reserving(row, amount).last = amount
           /\ Reserving(row, amount).held = row.held + amount
           /\ Reserving(row, amount).charged = row.charged
           /\ Reserving(row, amount).released = row.released
<1> DEFINE n == row.reserves + 1
           h == row.held + amount
<1>1. Reserving(row, amount) = [row EXCEPT !.reserves = n, !.last = amount, !.held = h]
  BY DEF Reserving
<1>2. n \in Nat /\ h \in Nat
  BY RowColumns
<1>3. Reserving(row, amount) \in Row
  <2> HIDE DEF n, h
  <2> QED BY <1>1, <1>2 DEF Row
<1> QED BY <1>3, SMT DEF Reserving, Row

(* A RELEASE row adds a finalizer and its amount.                          *)
LEMMA ReleasingRow ==
    ASSUME NEW row \in Row, NEW amount \in Nat
    PROVE  /\ Releasing(row, amount) \in Row
           /\ Releasing(row, amount).reserves = row.reserves
           /\ Releasing(row, amount).finals = row.finals + 1
           /\ Releasing(row, amount).last = row.last
           /\ Releasing(row, amount).held = row.held
           /\ Releasing(row, amount).charged = row.charged
           /\ Releasing(row, amount).released = row.released + amount
<1> DEFINE n == row.finals + 1
           r == row.released + amount
<1>1. Releasing(row, amount) = [row EXCEPT !.finals = n, !.released = r]
  BY DEF Releasing
<1>2. n \in Nat /\ r \in Nat
  BY RowColumns
<1>3. Releasing(row, amount) \in Row
  <2> HIDE DEF n, r
  <2> QED BY <1>1, <1>2 DEF Row
<1> QED BY <1>3, SMT DEF Releasing, Row

(* A charge row adds a finalizer and its amount.                           *)
LEMMA ChargingRow ==
    ASSUME NEW row \in Row, NEW amount \in Nat
    PROVE  /\ Charging(row, amount) \in Row
           /\ Charging(row, amount).reserves = row.reserves
           /\ Charging(row, amount).finals = row.finals + 1
           /\ Charging(row, amount).last = row.last
           /\ Charging(row, amount).held = row.held
           /\ Charging(row, amount).charged = row.charged + amount
           /\ Charging(row, amount).released = row.released
<1> DEFINE n == row.finals + 1
           c == row.charged + amount
<1>1. Charging(row, amount) = [row EXCEPT !.finals = n, !.charged = c]
  BY DEF Charging
<1>2. n \in Nat /\ c \in Nat
  BY RowColumns
<1>3. Charging(row, amount) \in Row
  <2> HIDE DEF n, c
  <2> QED BY <1>1, <1>2 DEF Row
<1> QED BY <1>3, SMT DEF Charging, Row

(* Finalizing splits the estimate into a charge and a release.             *)
LEMMA FinalizingRow ==
    ASSUME NEW row \in Row, NEW estimate \in Nat, NEW spent \in Nat,
           spent <= estimate
    PROVE  LET final == Finalizing(row, estimate, spent)
           IN  /\ final \in Row
               /\ final.reserves = row.reserves
               /\ final.finals > row.finals
               /\ final.last = row.last
               /\ final.held = row.held
               /\ final.charged = row.charged + spent
               /\ final.released = row.released + (estimate - spent)
<1> DEFINE charge == IF spent > 0 THEN Charging(row, spent) ELSE row
<1>1. /\ charge \in Row
      /\ charge.reserves = row.reserves
      /\ charge.last = row.last
      /\ charge.held = row.held
      /\ charge.charged = row.charged + spent
      /\ charge.released = row.released
      /\ IF spent > 0 THEN charge.finals = row.finals + 1
                      ELSE charge.finals = row.finals
  <2>1. CASE spent > 0
    <3>1. charge = Charging(row, spent)
      BY <2>1
    <3> HIDE DEF charge
    <3> QED BY <2>1, <3>1, ChargingRow
  <2>2. CASE spent = 0
    <3>1. charge = row
      BY <2>2
    <3> HIDE DEF charge
    <3> QED BY <2>2, <3>1, RowColumns
  <2> QED BY <2>1, <2>2
<1>2. Finalizing(row, estimate, spent) =
        IF estimate > spent \/ spent = 0
        THEN Releasing(charge, estimate - spent) ELSE charge
  BY DEF Finalizing
<1> HIDE DEF charge
<1>3. CASE estimate > spent \/ spent = 0
  <2>1. estimate - spent \in Nat
    OBVIOUS
  <2>2. Finalizing(row, estimate, spent) = Releasing(charge, estimate - spent)
    BY <1>2, <1>3
  <2> DEFINE rest == estimate - spent
             final == Releasing(charge, rest)
  <2>3. /\ final \in Row
        /\ final.reserves = charge.reserves
        /\ final.finals = charge.finals + 1
        /\ final.last = charge.last
        /\ final.held = charge.held
        /\ final.charged = charge.charged
        /\ final.released = charge.released + rest
    BY <1>1, <2>1, ReleasingRow
  <2> HIDE DEF final
  <2>4. Finalizing(row, estimate, spent) = final
    BY <2>2 DEF final
  <2> QED BY <1>1, <2>3, <2>4, RowColumns
<1>4. CASE ~(estimate > spent \/ spent = 0)
  BY <1>1, <1>2, <1>4, RowColumns
<1> QED BY <1>3, <1>4

-----------------------------------------------------------------------------
(* Each operation of the ledger keeps the columns in range.                *)
LEMMA ReserveType ==
    ASSUME LedgerType, NEW ref \in Refs, NEW amount \in Nat,
           ReserveCredits(ref, amount)
    PROVE  LedgerType'
<1>1. Reserving(ledger[ref], amount) \in Row
  BY ReservingRow DEF LedgerType
<1> QED BY <1>1 DEF LedgerType, ReserveCredits

(* release_credits keeps the columns in range.                             *)
LEMMA ReleaseType ==
    ASSUME LedgerType, NEW ref \in Refs, NEW amount \in Nat,
           ReleaseCredits(ref, amount)
    PROVE  LedgerType'
<1>1. Releasing(ledger[ref], amount) \in Row
  BY ReleasingRow DEF LedgerType
<1>2. NonNeg(reserved - amount) \in Nat
  BY NonNegNat DEF LedgerType
<1> QED BY <1>1, <1>2 DEF LedgerType, ReleaseCredits

(* release_reservation_if_held keeps the columns in range.                 *)
LEMMA ReleaseIfHeldType ==
    ASSUME LedgerType, NEW ref \in Refs, ReleaseReservationIfHeld(ref)
    PROVE  LedgerType'
<1>0. ledger[ref] \in Row /\ ledger[ref].last \in Nat
  BY DEF LedgerType, Row
<1>1. Releasing(ledger[ref], ledger[ref].last) \in Row
  BY <1>0, ReleasingRow
<1>2. NonNeg(reserved - ledger[ref].last) \in Nat
  BY <1>0, NonNegNat DEF LedgerType
<1> QED BY <1>1, <1>2 DEF LedgerType, ReleaseReservationIfHeld

(* charge_credits keeps the columns in range.                              *)
LEMMA ChargeType ==
    ASSUME LedgerType, NEW ref \in Refs, NEW amount \in Nat,
           ChargeCredits(ref, amount)
    PROVE  LedgerType'
<1>1. Charging(ledger[ref], amount) \in Row
  BY ChargingRow DEF LedgerType
<1>2. NonNeg(reserved - amount) \in Nat /\ NonNeg(balance - amount) \in Nat
  BY NonNegNat DEF LedgerType
<1> QED BY <1>1, <1>2 DEF LedgerType, ChargeCredits

(* sync_finalize_generation keeps the columns in range.                    *)
LEMMA FinalizeType ==
    ASSUME LedgerType, NEW ref \in Refs, NEW estimate \in Nat, NEW spent \in Nat,
           FinalizeGeneration(ref, estimate, spent)
    PROVE  LedgerType'
<1> DEFINE paid == Least(NonNeg(spent), estimate)
<1>1. paid \in Nat /\ paid <= estimate
  BY NonNegNat, LeastNat
<1>2. Finalizing(ledger[ref], estimate, paid) \in Row
  BY <1>1, FinalizingRow DEF LedgerType
<1>3. NonNeg(reserved - estimate) \in Nat /\ NonNeg(balance - paid) \in Nat
  BY <1>1, NonNegNat DEF LedgerType
<1> HIDE DEF paid
<1>4. /\ reserved' = NonNeg(reserved - estimate)
      /\ balance' = NonNeg(balance - paid)
      /\ ledger' = [ledger EXCEPT ![ref] = Finalizing(@, estimate, paid)]
      /\ UNCHANGED <<opened, credited>>
  BY DEF FinalizeGeneration, paid
<1> QED BY <1>2, <1>3, <1>4 DEF LedgerType

-----------------------------------------------------------------------------
(* The journal of a launch: nothing before its one RESERVE row, only the   *)
(* hold until it is settled, and the whole hold accounted for afterwards.  *)
RunRow(row) ==
    \/ row.reserves = 0 /\ row.finals = 0 /\ row.held = 0
          /\ row.charged = 0 /\ row.released = 0
    \/ row.reserves = 1 /\ row.finals = 0 /\ row.held = row.last
          /\ row.charged = 0 /\ row.released = 0
    \/ row.reserves = 1 /\ row.finals > 0 /\ row.held = row.last
          /\ row.charged + row.released = row.held

(* A first hold starts a journal that is accounted for.                    *)
LEMMA RunReserved ==
    ASSUME NEW row \in Row, RunRow(row), row.reserves = 0, NEW amount \in Nat
    PROVE  RunRow(Reserving(row, amount))
<1> DEFINE next == Reserving(row, amount)
<1>1. /\ next.reserves = 1 /\ next.finals = row.finals
      /\ next.last = amount /\ next.held = row.held + amount
      /\ next.charged = row.charged /\ next.released = row.released
  BY ReservingRow
<1> HIDE DEF next
<1>2. RunRow(next)
  BY <1>1, RowColumns DEF RunRow
<1> QED BY <1>2 DEF next

(* Releasing an open hold accounts for all of it.                          *)
LEMMA RunReleased ==
    ASSUME NEW row \in Row, RunRow(row), row.reserves > row.finals
    PROVE  RunRow(Releasing(row, row.last))
<1> DEFINE next == Releasing(row, row.last)
<1>1. row.last \in Nat
  BY RowColumns
<1>2. /\ next.reserves = row.reserves /\ next.finals = row.finals + 1
      /\ next.last = row.last /\ next.held = row.held
      /\ next.charged = row.charged /\ next.released = row.released + row.last
  BY <1>1, ReleasingRow
<1> HIDE DEF next
<1>3. RunRow(next)
  BY <1>2, RowColumns DEF RunRow
<1> QED BY <1>3 DEF next

(* Finalizing splits the hold and accounts for all of it.                  *)
LEMMA RunFinalized ==
    ASSUME NEW row \in Row, RunRow(row), row.reserves > 0, row.finals = 0,
           NEW paid \in Nat, paid <= row.last
    PROVE  RunRow(Finalizing(row, row.last, paid))
<1> DEFINE final == Finalizing(row, row.last, paid)
<1>1. row.last \in Nat
  BY RowColumns
<1>2. /\ final \in Row
      /\ final.reserves = row.reserves
      /\ final.finals > row.finals
      /\ final.last = row.last
      /\ final.held = row.held
      /\ final.charged = row.charged + paid
      /\ final.released = row.released + (row.last - paid)
  BY <1>1, FinalizingRow
<1> HIDE DEF final
<1>3. RunRow(final)
  BY <1>2, RowColumns DEF RunRow
<1> QED BY <1>3 DEF final

(* What FinalizeGeneration does to the ledger, its LETs opened.            *)
LEMMA FinalizeEffect ==
    ASSUME LedgerType, NEW ref \in Refs, NEW estimate \in Nat, NEW spent \in Nat,
           FinalizeGeneration(ref, estimate, spent)
    PROVE  \E paid \in Nat :
              /\ paid <= estimate
              /\ ledger[ref].finals = 0
              /\ reserved' = NonNeg(reserved - estimate)
              /\ balance' = NonNeg(balance - paid)
              /\ ledger' = [ledger EXCEPT ![ref] = Finalizing(@, estimate, paid)]
<1> DEFINE paid == Least(NonNeg(spent), estimate)
<1>1. paid \in Nat /\ paid <= estimate
  BY NonNegNat, LeastNat
<1>2. /\ ledger[ref].finals = 0
      /\ reserved' = NonNeg(reserved - estimate)
      /\ balance' = NonNeg(balance - paid)
      /\ ledger' = [ledger EXCEPT ![ref] = Finalizing(@, estimate, paid)]
  BY DEF FinalizeGeneration, CanFinalize
<1> HIDE DEF paid
<1> QED BY <1>1, <1>2

-----------------------------------------------------------------------------
(* Sums over finite functions: what the recursion of SumFunction adds up.   *)

(* Every non-empty set of numbers has a least one.                         *)
LEMMA LeastMember ==
    ASSUME NEW B, B \subseteq Nat, B # {}
    PROVE  \E n \in B : \A m \in B : n <= m
<1>1. PICK n \in B : \A m \in B : ~(<<m, n>> \in OpToRel(<, Nat))
  BY NatLessThanWellFounded, WFMin
<1>2. ASSUME NEW m \in B PROVE n <= m
  <2>1. ~(m < n)
    BY <1>1, <1>2 DEF OpToRel
  <2>2. n \in Nat /\ m \in Nat
    OBVIOUS
  <2> QED BY <2>1, <2>2
<1> QED BY <1>2

(* The element a fold takes from a set.                                    *)
Taken(T) == CHOOSE x \in T : TRUE

(* Induction over the subsets of a finite set: what holds of the empty set *)
(* and of every set from which the taken element was removed holds of all. *)
LEMMA SubsetInduction ==
    ASSUME NEW S, IsFiniteSet(S), NEW A, {} \in A,
           \A T \in SUBSET S : T # {} /\ T \ {Taken(T)} \in A => T \in A
    PROVE  \A T \in SUBSET S : T \in A
<1> DEFINE bad == {T \in SUBSET S : T \notin A}
           sizes == {Cardinality(T) : T \in bad}
<1> SUFFICES ASSUME bad # {} PROVE FALSE
  OBVIOUS
<1>1. \A T \in SUBSET S : IsFiniteSet(T) /\ Cardinality(T) \in Nat
  BY FS_Subset, FS_CardinalityType
<1>2. sizes \subseteq Nat /\ sizes # {}
  BY <1>1
<1>3. PICK n \in sizes : \A m \in sizes : n <= m
  <2> HIDE DEF sizes
  <2> QED BY <1>2, LeastMember
<1>4. PICK T \in bad : n = Cardinality(T)
  BY <1>3
<1>5. T # {} /\ T \in SUBSET S /\ Taken(T) \in T
  BY <1>4 DEF Taken
<1>6. Cardinality(T \ {Taken(T)}) = n - 1 /\ n \in Nat
  BY <1>1, <1>4, <1>5, FS_RemoveElement
<1>7. T \ {Taken(T)} \in A
  <2>1. T \ {Taken(T)} \in bad => n <= Cardinality(T \ {Taken(T)})
    BY <1>3
  <2> QED BY <1>5, <1>6, <2>1
<1> QED BY <1>4, <1>5, <1>7

(* The running sums of f over the subsets of its domain, added up in the   *)
(* order in which CHOOSE takes the elements.                               *)
IsTally(g, f, S) ==
    g = [T \in SUBSET S |-> IF T = {} THEN 0 ELSE f[Taken(T)] + g[T \ {Taken(T)}]]

(* Every finite set has such a tally: a least set without one would make   *)
(* one of the tally of that set less the element taken.                    *)
LEMMA TallyExists ==
    ASSUME NEW S, IsFiniteSet(S), NEW f \in [S -> Int]
    PROVE  \E g \in [SUBSET S -> Int] : IsTally(g, f, S)
<1> DEFINE Right(g, T) ==
             g[T] = IF T = {} THEN 0 ELSE f[Taken(T)] + g[T \ {Taken(T)}]
           UpTo(n) == \E g \in [SUBSET S -> Int] :
                         \A T \in SUBSET S : Cardinality(T) <= n => Right(g, T)
           short == {n \in Nat : ~UpTo(n)}
<1>1. \A T \in SUBSET S : IsFiniteSet(T) /\ Cardinality(T) \in Nat /\ Cardinality(T) <= Cardinality(S)
  BY FS_Subset, FS_CardinalityType
<1>t. \A T \in SUBSET S : T # {} => Taken(T) \in T /\ Taken(T) \in S
                                     /\ T \ {Taken(T)} \in SUBSET S
                                     /\ Cardinality(T \ {Taken(T)}) = Cardinality(T) - 1
  BY <1>1, FS_RemoveElement DEF Taken
<1>2. UpTo(0)
  <2> DEFINE zero == [T \in SUBSET S |-> 0]
  <2>1. zero \in [SUBSET S -> Int]
    OBVIOUS
  <2>2. \A T \in SUBSET S : Cardinality(T) <= 0 => T = {}
    BY <1>1, FS_EmptySet
  <2>3. \A T \in SUBSET S : Cardinality(T) <= 0 => Right(zero, T)
    BY <2>2
  <2> QED BY <2>1, <2>3
<1>3. ASSUME NEW n \in Nat, UpTo(n) PROVE UpTo(n + 1)
  <2>1. PICK g \in [SUBSET S -> Int] :
               \A T \in SUBSET S : Cardinality(T) <= n => Right(g, T)
    BY <1>3
  <2> DEFINE h == [T \in SUBSET S |->
                     IF Cardinality(T) = n + 1
                     THEN f[Taken(T)] + g[T \ {Taken(T)}] ELSE g[T]]
  <2>e. \A T \in SUBSET S : Cardinality(T) = n + 1 => T # {}
    <3>1. Cardinality({}) = 0 /\ n + 1 # 0
      BY FS_EmptySet
    <3> QED BY <3>1
  <2>2. h \in [SUBSET S -> Int]
    BY <1>t, <2>e
  <2>3. ASSUME NEW T \in SUBSET S, Cardinality(T) <= n + 1
        PROVE  Right(h, T)
    <3>1. CASE Cardinality(T) = n + 1
      <4>1. T # {} /\ h[T] = f[Taken(T)] + g[T \ {Taken(T)}]
        BY <2>e, <3>1
      <4>2. T \ {Taken(T)} \in SUBSET S /\ Cardinality(T \ {Taken(T)}) # n + 1
        BY <1>t, <3>1, <4>1
      <4>3. h[T \ {Taken(T)}] = g[T \ {Taken(T)}]
        BY <4>2
      <4> HIDE DEF h
      <4> QED BY <4>1, <4>3
    <3>2. CASE Cardinality(T) <= n
      <4>1. h[T] = g[T]
        BY <1>1, <3>2
      <4>2. T # {} => h[T \ {Taken(T)}] = g[T \ {Taken(T)}]
        BY <1>1, <1>t, <3>2
      <4>3. Right(g, T)
        BY <2>1, <3>2
      <4> HIDE DEF h
      <4> QED BY <4>1, <4>2, <4>3
    <3> QED BY <1>1, <2>3, <3>1, <3>2
  <2> HIDE DEF h
  <2> QED BY <2>2, <2>3
<1>4. \A n \in Nat : UpTo(n)
  <2> SUFFICES ASSUME short # {} PROVE FALSE
    OBVIOUS
  <2>1. PICK n \in short : \A m \in short : n <= m
    <3>1. short \subseteq Nat
      OBVIOUS
    <3> HIDE DEF short
    <3> QED BY <3>1, LeastMember
  <2> HIDE DEF UpTo
  <2>2. n \in Nat /\ ~UpTo(n) /\ n # 0
    BY <1>2
  <2>3. n - 1 \in Nat /\ n - 1 \notin short
    BY <2>1, <2>2
  <2>4. UpTo(n - 1)
    BY <2>3
  <2>5. UpTo((n - 1) + 1)
    BY <1>3, <2>3, <2>4
  <2> QED BY <2>2, <2>5
<1>5. Cardinality(S) \in Nat
  BY FS_CardinalityType
<1>6. PICK g \in [SUBSET S -> Int] :
             \A T \in SUBSET S : Cardinality(T) <= Cardinality(S) => Right(g, T)
  BY <1>4, <1>5
<1>7. IsTally(g, f, S)
  BY <1>1, <1>6 DEF IsTally
<1> QED BY <1>7

(* What the running sums of f say about its sum.                           *)
AddsUp(g, f, S) ==
    /\ g \in [SUBSET S -> Int]
    /\ SumFunction(f) = g[S]
    /\ g[{}] = 0
    /\ \A T \in SUBSET S : T # {} =>
          Taken(T) \in T /\ g[T] = f[Taken(T)] + g[T \ {Taken(T)}]

(* What the library's fold computes is the tally of the whole set.         *)
LEMMA SumIsTally ==
    ASSUME NEW S, IsFiniteSet(S), NEW f \in [S -> Int]
    PROVE  \E g : AddsUp(g, f, S)
<1> DEFINE g == CHOOSE h : IsTally(h, f, S)
<1>1. SumFunction(f) = g[S]
  <2>1. DOMAIN f = S
    OBVIOUS
  <2>2. SumFunction(f) = SumFunctionOnSet(f, S)
    BY <2>1 DEF SumFunction
  <2>3. SumFunctionOnSet(f, S) = (CHOOSE h : IsTally(h, f, S))[S]
    BY DEF SumFunctionOnSet, FoldFunctionOnSet, MapThenFoldSet, IsTally, Taken
  <2> QED BY <2>2, <2>3
<1>2. IsTally(g, f, S)
  <2>1. \E h : IsTally(h, f, S)
    BY TallyExists
  <2> QED BY <2>1
<1> HIDE DEF g
<1>3. /\ g[{}] = 0 /\ g = [T \in SUBSET S |-> g[T]]
      /\ \A T \in SUBSET S : T # {} =>
            /\ Taken(T) \in T
            /\ g[T] = f[Taken(T)] + g[T \ {Taken(T)}]
  BY <1>2 DEF IsTally, Taken
<1>4. \A T \in SUBSET S : g[T] \in Int
  <2> DEFINE typed == {T \in SUBSET S : g[T] \in Int}
  <2>1. {} \in typed
    BY <1>3
  <2>2. ASSUME NEW T \in SUBSET S, T # {}, T \ {Taken(T)} \in typed PROVE T \in typed
    <3>1. Taken(T) \in T /\ g[T] = f[Taken(T)] + g[T \ {Taken(T)}]
      BY <1>3, <2>2
    <3>2. g[T \ {Taken(T)}] \in Int /\ f[Taken(T)] \in Int
      BY <2>2, <3>1
    <3> QED BY <3>1, <3>2
  <2>3. \A T \in SUBSET S : T \in typed
    <3> HIDE DEF typed
    <3> QED BY <2>1, <2>2, SubsetInduction
  <2> QED BY <2>3
<1> QED BY <1>1, <1>3, <1>4 DEF AddsUp

(* A sum is a number; it is no smaller than any summand when none is       *)
(* negative; and it is 0 when all summands are.                            *)
LEMMA SumNumber ==
    ASSUME NEW S, IsFiniteSet(S), NEW f \in [S -> Int]
    PROVE  /\ SumFunction(f) \in Int
           /\ (\A x \in S : f[x] = 0) => SumFunction(f) = 0
           /\ (\A x \in S : f[x] >= 0) =>
                 SumFunction(f) >= 0 /\ \A x \in S : f[x] <= SumFunction(f)
<1>1. PICK g : AddsUp(g, f, S)
  BY SumIsTally
<1>2. /\ SumFunction(f) = g[S] /\ g[{}] = 0 /\ \A T \in SUBSET S : g[T] \in Int
      /\ \A T \in SUBSET S : T # {} =>
            Taken(T) \in T /\ g[T] = f[Taken(T)] + g[T \ {Taken(T)}]
  BY <1>1 DEF AddsUp
<1>3. ASSUME \A x \in S : f[x] = 0 PROVE g[S] = 0
  <2> DEFINE zero == {T \in SUBSET S : g[T] = 0}
  <2>1. {} \in zero
    BY <1>2
  <2>2. ASSUME NEW T \in SUBSET S, T # {}, T \ {Taken(T)} \in zero PROVE T \in zero
    <3>1. Taken(T) \in S /\ g[T] = f[Taken(T)] + g[T \ {Taken(T)}]
      BY <1>2, <2>2
    <3>2. f[Taken(T)] = 0 /\ g[T \ {Taken(T)}] = 0
      BY <1>3, <2>2, <3>1
    <3>3. g[T] = 0
      BY <3>1, <3>2
    <3> QED BY <3>3
  <2>3. \A T \in SUBSET S : T \in zero
    <3> HIDE DEF zero
    <3> QED BY <2>1, <2>2, SubsetInduction
  <2> QED BY <2>3
<1>4. ASSUME \A x \in S : f[x] >= 0
      PROVE  g[S] >= 0 /\ \A x \in S : f[x] <= g[S]
  <2> DEFINE fine == {T \in SUBSET S : g[T] >= 0 /\ \A x \in T : f[x] <= g[T]}
  <2>1. {} \in fine
    BY <1>2
  <2>2. ASSUME NEW T \in SUBSET S, T # {}, T \ {Taken(T)} \in fine PROVE T \in fine
    <3> DEFINE x == Taken(T)
               rest == g[T \ {x}]
    <3>1. x \in T /\ g[T] = f[x] + rest /\ f[x] \in Int /\ f[x] >= 0
      BY <1>2, <1>4, <2>2
    <3>2. rest \in Int /\ rest >= 0 /\ \A y \in T \ {x} : f[y] <= rest
      BY <1>2, <2>2
    <3> HIDE DEF x, rest
    <3>3. g[T] >= 0 /\ f[x] <= g[T] /\ rest <= g[T] /\ g[T] \in Int
      BY <3>1, <3>2
    <3>4. ASSUME NEW y \in T PROVE f[y] <= g[T]
      <4>1. f[y] \in Int
        OBVIOUS
      <4>2. CASE y = x
        BY <3>3, <4>2
      <4>3. CASE y # x
        <5>1. f[y] <= rest
          BY <3>2, <4>3
        <5> QED BY <3>2, <3>3, <4>1, <5>1
      <4> QED BY <4>2, <4>3
    <3> QED BY <3>3, <3>4
  <2>3. \A T \in SUBSET S : T \in fine
    <3> HIDE DEF fine
    <3> QED BY <2>1, <2>2, SubsetInduction
  <2> QED BY <2>3
<1> QED BY <1>2, <1>3, <1>4

(* Changing one summand changes the sum by the difference.                 *)
LEMMA SumUpdate ==
    ASSUME NEW S, IsFiniteSet(S), NEW f \in [S -> Int], NEW r \in S, NEW v \in Int
    PROVE  SumFunction([f EXCEPT ![r] = v]) = SumFunction(f) - f[r] + v
<1> DEFINE h == [f EXCEPT ![r] = v]
           change == v - f[r]
<1>1. h \in [S -> Int] /\ h[r] = v /\ \A x \in S : x # r => h[x] = f[x]
  OBVIOUS
<1>2. PICK g : AddsUp(g, f, S)
  BY SumIsTally
<1> HIDE DEF h
<1>3. PICK k : AddsUp(k, h, S)
  BY <1>1, SumIsTally
<1>4. /\ SumFunction(f) = g[S] /\ g[{}] = 0 /\ \A T \in SUBSET S : g[T] \in Int
      /\ SumFunction(h) = k[S] /\ k[{}] = 0 /\ \A T \in SUBSET S : k[T] \in Int
      /\ \A T \in SUBSET S : T # {} =>
            /\ Taken(T) \in T
            /\ g[T] = f[Taken(T)] + g[T \ {Taken(T)}]
            /\ k[T] = h[Taken(T)] + k[T \ {Taken(T)}]
  BY <1>2, <1>3 DEF AddsUp
<1>5. f[r] \in Int /\ change \in Int
  OBVIOUS
<1> DEFINE fine == {T \in SUBSET S : k[T] = IF r \in T THEN g[T] + change ELSE g[T]}
<1>6. {} \in fine
  BY <1>4
<1>7. ASSUME NEW T \in SUBSET S, T # {}, T \ {Taken(T)} \in fine PROVE T \in fine
  <2> DEFINE x == Taken(T)
             rest == T \ {x}
  <2>1. /\ x \in T /\ x \in S /\ g[T] = f[x] + g[rest] /\ k[T] = h[x] + k[rest]
        /\ rest \in SUBSET S /\ x \notin rest /\ (x # r => (r \in rest <=> r \in T))
    BY <1>4, <1>7
  <2>2. k[rest] = IF r \in rest THEN g[rest] + change ELSE g[rest]
    BY <1>7
  <2> HIDE DEF x, rest
  <2>3. g[rest] \in Int /\ f[x] \in Int
    BY <1>4, <2>1
  <2>4. CASE x = r
    <3>1. k[T] = v + g[rest] /\ g[T] = f[r] + g[rest]
      BY <1>1, <2>1, <2>2, <2>4
    <3>2. k[T] = g[T] + change
      BY <1>5, <2>3, <3>1
    <3> QED BY <2>1, <2>4, <3>2
  <2>5. CASE x # r
    <3>1. h[x] = f[x]
      BY <1>1, <2>1, <2>5
    <3> HIDE DEF change
    <3>2. k[T] = IF r \in T THEN g[T] + change ELSE g[T]
      BY <1>5, <2>1, <2>2, <2>3, <2>5, <3>1
    <3> QED BY <3>2
  <2> QED BY <2>4, <2>5
<1>8. \A T \in SUBSET S : T \in fine
  <2> HIDE DEF fine
  <2> QED BY <1>6, <1>7, SubsetInduction
<1>9. SumFunction(h) = SumFunction(f) + change
  BY <1>4, <1>8
<1>10. SumFunction(f) \in Int
  BY SumNumber
<1> QED BY <1>5, <1>9, <1>10 DEF h

-----------------------------------------------------------------------------
(* What the rows of a ref still hold; Outstanding(ref) is HeldBy of its    *)
(* row.                                                                    *)
HeldBy(row) == row.held - row.charged - row.released

(* The journal of a ref that is reserved again and again, always for the   *)
(* same amount while something is open.                                    *)
DirectRow(row) ==
    /\ row.finals <= row.reserves
    /\ HeldBy(row) = (row.reserves - row.finals) * row.last

(* An accounted row holds at least its last amount while a hold is open,   *)
(* and never less than nothing.                                            *)
LEMMA OpenRowHolds ==
    ASSUME NEW row \in Row, RunRow(row) \/ DirectRow(row)
    PROVE  /\ HeldBy(row) \in Nat
           /\ row.reserves > row.finals => HeldBy(row) >= row.last
<1>1. CASE RunRow(row)
  BY <1>1, RowColumns DEF RunRow, HeldBy
<1>2. CASE DirectRow(row)
  <2> DEFINE open == row.reserves - row.finals
  <2>1. open \in Nat /\ row.last \in Nat /\ (row.reserves > row.finals => open >= 1)
    BY <1>2, RowColumns DEF DirectRow
  <2>2. HeldBy(row) = open * row.last
    BY <1>2 DEF DirectRow
  <2>3. \A m \in Nat, n \in Nat : m * n \in Nat /\ (m >= 1 => m * n >= n)
    <3>1. ASSUME NEW m \in Nat, NEW n \in Nat, m >= 1 PROVE m * n >= n
      <4>1. m * n = (m - 1) * n + n /\ (m - 1) \in Nat
        BY <3>1
      <4>2. (m - 1) * n \in Nat
        BY <4>1
      <4> QED BY <4>1, <4>2
    <3> QED BY <3>1
  <2> HIDE DEF open
  <2> QED BY <2>1, <2>2, <2>3
<1> QED BY <1>1, <1>2

(* A further hold, a charge or a release of the open amount keep a direct  *)
(* journal accounted for.                                                  *)
LEMMA DirectReserved ==
    ASSUME NEW row \in Row, DirectRow(row), NEW amount \in Nat,
           row.reserves > 0 => amount = row.last
    PROVE  /\ DirectRow(Reserving(row, amount))
           /\ HeldBy(Reserving(row, amount)) = HeldBy(row) + amount
<1> DEFINE next == Reserving(row, amount)
           open == row.reserves - row.finals
<1>1. /\ next.reserves = row.reserves + 1 /\ next.finals = row.finals
      /\ next.last = amount /\ next.held = row.held + amount
      /\ next.charged = row.charged /\ next.released = row.released
  BY ReservingRow
<1> HIDE DEF next
<1>2. HeldBy(next) = HeldBy(row) + amount
  BY <1>1, RowColumns DEF HeldBy
<1>3. HeldBy(row) = open * row.last /\ open \in Nat
  BY RowColumns DEF DirectRow
<1>4. open * row.last = open * amount
  <2>1. CASE row.reserves > 0
    BY <2>1
  <2>2. CASE row.reserves = 0
    <3>1. open = 0 /\ row.last \in Nat
      BY <1>3, <2>2, RowColumns
    <3>2. \A n \in Nat : 0 * n = 0
      OBVIOUS
    <3> HIDE DEF open
    <3> QED BY <3>1, <3>2
  <2> QED BY <2>1, <2>2, RowColumns
<1>5. next.reserves - next.finals = open + 1
  BY <1>1, RowColumns
<1>6. (open + 1) * amount = open * amount + amount
  BY <1>3
<1>7. next.finals <= next.reserves
  BY <1>1, RowColumns DEF DirectRow
<1> QED BY <1>1, <1>2, <1>3, <1>4, <1>5, <1>6, <1>7 DEF DirectRow, next

(* Settling the open reserve of an action, with a charge or without, takes *)
(* its amount off the hold and leaves the journal in shape.                *)
LEMMA DirectSettled ==
    ASSUME NEW row \in Row, DirectRow(row), row.reserves > row.finals,
           NEW next \in {Releasing(row, row.last), Charging(row, row.last)}
    PROVE  DirectRow(next) /\ HeldBy(next) = HeldBy(row) - row.last
<1> DEFINE open == row.reserves - row.finals
<1>0. row.last \in Nat
  BY RowColumns
<1>1. /\ next.reserves = row.reserves /\ next.finals = row.finals + 1
      /\ next.last = row.last /\ next.held = row.held
      /\ next.charged + next.released = row.charged + row.released + row.last
      /\ next.charged \in Nat /\ next.released \in Nat
  <2>1. CASE next = Releasing(row, row.last)
    <3> DEFINE end == Releasing(row, row.last)
    <3>1. /\ end.reserves = row.reserves /\ end.finals = row.finals + 1
          /\ end.last = row.last /\ end.held = row.held
          /\ end.charged = row.charged /\ end.released = row.released + row.last
      BY <1>0, ReleasingRow
    <3> HIDE DEF end
    <3>2. next = end
      BY <2>1 DEF end
    <3> QED BY <3>1, <3>2, RowColumns
  <2>2. CASE next = Charging(row, row.last)
    <3> DEFINE end == Charging(row, row.last)
    <3>1. /\ end.reserves = row.reserves /\ end.finals = row.finals + 1
          /\ end.last = row.last /\ end.held = row.held
          /\ end.charged = row.charged + row.last /\ end.released = row.released
      BY <1>0, ChargingRow
    <3> HIDE DEF end
    <3>2. next = end
      BY <2>2 DEF end
    <3> QED BY <3>1, <3>2, RowColumns
  <2> QED BY <2>1, <2>2
<1>2. HeldBy(next) = HeldBy(row) - row.last
  BY <1>1, RowColumns DEF HeldBy
<1>3. open \in Nat /\ open >= 1 /\ HeldBy(row) = open * row.last
  BY RowColumns DEF DirectRow
<1>4. next.reserves - next.finals = open - 1
  BY <1>1, RowColumns
<1>5. (open - 1) * row.last = open * row.last - row.last
  BY <1>0, <1>3
<1>6. next.finals <= next.reserves
  BY <1>1, RowColumns
<1> QED BY <1>1, <1>2, <1>3, <1>4, <1>5, <1>6 DEF DirectRow

(* A step on the row of one ref moves the sums of all refs with it.        *)
LEMMA SumsMove ==
    ASSUME LedgerType, IsFiniteSet(Refs), NEW ref \in Refs, NEW row \in Row,
           ledger' = [ledger EXCEPT ![ref] = row]
    PROVE  /\ SumFunction([r \in Refs |-> Outstanding(r)])'
                = SumFunction([r \in Refs |-> Outstanding(r)])
                    - HeldBy(ledger[ref]) + HeldBy(row)
           /\ SumFunction([r \in Refs |-> ledger[r].charged])'
                = SumFunction([r \in Refs |-> ledger[r].charged])
                    - ledger[ref].charged + row.charged
<1> DEFINE f == [r \in Refs |-> Outstanding(r)]
           g == [r \in Refs |-> ledger[r].charged]
<1>1. \A r \in Refs : ledger[r] \in Row
  BY DEF LedgerType
<1>2. f \in [Refs -> Int] /\ g \in [Refs -> Int]
  BY <1>1, RowColumns DEF Outstanding
<1>3. HeldBy(row) \in Int /\ row.charged \in Int
  BY RowColumns DEF HeldBy
<1>4. f' = [f EXCEPT ![ref] = HeldBy(row)]
  BY DEF LedgerType, Outstanding, HeldBy
<1>5. g' = [g EXCEPT ![ref] = row.charged]
  BY DEF LedgerType
<1>6. f[ref] = HeldBy(ledger[ref]) /\ g[ref] = ledger[ref].charged
  BY DEF Outstanding, HeldBy
<1> HIDE DEF f, g
<1>7. SumFunction(f)' = SumFunction(f) - f[ref] + HeldBy(row)
  BY <1>2, <1>3, <1>4, SumUpdate
<1>8. SumFunction(g)' = SumFunction(g) - g[ref] + row.charged
  BY <1>2, <1>3, <1>5, SumUpdate
<1> QED BY <1>6, <1>7, <1>8 DEF f, g

=============================================================================
