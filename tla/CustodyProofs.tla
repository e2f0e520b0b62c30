--------------------------- MODULE CustodyProofs ---------------------------
(***************************************************************************)
(* What is issued never passes what was deposited nor what was reported:   *)
(* for any number of assets, attestors, deposits and redemptions.          *)
(***************************************************************************)
EXTENDS Custody, SumTheorems

TypeInv ==
  /\ params \in ParamSets /\ ValidateParams(params)
  /\ assets \subseteq Denoms /\ attestors \subseteq AttestorIds
  /\ deposits \in [DepositIds -> Deposits \cup {None}]
  /\ redemptions \in [RedemptionIds -> Redemptions \cup {None}]
  /\ redeemSeq \in 0 .. MaxRedemptions
  /\ \A n \in RedemptionIds : n > redeemSeq => redemptions[n] = None
  /\ height \in Nat
  /\ claims \in [Denoms -> Nat] /\ fees \in [Denoms -> Nat]

\* A published figure is one that two attestors' reports reach.
Backed(r, d, held) ==
  /\ held \in Nat
  /\ \E a, b \in AttestorIds :
       /\ a # b /\ r[d][a] # None /\ r[d][b] # None
       /\ held <= r[d][a].held /\ held <= r[d][b].held

ReserveInv ==
  /\ reports \in [Denoms -> [AttestorIds -> Reports \cup {None}]]
  /\ reserves \in [Denoms -> Nat \cup {None}]
  /\ \A d \in Denoms : reserves[d] # None => Backed(reports, d, reserves[d])

IInv == TypeInv /\ ReserveInv /\ OwedIsDeposited
----------------------------------------------------------------------------
\* A finite set of reports has a lowest figure (recomputeReserve).
LEMMA LeastExists ==
  ASSUME NEW A, IsFiniteSet(A), NEW f, \A a \in A : f[a] \in Nat
  PROVE  A # {} => \E m \in A : \A a \in A : f[m] <= f[a]
<1> DEFINE Least(T) == T # {} => \E m \in T : \A a \in T : f[m] <= f[a]
           G == {T \in SUBSET A : Least(T)}
<1>1. ASSUME NEW T \in SUBSET A, \A U \in SUBSET T : U # T => U \in G
      PROVE  T \in G
  <2>1. SUFFICES ASSUME T # {} PROVE \E m \in T : \A a \in T : f[m] <= f[a]
    OBVIOUS
  <2>2. PICK x \in T : TRUE
    BY <2>1
  <2> DEFINE U == T \ {x}
  <2>3. Least(U)
    <3>1. U \in SUBSET T /\ U # T
      BY <2>2
    <3> HIDE DEF U, Least
    <3> QED BY <1>1, <3>1
  <2>4. CASE U = {}
    BY <2>2, <2>4
  <2>5. CASE U # {}
    <3>1. PICK m \in U : \A a \in U : f[m] <= f[a]
      BY <2>3, <2>5
    <3>2. CASE f[m] <= f[x]
      BY <3>1, <3>2
    <3>3. CASE f[x] <= f[m]
      BY <2>2, <3>1, <3>3
    <3>4. f[x] \in Nat /\ f[m] \in Nat
      BY <2>2, <3>1
    <3> QED BY <3>2, <3>3, <3>4
  <2> QED BY <2>4, <2>5
<1> HIDE DEF G
<1>2. SUBSET A \subseteq G
  BY <1>1, FiniteInduction
<1> QED BY <1>2 DEF G

\* Enough attestors are two different ones (Params.Validate).
LEMMA TwoOfThem ==
  ASSUME NEW A, IsFiniteSet(A), Cardinality(A) >= 2
  PROVE  \E a, b \in A : a # b
<1>1. PICK a \in A : TRUE
  BY FS_EmptySet
<1>2. A # {a}
  BY FS_Singleton
<1> QED BY <1>1, <1>2

\* A recomputed figure is absent or reached by two reports (recomputeReserve).
LEMMA Recomputed ==
  ASSUME TypeInv, NEW d \in Denoms,
         reports' \in [Denoms -> [AttestorIds -> Reports \cup {None}]]
  PROVE  /\ recomputeReserve(d) \in Nat \cup {None}
         /\ recomputeReserve(d) # None => Backed(reports', d, recomputeReserve(d))
<1> DEFINE S == Standing(d)
           f == [a \in S |-> reports'[d][a].held]
           M == {reports'[d][a].held : a \in S}
<1>1. S \subseteq AttestorIds /\ IsFiniteSet(S)
  BY FS_Subset, CustodyAssumption DEF Standing, TypeInv
<1>2. \A a \in S : reports'[d][a] # None /\ reports'[d][a] \in Reports /\ f[a] \in Nat
  BY <1>1 DEF Standing, Reports
<1>3. CASE Cardinality(S) < params.threshold
  BY <1>3 DEF recomputeReserve
<1>4. CASE ~(Cardinality(S) < params.threshold)
  <2>1. Cardinality(S) \in Nat /\ params.threshold \in Nat /\ params.threshold >= 2
    BY <1>1, FS_CardinalityType DEF TypeInv, ParamSets, ValidateParams
  <2>2. Cardinality(S) >= 2
    BY <1>4, <2>1
  <2>3. PICK a \in S, b \in S : a # b
    BY <1>1, <2>2, TwoOfThem
  <2>4. PICK m \in S : \A x \in S : f[m] <= f[x]
    <3> HIDE DEF S, f
    <3> QED BY <1>1, <1>2, <2>3, LeastExists
  <2>5. \E x \in M : \A y \in M : x =< y
    BY <2>4
  <2>6. Min(M) \in M /\ \A y \in M : Min(M) <= y
    <3> HIDE DEF M
    <3> QED BY <2>5 DEF Min
  <2>7. recomputeReserve(d) = Min(M)
    BY <1>4 DEF recomputeReserve
  <2>8. Min(M) \in Nat
    BY <1>2, <2>6 DEF Reports
  <2>9. Min(M) <= reports'[d][a].held /\ Min(M) <= reports'[d][b].held
    BY <2>3, <2>6
  <2> HIDE DEF M, f
  <2> QED BY <1>1, <1>2, <2>3, <2>7, <2>8, <2>9 DEF Backed
<1> QED BY <1>3, <1>4

\* The module's cut is between nothing and the whole (fee).
LEMMA FeeBounds ==
  ASSUME TypeInv, NEW amount \in Nat
  PROVE  fee(amount) \in Nat /\ fee(amount) <= amount
<1>1. params.feeBps \in Nat
  BY DEF TypeInv, ParamSets
<1>2. amount * params.feeBps \in Nat
  BY <1>1
<1>3. (amount * params.feeBps + 9999) \div 10000 \in Nat
  BY <1>2, SMT
<1> QED BY <1>3 DEF fee

\* What a denomination was deposited and owes are sums of numbers.
LEMMA SumsOfNumbers ==
  ASSUME TypeInv, NEW d \in Denoms
  PROVE  /\ IsFiniteSet(Refs) /\ IsFiniteSet(RedemptionIds)
         /\ \A x \in Refs : CreditOf(d)[x] \in Int
         /\ \A n \in RedemptionIds : DebtOf(d)[n] \in Int
         /\ SumFunctionOnSet(CreditOf(d), Refs) \in Int
         /\ SumFunctionOnSet(DebtOf(d), RedemptionIds) \in Int
         /\ issued(d) \in Int
<1>1. IsFiniteSet(Refs) /\ IsFiniteSet(RedemptionIds)
  BY CustodyAssumption, FS_Interval DEF RedemptionIds
<1>2. \A x \in Refs : CreditOf(d)[x] \in Int
  BY DEF TypeInv, CreditOf, Credited, DepositIds, Deposits
<1>3. \A n \in RedemptionIds : DebtOf(d)[n] \in Int
  BY DEF TypeInv, DebtOf, Redemptions
<1>4. SumFunctionOnSet(CreditOf(d), Refs) \in Int
  BY <1>1, <1>2, SumType
<1>5. SumFunctionOnSet(DebtOf(d), RedemptionIds) \in Int
  BY <1>1, <1>3, SumType
<1>6. issued(d) \in Int
  BY DEF TypeInv, issued
<1> QED BY <1>1, <1>2, <1>3, <1>4, <1>5, <1>6
----------------------------------------------------------------------------
\* Nothing is owed and nothing is reported at first (InitGenesis).
LEMMA InitIInv == Init => IInv
<1> SUFFICES ASSUME Init PROVE IInv
  OBVIOUS
<1>1. TypeInv
  BY CustodyAssumption DEF Init, TypeInv
<1>2. ReserveInv
  BY DEF Init, ReserveInv
<1>3. OwedIsDeposited
  <2> SUFFICES ASSUME NEW d \in Denoms
               PROVE  issued(d) + SumFunctionOnSet(DebtOf(d), RedemptionIds)
                        <= SumFunctionOnSet(CreditOf(d), Refs)
    BY DEF OwedIsDeposited
  <2>1. issued(d) = 0
    BY DEF Init, issued
  <2>2. \A x \in Refs : CreditOf(d)[x] = 0
    BY DEF Init, CreditOf, Credited, DepositIds
  <2>3. \A n \in RedemptionIds : DebtOf(d)[n] = 0
    BY DEF Init, DebtOf
  <2>4. IsFiniteSet(Refs) /\ IsFiniteSet(RedemptionIds)
    BY <1>1, SumsOfNumbers
  <2> QED BY <2>1, <2>2, <2>3, <2>4, SumZero
<1> QED BY <1>1, <1>2, <1>3 DEF IInv
----------------------------------------------------------------------------
\* Figures that nobody touches stay backed (the handlers of everything but
\* reports).
LEMMA ReservesStay ==
  ASSUME ReserveInv, UNCHANGED reserveVars
  PROVE  ReserveInv'
BY DEF ReserveInv, Backed, reserveVars

\* Without a deposit or a redemption, what is owed is covered as long as no
\* more is issued (WithdrawFees, and whatever moves no money).
LEMMA OwedStays ==
  ASSUME OwedIsDeposited, UNCHANGED <<deposits, redemptions>>,
         \A d \in Denoms : issued(d)' = issued(d)
  PROVE  OwedIsDeposited'
<1> SUFFICES ASSUME NEW d \in Denoms
             PROVE  issued(d)' + SumFunctionOnSet(DebtOf(d)', RedemptionIds)
                      <= SumFunctionOnSet(CreditOf(d)', Refs)
  BY DEF OwedIsDeposited
<1>1. CreditOf(d)' = CreditOf(d) /\ DebtOf(d)' = DebtOf(d)
  BY DEF CreditOf, Credited, DebtOf
<1> QED BY <1>1 DEF OwedIsDeposited

\* Governance and fees (RegisterAsset, SetAttestor, UpdateParams, WithdrawFees).
LEMMA GovernanceStep ==
  ASSUME IInv,
         \/ \E d \in Denoms : RegisterAsset(d) \/ \E m \in Amounts \cup {0} : WithdrawFees(d, m)
         \/ \E a \in AttestorIds, active \in BOOLEAN : SetAttestor(a, active)
         \/ \E p \in ParamChoices : UpdateParams(p)
  PROVE  IInv'
<1> USE DEF IInv
<1>1. CASE \E d \in Denoms : RegisterAsset(d)
  <2>1. TypeInv'
    BY <1>1 DEF RegisterAsset, TypeInv, ValidateParams, depositVars, redemptionVars, moneyVars
  <2>2. ReserveInv' /\ OwedIsDeposited'
    BY <1>1, ReservesStay, OwedStays
       DEF RegisterAsset, depositVars, redemptionVars, moneyVars, issued
  <2> QED BY <2>1, <2>2
<1>2. CASE \E a \in AttestorIds, active \in BOOLEAN : SetAttestor(a, active)
  <2>1. TypeInv'
    BY <1>2 DEF SetAttestor, TypeInv, ValidateParams, depositVars, redemptionVars, moneyVars
  <2>2. ReserveInv' /\ OwedIsDeposited'
    BY <1>2, ReservesStay, OwedStays
       DEF SetAttestor, depositVars, redemptionVars, moneyVars, issued
  <2> QED BY <2>1, <2>2
<1>3. CASE \E p \in ParamChoices : UpdateParams(p)
  <2>1. TypeInv'
    BY <1>3, CustodyAssumption
       DEF UpdateParams, TypeInv, ValidateParams, depositVars, redemptionVars, moneyVars
  <2>2. ReserveInv' /\ OwedIsDeposited'
    BY <1>3, ReservesStay, OwedStays
       DEF UpdateParams, depositVars, redemptionVars, moneyVars, issued
  <2> QED BY <2>1, <2>2
<1>4. ASSUME NEW d \in Denoms, NEW m \in Amounts \cup {0}, WithdrawFees(d, m) PROVE IInv'
  <2> DEFINE paid == IF m = 0 THEN fees[d] ELSE m
  <2>1. paid \in Nat /\ paid <= fees[d]
    BY <1>4, CustodyAssumption DEF WithdrawFees, TypeInv
  <2>2. claims' \in [Denoms -> Nat] /\ fees' \in [Denoms -> Nat]
    BY <1>4, <2>1 DEF WithdrawFees, TypeInv
  <2>3. TypeInv'
    BY <1>4, <2>2 DEF WithdrawFees, TypeInv, ValidateParams, registerVars, depositVars,
         redemptionVars
  <2>4. \A e \in Denoms : issued(e)' = issued(e)
    BY <1>4, <2>1 DEF WithdrawFees, TypeInv, issued
  <2>5. ReserveInv' /\ OwedIsDeposited'
    BY <1>4, <2>4, ReservesStay, OwedStays DEF WithdrawFees, depositVars, redemptionVars
  <2> QED BY <2>3, <2>5
<1> QED BY <1>1, <1>2, <1>3, <1>4

\* Reports, blocks and restarts (ReportReserve, NextBlock, InitGenesis).
LEMMA ReserveStep ==
  ASSUME IInv,
         \/ \E d \in Denoms, a \in AttestorIds, held \in Holdings : ReportReserve(a, d, held)
         \/ NextBlock \/ ExportAndImport
  PROVE  IInv'
<1> USE DEF IInv
<1>1. ASSUME NEW d \in Denoms, NEW a \in AttestorIds, NEW held \in Holdings,
             ReportReserve(a, d, held)
      PROVE  IInv'
  <2> DEFINE rep == [held |-> held, asOf |-> height]
  <2>1. rep \in Reports
    BY CustodyAssumption DEF TypeInv, Reports
  <2>2. reports' \in [Denoms -> [AttestorIds -> Reports \cup {None}]]
    BY <1>1, <2>1 DEF ReportReserve, ReserveInv
  <2>3. /\ recomputeReserve(d) \in Nat \cup {None}
        /\ recomputeReserve(d) # None => Backed(reports', d, recomputeReserve(d))
    BY <2>2, Recomputed
  <2>4. reserves' = [reserves EXCEPT ![d] = recomputeReserve(d)]
        /\ \A e \in Denoms : e # d => reports'[e] = reports[e]
    BY <1>1 DEF ReportReserve, ReserveInv
  <2>5. reserves' \in [Denoms -> Nat \cup {None}]
    BY <2>3, <2>4 DEF ReserveInv
  <2>6. ASSUME NEW e \in Denoms, reserves'[e] # None PROVE Backed(reports', e, reserves'[e])
    <3>1. CASE e = d
      BY <2>3, <2>4, <2>6, <3>1 DEF ReserveInv
    <3>2. CASE e # d
      <4>1. reserves'[e] = reserves[e] /\ Backed(reports, e, reserves[e])
        BY <2>4, <2>6, <3>2 DEF ReserveInv
      <4>2. reports'[e] = reports[e]
        BY <2>4, <3>2
      <4> QED BY <4>1, <4>2 DEF Backed
    <3> QED BY <3>1, <3>2
  <2>7. ReserveInv'
    BY <2>2, <2>5, <2>6 DEF ReserveInv
  <2>8. TypeInv'
    BY <1>1 DEF ReportReserve, TypeInv, ValidateParams, registerVars, depositVars,
         redemptionVars, moneyVars
  <2>9. OwedIsDeposited'
    BY <1>1, OwedStays DEF ReportReserve, depositVars, redemptionVars, moneyVars, issued
  <2> QED BY <2>7, <2>8, <2>9
<1>2. CASE NextBlock
  <2>1. TypeInv'
    BY <1>2 DEF NextBlock, TypeInv, ValidateParams, registerVars, depositVars,
         redemptionVars, moneyVars
  <2>2. ReserveInv' /\ OwedIsDeposited'
    BY <1>2, ReservesStay, OwedStays DEF NextBlock, depositVars, redemptionVars, moneyVars, issued
  <2> QED BY <2>1, <2>2
<1>3. CASE ExportAndImport
  <2>1. reports' \in [Denoms -> [AttestorIds -> Reports \cup {None}]]
    BY <1>3 DEF ExportAndImport, ReserveInv
  <2>2. \A d \in Denoms : /\ recomputeReserve(d) \in Nat \cup {None}
                          /\ recomputeReserve(d) # None => Backed(reports', d, recomputeReserve(d))
    BY <2>1, Recomputed
  <2>3. \A d \in Denoms : reserves'[d] \in {None, recomputeReserve(d)}
    BY <1>3 DEF ExportAndImport
  <2>4. reserves' \in [Denoms -> Nat \cup {None}]
    <3>1. reserves' = [d \in Denoms |-> reserves'[d]]
      BY <1>3 DEF ExportAndImport
    <3> QED BY <2>2, <2>3, <3>1
  <2>5. ReserveInv'
    BY <2>1, <2>2, <2>3, <2>4 DEF ReserveInv
  <2>6. TypeInv'
    BY <1>3 DEF ExportAndImport, TypeInv, ValidateParams, registerVars, moneyVars
  <2>7. OwedIsDeposited'
    BY <1>3, OwedStays DEF ExportAndImport, moneyVars, issued
  <2> QED BY <2>5, <2>6, <2>7
<1> QED BY <1>1, <1>2, <1>3
----------------------------------------------------------------------------
\* A deposit that is credited was not before, and what it adds to the claims
\* and fees of its denomination it adds to the deposits (AttestDeposit, credit).
LEMMA AttestStep ==
  ASSUME IInv, NEW a \in AttestorIds, NEW id \in DepositIds, NEW amount \in Amounts,
         AttestDeposit(a, id, amount)
  PROVE  IInv'
<1> USE DEF IInv
<1> DEFINE full == Cardinality(Attested(id)) + 1 >= params.threshold
           mine == id[1]
<1>1. amount \in Nat \ {0} /\ mine \in Denoms /\ id[2] \in Refs /\ id = <<mine, id[2]>>
  BY CustodyAssumption DEF DepositIds
<1>2. fee(amount) \in Nat /\ fee(amount) <= amount
  BY <1>1, FeeBounds
<1>3. UNCHANGED <<registerVars, redemptionVars, reserveVars, height>>
  BY DEF AttestDeposit
<1>4. ReserveInv'
  BY <1>3, ReservesStay
<1>5. ~Credited(id)
  BY DEF AttestDeposit, Credited
<1>6. CASE full
  <2>1. credit(mine, amount) /\ Recorded(id, amount, "credited")
    BY <1>6 DEF AttestDeposit
  <2>2. claims' \in [Denoms -> Nat] /\ fees' \in [Denoms -> Nat]
    BY <1>1, <1>2, <2>1 DEF credit, TypeInv
  <2>3. [amount |-> amount, status |-> "credited"] \in Deposits
    BY <1>1 DEF Deposits
  <2>4. deposits' \in [DepositIds -> Deposits \cup {None}]
    BY <2>1, <2>3 DEF Recorded, TypeInv
  <2>5. TypeInv'
    BY <1>3, <2>2, <2>4 DEF TypeInv, ValidateParams, registerVars, redemptionVars
  <2>6. ASSUME NEW d \in Denoms
        PROVE  issued(d)' + SumFunctionOnSet(DebtOf(d)', RedemptionIds)
                 <= SumFunctionOnSet(CreditOf(d)', Refs)
    <3>1. DebtOf(d)' = DebtOf(d)
      BY <1>3 DEF DebtOf, redemptionVars
    <3>2. CASE d = mine
      <4>1. issued(d)' = issued(d) + amount
        BY <1>1, <1>2, <2>1, <3>2 DEF credit, issued, TypeInv
      <4>2. Credited(id)' /\ deposits'[id].amount = amount
        BY <2>1, <2>3, NoneAssumption DEF Recorded, Credited, TypeInv
      <4>3. CreditOf(d)'[id[2]] = CreditOf(d)[id[2]] + amount
        BY <1>1, <1>5, <3>2, <4>2 DEF CreditOf
      <4>4. \A x \in Refs : x # id[2] => CreditOf(d)'[x] = CreditOf(d)[x]
        <5>1. \A x \in Refs : x # id[2] => <<d, x>> # id /\ <<d, x>> \in DepositIds
          BY <1>1 DEF DepositIds
        <5>2. \A x \in Refs : x # id[2] => deposits'[<<d, x>>] = deposits[<<d, x>>]
          BY <2>1, <5>1 DEF Recorded, TypeInv
        <5> QED BY <5>2 DEF CreditOf, Credited
      <4>5. SumFunctionOnSet(CreditOf(d)', Refs) = SumFunctionOnSet(CreditOf(d), Refs) + amount
        <5>1. IsFiniteSet(Refs) /\ \A x \in Refs : CreditOf(d)[x] \in Int
          BY SumsOfNumbers
        <5>2. amount \in Int /\ id[2] \in Refs
          BY <1>1
        <5> QED BY <4>3, <4>4, <5>1, <5>2, SumUpdate
      <4>6. issued(d) + SumFunctionOnSet(DebtOf(d), RedemptionIds)
              <= SumFunctionOnSet(CreditOf(d), Refs)
        BY DEF OwedIsDeposited
      <4> QED BY <1>1, <3>1, <4>1, <4>5, <4>6, SumsOfNumbers
    <3>3. CASE d # mine
      <4>1. issued(d)' = issued(d)
        BY <2>1, <3>3 DEF credit, issued, TypeInv
      <4>2. \A x \in Refs : <<d, x>> # id /\ <<d, x>> \in DepositIds
        BY <1>1, <3>3 DEF DepositIds
      <4>3. \A x \in Refs : deposits'[<<d, x>>] = deposits[<<d, x>>]
        BY <2>1, <4>2 DEF Recorded, TypeInv
      <4>4. CreditOf(d)' = CreditOf(d)
        BY <4>3 DEF CreditOf, Credited
      <4> QED BY <3>1, <4>1, <4>4 DEF OwedIsDeposited
    <3> QED BY <3>2, <3>3
  <2> QED BY <1>4, <2>5, <2>6 DEF OwedIsDeposited
<1>7. CASE ~full
  <2>1. UNCHANGED <<claims, fees>> /\ Recorded(id, amount, "pending")
    BY <1>7 DEF AttestDeposit
  <2>2. [amount |-> amount, status |-> "pending"] \in Deposits
    BY <1>1 DEF Deposits
  <2>3. deposits' \in [DepositIds -> Deposits \cup {None}]
    BY <2>1, <2>2 DEF Recorded, TypeInv
  <2>4. TypeInv'
    BY <1>3, <2>1, <2>3 DEF TypeInv, ValidateParams, registerVars, redemptionVars
  <2>5. ASSUME NEW d \in Denoms
        PROVE  issued(d)' + SumFunctionOnSet(DebtOf(d)', RedemptionIds)
                 <= SumFunctionOnSet(CreditOf(d)', Refs)
    <3>1. DebtOf(d)' = DebtOf(d) /\ issued(d)' = issued(d)
      BY <1>3, <2>1 DEF DebtOf, issued, redemptionVars
    <3>2. \A x \in Refs : <<d, x>> \in DepositIds
      BY DEF DepositIds
    <3>3. ~Credited(id)'
      BY <2>1, <2>2 DEF Recorded, Credited, TypeInv
    <3>4. \A x \in Refs : <<d, x>> # id => deposits'[<<d, x>>] = deposits[<<d, x>>]
      BY <2>1, <3>2 DEF Recorded, TypeInv
    <3>5. \A x \in Refs : CreditOf(d)'[x] = CreditOf(d)[x]
      BY <1>5, <3>3, <3>4 DEF CreditOf, Credited
    <3>6. SumFunctionOnSet(CreditOf(d)', Refs) = SumFunctionOnSet(CreditOf(d), Refs)
      BY <3>5, SumCong, SumsOfNumbers
    <3> QED BY <3>1, <3>6 DEF OwedIsDeposited
  <2> QED BY <1>4, <2>4, <2>5 DEF OwedIsDeposited
<1> QED BY <1>6, <1>7

\* A redemption takes more out of circulation than it promises to pay
\* (RequestRedemption).
LEMMA RequestStep ==
  ASSUME IInv, NEW d \in Denoms, NEW amount \in Amounts, RequestRedemption(d, amount)
  PROVE  IInv'
<1> USE DEF IInv
<1> DEFINE n == redeemSeq + 1
           r == [denom |-> d, amount |-> amount - fee(amount), status |-> "pending",
                 payableAt |-> height + params.delay, settledRef |-> None]
<1>1. amount \in Nat /\ amount <= claims[d] /\ n \in RedemptionIds /\ redeemSeq \in Nat
  BY CustodyAssumption DEF RequestRedemption, RedemptionIds, TypeInv
<1>2. fee(amount) \in Nat /\ fee(amount) <= amount
  BY <1>1, FeeBounds
<1>3. r \in Redemptions
  BY <1>1, <1>2 DEF Redemptions, TypeInv, ParamSets
<1>4. /\ claims' = [claims EXCEPT ![d] = @ - amount]
      /\ redeemSeq' = n
      /\ redemptions' = [redemptions EXCEPT ![n] = r]
      /\ UNCHANGED <<registerVars, depositVars, reserveVars, fees, height>>
  BY DEF RequestRedemption, burnt
<1> HIDE DEF r
<1>5. ReserveInv'
  BY <1>4, ReservesStay
<1>6. TypeInv'
  <2>1. claims' \in [Denoms -> Nat]
    BY <1>1, <1>4 DEF TypeInv
  <2>2. redemptions' \in [RedemptionIds -> Redemptions \cup {None}]
    BY <1>3, <1>4 DEF TypeInv
  <2>3. redeemSeq' \in 0 .. MaxRedemptions
    BY <1>1, <1>4, CustodyAssumption DEF RedemptionIds
  <2>4. \A k \in RedemptionIds : k > redeemSeq' => redemptions'[k] = None
    BY <1>1, <1>4 DEF TypeInv, RedemptionIds
  <2> QED BY <1>4, <2>1, <2>2, <2>3, <2>4 DEF TypeInv, ValidateParams, registerVars, depositVars
<1>7. ASSUME NEW e \in Denoms
      PROVE  issued(e)' + SumFunctionOnSet(DebtOf(e)', RedemptionIds)
               <= SumFunctionOnSet(CreditOf(e)', Refs)
  <2>1. CreditOf(e)' = CreditOf(e)
    BY <1>4 DEF CreditOf, Credited, depositVars
  <2>2. redemptions[n] = None
    BY <1>1 DEF TypeInv
  <2>3. \A k \in RedemptionIds : k # n => DebtOf(e)'[k] = DebtOf(e)[k]
    BY <1>4 DEF DebtOf, TypeInv
  <2>4. redemptions'[n] = r /\ r # None
    BY <1>1, <1>3, <1>4, NoneAssumption DEF TypeInv
  <2>5. CASE e = d
    <3>1. issued(e)' = issued(e) - amount
      BY <1>1, <1>4, <2>5 DEF issued, TypeInv
    <3>2. DebtOf(e)'[n] = DebtOf(e)[n] + (amount - fee(amount))
      BY <1>1, <1>2, <2>2, <2>4, <2>5 DEF DebtOf, r
    <3>3. SumFunctionOnSet(DebtOf(e)', RedemptionIds)
            = SumFunctionOnSet(DebtOf(e), RedemptionIds) + (amount - fee(amount))
      <4>1. IsFiniteSet(RedemptionIds) /\ \A k \in RedemptionIds : DebtOf(e)[k] \in Int
        BY SumsOfNumbers
      <4>2. amount - fee(amount) \in Int
        BY <1>1, <1>2
      <4> QED BY <1>1, <2>3, <3>2, <4>1, <4>2, SumUpdate
    <3>4. issued(e) + SumFunctionOnSet(DebtOf(e), RedemptionIds)
            <= SumFunctionOnSet(CreditOf(e), Refs)
      BY DEF OwedIsDeposited
    <3> QED BY <1>1, <1>2, <2>1, <3>1, <3>3, <3>4, SumsOfNumbers
  <2>6. CASE e # d
    <3>1. issued(e)' = issued(e)
      BY <1>4, <2>6 DEF issued, TypeInv
    <3>2. DebtOf(e)'[n] = DebtOf(e)[n]
      BY <1>1, <2>2, <2>4, <2>6 DEF DebtOf, r
    <3>3. SumFunctionOnSet(DebtOf(e)', RedemptionIds) = SumFunctionOnSet(DebtOf(e), RedemptionIds)
      BY <2>3, <3>2, SumCong, SumsOfNumbers
    <3> QED BY <2>1, <3>1, <3>3 DEF OwedIsDeposited
  <2> QED BY <2>5, <2>6
<1> QED BY <1>5, <1>6, <1>7 DEF OwedIsDeposited

\* Settling changes what is written beside a debt, not the debt
\* (SettleRedemption).
LEMMA SettleStep ==
  ASSUME IInv, NEW a \in AttestorIds, NEW n \in RedemptionIds, NEW ref \in Payouts,
         SettleRedemption(a, n, ref)
  PROVE  IInv'
<1> USE DEF IInv
<1> DEFINE r == redemptions[n]
           s == [r EXCEPT !.status = "settled", !.settledRef = ref]
<1>1. r \in Redemptions /\ r # None
  BY DEF SettleRedemption, TypeInv
<1>2. s \in Redemptions /\ s.denom = r.denom /\ s.amount = r.amount /\ s # None
  BY <1>1, NoneAssumption DEF Redemptions
<1>3. redemptions' = redemptions \/ redemptions' = [redemptions EXCEPT ![n] = s]
  BY DEF SettleRedemption
<1>4. UNCHANGED <<registerVars, depositVars, redeemSeq, reserveVars, moneyVars, height>>
  BY DEF SettleRedemption
<1>5. ReserveInv'
  BY <1>4, ReservesStay
<1>6. TypeInv'
  <2>1. redemptions' \in [RedemptionIds -> Redemptions \cup {None}]
    BY <1>2, <1>3 DEF TypeInv
  <2>2. \A k \in RedemptionIds : k > redeemSeq' => redemptions'[k] = None
    BY <1>1, <1>3, <1>4 DEF TypeInv
  <2> QED BY <1>4, <2>1, <2>2 DEF TypeInv, ValidateParams, registerVars, depositVars, moneyVars
<1>7. ASSUME NEW d \in Denoms
      PROVE  issued(d)' + SumFunctionOnSet(DebtOf(d)', RedemptionIds)
               <= SumFunctionOnSet(CreditOf(d)', Refs)
  <2>1. CreditOf(d)' = CreditOf(d) /\ issued(d)' = issued(d)
    BY <1>4 DEF CreditOf, Credited, issued, depositVars, moneyVars
  <2>2. \A k \in RedemptionIds : DebtOf(d)'[k] = DebtOf(d)[k]
    <3>1. CASE redemptions' = redemptions
      BY <3>1 DEF DebtOf
    <3>2. CASE redemptions' = [redemptions EXCEPT ![n] = s]
      <4>1. redemptions'[n] = s /\ \A k \in RedemptionIds : k # n => redemptions'[k] = redemptions[k]
        BY <3>2 DEF TypeInv
      <4> HIDE DEF s
      <4> QED BY <1>1, <1>2, <4>1 DEF DebtOf
    <3> QED BY <1>3, <3>1, <3>2
  <2>3. SumFunctionOnSet(DebtOf(d)', RedemptionIds) = SumFunctionOnSet(DebtOf(d), RedemptionIds)
    BY <2>2, SumCong, SumsOfNumbers
  <2> QED BY <2>1, <2>3 DEF OwedIsDeposited
<1> QED BY <1>5, <1>6, <1>7 DEF OwedIsDeposited
----------------------------------------------------------------------------
\* Every handler, every block and every restart keeps the books (Next).
LEMMA NextIInv == IInv /\ [Next]_vars => IInv'
<1> SUFFICES ASSUME IInv, [Next]_vars PROVE IInv'
  OBVIOUS
<1>1. CASE \/ \E d \in Denoms : RegisterAsset(d) \/ \E m \in Amounts \cup {0} : WithdrawFees(d, m)
           \/ \E a \in AttestorIds, active \in BOOLEAN : SetAttestor(a, active)
           \/ \E p \in ParamChoices : UpdateParams(p)
  BY <1>1, GovernanceStep
<1>2. CASE \/ \E d \in Denoms, a \in AttestorIds, held \in Holdings : ReportReserve(a, d, held)
           \/ NextBlock \/ ExportAndImport
  BY <1>2, ReserveStep
<1>3. CASE \E a \in AttestorIds, id \in DepositIds, m \in Amounts : AttestDeposit(a, id, m)
  BY <1>3, AttestStep
<1>4. CASE \E d \in Denoms, m \in Amounts : RequestRedemption(d, m)
  BY <1>4, RequestStep
<1>5. CASE \E a \in AttestorIds, n \in RedemptionIds, ref \in Payouts : SettleRedemption(a, n, ref)
  BY <1>5, SettleStep
<1>6. CASE UNCHANGED vars
  <2>1. TypeInv'
    BY <1>6 DEF IInv, TypeInv, ValidateParams, vars, registerVars, depositVars, redemptionVars,
         moneyVars
  <2>2. ReserveInv' /\ OwedIsDeposited'
    BY <1>6, ReservesStay, OwedStays DEF IInv, vars, depositVars, redemptionVars, moneyVars, issued
  <2> QED BY <2>1, <2>2 DEF IInv
<1> QED BY <1>1, <1>2, <1>3, <1>4, <1>5, <1>6 DEF Next

\* The invariant holds throughout (the module's whole life).
THEOREM Invariance == Spec => []IInv
<1>1. Init => IInv
  BY InitIInv
<1>2. IInv /\ [Next]_vars => IInv'
  BY NextIInv
<1> QED BY <1>1, <1>2, PTL DEF Spec

\* Claims in circulation, fees and debts never pass what was deposited, for
\* any number of deposits, restarts and changes of the threshold or the fee.
THEOREM OwedWasDeposited == Spec => []OwedIsDeposited
BY Invariance, PTL DEF IInv

\* More is issued only when the published figure covers it (credit).
LEMMA IssuedByCredit ==
  ASSUME IInv, Next, NEW d \in Denoms, issued(d)' > issued(d)
  PROVE  /\ reserves[d] # None /\ issued(d)' <= reserves[d]
<1> USE DEF IInv
<1>1. CASE \/ \E a \in AttestorIds, active \in BOOLEAN : SetAttestor(a, active)
           \/ \E p \in ParamChoices : UpdateParams(p)
           \/ \E e \in Denoms : RegisterAsset(e)
           \/ \E e \in Denoms, a \in AttestorIds, held \in Holdings : ReportReserve(a, e, held)
           \/ \E a \in AttestorIds, n \in RedemptionIds, ref \in Payouts : SettleRedemption(a, n, ref)
           \/ NextBlock \/ ExportAndImport
  <2>1. UNCHANGED <<claims, fees>>
    BY <1>1 DEF SetAttestor, UpdateParams, RegisterAsset, ReportReserve, SettleRedemption,
         NextBlock, ExportAndImport, moneyVars
  <2>2. issued(d)' = issued(d) /\ issued(d) \in Int
    BY <2>1 DEF issued, TypeInv
  <2> QED BY <2>2
<1>2. ASSUME NEW e \in Denoms, NEW m \in Amounts \cup {0}, WithdrawFees(e, m) PROVE FALSE
  <2> DEFINE paid == IF m = 0 THEN fees[e] ELSE m
  <2>1. paid \in Nat
    BY CustodyAssumption DEF TypeInv
  <2>2. issued(d)' = issued(d) /\ issued(d) \in Int
    BY <1>2, <2>1 DEF WithdrawFees, issued, TypeInv
  <2> QED BY <2>2
<1>3. ASSUME NEW e \in Denoms, NEW m \in Amounts, RequestRedemption(e, m) PROVE FALSE
  <2>1. m \in Nat
    BY CustodyAssumption
  <2>2. claims' = [claims EXCEPT ![e] = @ - m] /\ fees' = fees
    BY <1>3 DEF RequestRedemption, burnt
  <2>3. issued(d)' <= issued(d) /\ issued(d) \in Int /\ issued(d)' \in Int
    BY <2>1, <2>2 DEF issued, TypeInv
  <2> QED BY <2>3
<1>4. ASSUME NEW a \in AttestorIds, NEW id \in DepositIds, NEW m \in Amounts,
             AttestDeposit(a, id, m)
      PROVE  reserves[d] # None /\ issued(d)' <= reserves[d]
  <2>1. m \in Nat /\ fee(m) \in Nat /\ id[1] \in Denoms
    BY CustodyAssumption, FeeBounds DEF DepositIds
  <2>2. CASE UNCHANGED <<claims, fees>>
    <3>1. issued(d)' = issued(d) /\ issued(d) \in Int
      BY <2>2 DEF issued, TypeInv
    <3> QED BY <3>1
  <2>3. CASE credit(id[1], m)
    <3>1. CASE d = id[1]
      <4>1. issued(d)' = issued(d) + m
        BY <2>1, <2>3, <3>1 DEF credit, issued, TypeInv
      <4> QED BY <2>3, <3>1, <4>1 DEF credit
    <3>2. CASE d # id[1]
      <4>1. issued(d)' = issued(d) /\ issued(d) \in Int
        BY <2>3, <3>2 DEF credit, issued, TypeInv
      <4> QED BY <4>1
    <3> QED BY <3>1, <3>2
  <2> QED BY <1>4, <2>2, <2>3 DEF AttestDeposit
<1> QED BY <1>1, <1>2, <1>3, <1>4 DEF Next

\* More is issued only up to what two attestors at least have each said is
\* held, whoever has been struck off since and however old the reports are.
THEOREM IssuedWasReported == Spec => IssuedIsReported
<1> DEFINE Reported(d) ==
             issued(d)' > issued(d) =>
               \E a, b \in AttestorIds :
                 /\ a # b /\ reports[d][a] # None /\ reports[d][b] # None
                 /\ issued(d)' <= reports[d][a].held /\ issued(d)' <= reports[d][b].held
<1>1. IInv /\ IInv' /\ Next => \A d \in Denoms : Reported(d)
  <2> SUFFICES ASSUME IInv, IInv', Next, NEW d \in Denoms, issued(d)' > issued(d)
               PROVE  \E a, b \in AttestorIds :
                        /\ a # b /\ reports[d][a] # None /\ reports[d][b] # None
                        /\ issued(d)' <= reports[d][a].held /\ issued(d)' <= reports[d][b].held
    OBVIOUS
  <2>1. reserves[d] # None /\ issued(d)' <= reserves[d]
    BY IssuedByCredit
  <2>2. PICK a \in AttestorIds, b \in AttestorIds :
          /\ a # b /\ reports[d][a] # None /\ reports[d][b] # None
          /\ reserves[d] \in Nat
          /\ reserves[d] <= reports[d][a].held /\ reserves[d] <= reports[d][b].held
    BY <2>1 DEF IInv, ReserveInv, Backed
  <2>3. reports[d][a].held \in Nat /\ reports[d][b].held \in Nat
    BY <2>2 DEF IInv, ReserveInv, Reports
  <2>4. issued(d)' \in Int
    BY DEF IInv, TypeInv, issued
  <2> QED BY <2>1, <2>2, <2>3, <2>4
<1> HIDE DEF Reported
<1>2. IInv /\ IInv' /\ [Next]_vars => [\A d \in Denoms : Reported(d)]_vars
  BY <1>1
<1>3. Spec => [][\A d \in Denoms : Reported(d)]_vars
  BY <1>2, Invariance, PTL DEF Spec
<1> QED BY <1>3 DEF IssuedIsReported, Reported
=============================================================================
