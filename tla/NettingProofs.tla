--------------------------- MODULE NettingProofs ---------------------------
(***************************************************************************)
(* x/netting for any number of participants, currencies and cycles: first  *)
(* type correctness, one lemma per group of actions; then the safety       *)
(* argument: commitments stay within reserves, reserves are backed by the  *)
(* module account, slices sum to zero, and a chain that starts with        *)
(* nothing held never holds a slice.                                       *)
(*                                                                         *)
(* The second half is about what the module remembers.  A cycle, its       *)
(* outcomes and the retry queue tell one story (RecordInv), so what is     *)
(* committed is what the unsettled slices owe (CommittedAlwaysOwed); from  *)
(* it follow that an export can be imported (ExportAlwaysImportable), that *)
(* the module implements SettlementPromise (SettlementPromiseKept), and,   *)
(* until a restart, that the queue is the record (QueueAlwaysMatches).     *)
(***************************************************************************)
EXTENDS Netting, SumTheorems

\* The next cycle number is one the model has room for while the end blocker
\* is on its way to openCycle.
RoomForNext == phase # "deliver" => cycleSeq \in Cycles

\* The inductive form of TypeOK.
TypeInv == TypeOK /\ RoomForNext

\* The debit side of a position is a natural number that covers what it owes.
LEMMA DebitType ==
  \A k \in Int : /\ DebitOf(k) \in Nat /\ (k >= 0 => DebitOf(k) = 0)
                 /\ DebitOf(k) >= -k /\ k + DebitOf(k) >= 0
BY DEF DebitOf

\* The value a slice moves is a natural number.
LEMMA DebitsType ==
  ASSUME NEW pos \in [Participants -> Int]
  PROVE  Debits(pos) \in Nat
<1> DEFINE f == [p \in Participants |-> DebitOf(pos[p])]
<1>1. \A p \in Participants : f[p] \in Nat
  BY DebitType
<1> HIDE DEF f
<1>2. SumFunctionOnSet(f, Participants) \in Nat
  BY <1>1, SumNat, FiniteAssumption
<1> QED BY <1>2 DEF Debits, f

\* There are finitely many cycles.
LEMMA CyclesFinite == IsFiniteSet(Cycles)
BY BoundAssumption, FS_Interval DEF Cycles

\* There are finitely many slices.
LEMMA SlicesFinite == \A S \in SUBSET Slices : IsFiniteSet(S)
BY CyclesFinite, FiniteAssumption, FS_Product, FS_Subset DEF Slices

\* What InitGenesis rebuilds as committed is a natural number.
LEMMA OwedType ==
  ASSUME NEW g, g.position \in [Cycles -> [Denoms -> [Participants -> Int]]],
         NEW p \in Participants, NEW d \in Denoms
  PROVE  OwedUnsettled(g, p, d) \in Nat
<1> DEFINE f == [c \in Cycles |-> IF SliceUnsettled(g, c, d) THEN DebitOf(g.position[c][d][p]) ELSE 0]
<1>1. \A c \in Cycles : f[c] \in Nat
  BY DebitType
<1> HIDE DEF f
<1>2. SumFunctionOnSet(f, Cycles) \in Nat
  BY <1>1, SumNat, CyclesFinite
<1> QED BY <1>2 DEF OwedUnsettled, f

\* The order of the store keys is a linear order of the slices.
LEMMA BeforeOrder ==
  /\ \A s, t \in Slices : s # t => Before(s, t) \/ Before(t, s)
  /\ \A s, t, u \in Slices : Before(s, t) /\ Before(t, u) => Before(s, u)
<1>1. \A s \in Slices : s = <<s[1], s[2]>> /\ s[1] \in Int /\ s[2] \in Int
  <2>1. Cycles \subseteq Int /\ Denoms \subseteq Int
    BY FiniteAssumption, BoundAssumption DEF Cycles
  <2>2. \A s \in Cycles \X Denoms : s = <<s[1], s[2]>> /\ s[1] \in Cycles /\ s[2] \in Denoms
    OBVIOUS
  <2> QED BY <2>1, <2>2 DEF Slices
<1>2. ASSUME NEW s \in Slices, NEW t \in Slices, s # t
      PROVE  Before(s, t) \/ Before(t, s)
  <2>1. s[1] # t[1] \/ s[2] # t[2]
    BY <1>1, <1>2
  <2>2. s[1] \in Int /\ s[2] \in Int /\ t[1] \in Int /\ t[2] \in Int
    BY <1>1
  <2> QED BY <2>1, <2>2 DEF Before
<1>3. ASSUME NEW s \in Slices, NEW t \in Slices, NEW u \in Slices, Before(s, t), Before(t, u)
      PROVE  Before(s, u)
  <2>1. s[1] \in Int /\ s[2] \in Int /\ t[1] \in Int /\ t[2] \in Int /\ u[1] \in Int /\ u[2] \in Int
    BY <1>1
  <2> QED BY <1>3, <2>1 DEF Before
<1> QED BY <1>2, <1>3

\* A non-empty finite set of slices has a last one, which a full walk leaves
\* its cursor on.
LEMMA LastExists ==
  ASSUME NEW S \in SUBSET Slices, IsFiniteSet(S), S # {}
  PROVE  Last(S) \in S
<1> DEFINE top(T) == \E s \in T : \A t \in T \ {s} : Before(t, s)
           G == {T \in SUBSET S : T # {} => top(T)}
<1>1. ASSUME NEW T \in SUBSET S, \A U \in SUBSET T : U # T => U \in G
      PROVE  T \in G
  <2>1. SUFFICES ASSUME T # {} PROVE top(T)
    OBVIOUS
  <2>2. PICK x \in T : TRUE
    BY <2>1
  <2>3. CASE T \ {x} = {}
    BY <2>3
  <2>4. CASE T \ {x} # {}
    <3>1. T \ {x} \in G
      BY <1>1
    <3>2. PICK m \in T \ {x} : \A t \in (T \ {x}) \ {m} : Before(t, m)
      BY <2>4, <3>1
    <3>3. x \in Slices /\ m \in Slices /\ x # m /\ T \subseteq Slices
      BY <3>2
    <3>4. CASE Before(x, m)
      <4>1. \A t \in T \ {m} : Before(t, m)
        BY <3>2, <3>4
      <4> QED BY <4>1
    <3>5. CASE Before(m, x)
      <4>1. \A t \in T \ {x} : Before(t, x)
        BY <3>2, <3>3, <3>5, BeforeOrder
      <4> QED BY <4>1
    <3> QED BY <3>3, <3>4, <3>5, BeforeOrder
  <2> QED BY <2>3, <2>4
<1>2. SUBSET S \subseteq G
  <2> HIDE DEF G
  <2> QED BY <1>1, FiniteInduction
<1>3. top(S)
  BY <1>2
<1> QED BY <1>3 DEF Last

\* A bounded walk visits members of the set it walks.
LEMMA VisitedType ==
  ASSUME NEW S \in SUBSET Slices, NEW cursor
  PROVE  Visited(S, cursor) \in SUBSET S
BY DEF Visited, Ahead

\* The cursor is left on a slice, or cleared.
LEMMA CursorType ==
  ASSUME NEW S \in SUBSET Slices, IsFiniteSet(S), NEW cursor
  PROVE  AdvanceCursor(S, cursor) \in Slices \cup {NoSlice}
<1> DEFINE V == Visited(S, cursor)
<1>1. V \in SUBSET Slices /\ IsFiniteSet(V)
  BY VisitedType, FS_Subset
<1> HIDE DEF V
<1>2. CASE Cardinality(V) < MaxSlices
  BY <1>2 DEF AdvanceCursor, V
<1>3. CASE ~ (Cardinality(V) < MaxSlices)
  <2>1. V # {}
    BY <1>3, FS_EmptySet, BoundAssumption
  <2>2. Last(V) \in Slices
    BY <1>1, <2>1, LastExists
  <2> QED BY <1>3, <2>2 DEF AdvanceCursor, V
<1> QED BY <1>2, <1>3

\* InitGenesis establishes the types.
LEMMA InitType == Init => TypeInv
<1> SUFFICES ASSUME NEW g \in Genesis, Validate(g), InitFrom(g) PROVE TypeInv
  BY DEF Init
<1>1. g \in GenesisStates
  BY GenesisAssumption
<1>2. g.position \in [Cycles -> [Denoms -> [Participants -> Int]]]
      /\ g.reserve \in [Participants -> [Denoms -> Nat]]
  BY <1>1 DEF GenesisStates
<1>3. locked \in [Participants -> [Denoms -> Nat]]
  BY <1>2, OwedType DEF InitFrom, RebuiltFrom, LockedFrom
<1>4. custody \in [Denoms -> Nat]
  <2>1. ASSUME NEW d \in Denoms
        PROVE  SumFunctionOnSet([p \in Participants |-> g.reserve[p][d]], Participants) \in Nat
    <3> DEFINE f == [p \in Participants |-> g.reserve[p][d]]
    <3>1. \A p \in Participants : f[p] \in Nat
      BY <1>2
    <3> HIDE DEF f
    <3>2. SumFunctionOnSet(f, Participants) \in Nat
      BY <3>1, SumNat, FiniteAssumption
    <3> QED BY <3>2 DEF f
  <2> QED BY <2>1 DEF InitFrom
<1>5. /\ params \in ParamSets /\ currentCycle \in Cycles /\ cycleSeq \in Nat \ {0}
      /\ cycleStatus \in [Cycles -> SliceStatus]
      /\ outcome \in [Cycles -> [Denoms -> Outcomes]]
      /\ obligations \in Seq(Obligations)
      /\ position \in [Cycles -> [Denoms -> [Participants -> Int]]]
      /\ reserve \in [Participants -> [Denoms -> Nat]]
  <2>1. /\ g.params \in ParamSets /\ g.currentCycle \in Cycles /\ g.cycleCount \in Nat
        /\ g.cycleStatus \in [Cycles -> SliceStatus]
        /\ g.outcome \in [Cycles -> [Denoms -> Outcomes]]
        /\ g.obligations \in Seq(Obligations)
    BY <1>1 DEF GenesisStates
  <2>2. g.cycleCount > 0
    BY DEF Validate, ValidateCycles
  <2> QED BY <1>2, <2>1, <2>2 DEF InitFrom
<1>6. /\ held \subseteq Slices /\ heldSince \in [Slices -> Nat]
      /\ nettedTotal \in [Cycles -> [Denoms -> [Participants -> Nat]]]
  BY DEF InitFrom, RebuiltFrom, HeldFrom
<1>7. /\ balance \in [Participants -> [Denoms -> Nat]]
      /\ approved \subseteq Participants
      /\ height \in 0 .. HeightPeriod - 1
  BY BoundAssumption, HeightAssumption, ApplicantsAssumption DEF InitFrom
<1> QED BY <1>3, <1>4, <1>5, <1>6, <1>7 DEF InitFrom, TypeInv, TypeOK, RoomForNext


\* Every coin of a message is a natural number.
LEMMA CoinsType == \A coins \in Coins : coins \in [Denoms -> Nat]
<1>1. Amounts \cup {0} \subseteq Nat
  BY BoundAssumption
<1> QED BY <1>1 DEF Coins

\* A transfer between two entries of a position row.
LEMMA MovedType ==
  ASSUME NEW P, NEW row \in [P -> Int], NEW a \in P, NEW b \in P, NEW k \in Int
  PROVE  Moved(row, a, b, k) \in [P -> Int]
BY DEF Moved

\* The change of a commitment is an integer.
LEMMA LockDeltaType == \A i, j \in Int : LockDelta(i, j) \in Int
BY DEF LockDelta, DebitOf

\* The updates the handlers make to a slice's outcome.
LEMMA OutcomeUpdates ==
  ASSUME NEW o \in Outcomes, NEW k \in Nat
  PROVE  /\ Submitted(o, k) \in Outcomes /\ AbandonedOutcome(o) \in Outcomes
         /\ HeldOutcome(o) \in Outcomes /\ CancelledOutcome(o) \in Outcomes
         /\ SettledOutcome(o, k) \in Outcomes
<1>1. o.gross + k \in Nat /\ (IF o.status = "none" THEN "open" ELSE o.status) \in SliceStatus
  BY DEF Outcomes, SliceStatus
<1>2. Submitted(o, k) \in Outcomes
  BY <1>1 DEF Submitted, Outcomes
<1>3. AbandonedOutcome(o) \in Outcomes
  BY DEF AbandonedOutcome, Outcomes, Reasons
<1>4. HeldOutcome(o) \in Outcomes
  BY DEF HeldOutcome, Outcomes, Reasons, SliceStatus
<1>5. CancelledOutcome(o) \in Outcomes
  BY DEF CancelledOutcome, Outcomes, SliceStatus
<1>6. SettledOutcome(o, k) \in Outcomes
  BY DEF SettledOutcome, Outcomes, SliceStatus, Reasons
<1> QED BY <1>2, <1>3, <1>4, <1>5, <1>6

\* The entries of the tables.
LEMMA Entries ==
  ASSUME TypeOK, NEW c \in Cycles, NEW d \in Denoms
  PROVE  /\ position[c][d] \in [Participants -> Int]
         /\ outcome[c][d] \in Outcomes
         /\ nettedTotal[c][d] \in [Participants -> Nat]
         /\ \A p \in Participants : /\ position[c][d][p] \in Int
                                    /\ nettedTotal[c][d][p] \in Nat
                                    /\ reserve[p][d] \in Nat
                                    /\ locked[p][d] \in Nat
                                    /\ balance[p][d] \in Nat
BY DEF TypeOK

\* An obligation that is recorded is an obligation.
LEMMA RecordType ==
  ASSUME TypeOK, NEW from \in Participants, NEW to \in Participants, NEW d \in Denoms,
         NEW amount \in Nat, NEW mode \in {"gross", "net"}, Record(from, to, d, amount, mode)
  PROVE  obligations' \in Seq(Obligations)
<1> DEFINE o == [cycle |-> currentCycle, from |-> from, to |-> to, denom |-> d,
                 amount |-> amount, mode |-> mode]
<1>1. o \in Obligations
  BY DEF TypeOK, Obligations
<1>2. obligations' = Append(obligations, o) /\ obligations \in Seq(Obligations)
  BY DEF Record, TypeOK
<1> HIDE DEF o
<1> QED BY <1>1, <1>2

\* SubmitObligation, in the netted mode, keeps the types of what it writes.
LEMMA SubmitNetType ==
  ASSUME TypeOK, NEW from \in Participants, NEW to \in Participants, NEW d \in Denoms,
         NEW amount \in Nat, SubmitNet(from, to, d, amount)
  PROVE  /\ position' \in [Cycles -> [Denoms -> [Participants -> Int]]]
         /\ locked' \in [Participants -> [Denoms -> Nat]]
         /\ outcome' \in [Cycles -> [Denoms -> Outcomes]]
         /\ nettedTotal' \in [Cycles -> [Denoms -> [Participants -> Nat]]]
<1> DEFINE row == position[currentCycle][d]
           x == LockDelta(row[from], row[from] - amount)
           y == LockDelta(row[to], row[to] + amount)
           o == outcome[currentCycle][d]
           v == nettedTotal[currentCycle][d][from] + amount
<1>0. currentCycle \in Cycles
  BY DEF TypeOK
<1>1. /\ position' = [position EXCEPT ![currentCycle][d] = Moved(row, from, to, amount)]
      /\ locked[from][d] + x >= 0 /\ locked[to][d] + y >= 0
      /\ locked' = [locked EXCEPT ![from][d] = @ + x, ![to][d] = @ + y]
      /\ outcome' = [outcome EXCEPT ![currentCycle][d] =
           Submitted(o, amount)]
      /\ nettedTotal' = [nettedTotal EXCEPT ![currentCycle][d][from] = v]
  <2>1. position' = [position EXCEPT ![currentCycle][d] = Moved(row, from, to, amount)]
    BY DEF SubmitNet, ApplyToPositions
  <2>2. /\ locked[from][d] + x >= 0 /\ locked[to][d] + y >= 0
        /\ locked' = [locked EXCEPT ![from][d] = @ + x, ![to][d] = @ + y]
    BY DEF SubmitNet, ApplyToPositions
  <2>3. /\ outcome' = [outcome EXCEPT ![currentCycle][d] =
             Submitted(o, amount)]
        /\ nettedTotal' = [nettedTotal EXCEPT ![currentCycle][d][from] = v]
    BY DEF SubmitNet
  <2> QED BY <2>1, <2>2, <2>3
<1>2. /\ row \in [Participants -> Int] /\ row[from] \in Int /\ row[to] \in Int
      /\ o \in Outcomes /\ v \in Nat
      /\ locked[from][d] \in Nat /\ locked[to][d] \in Nat
  BY <1>0, Entries
<1> HIDE DEF row, o, v
<1>3. x \in Int /\ y \in Int
  <2>1. row[from] - amount \in Int /\ row[to] + amount \in Int
    BY <1>2
  <2> QED BY <1>2, <2>1, LockDeltaType
<1> HIDE DEF x, y
<1>4. position' \in [Cycles -> [Denoms -> [Participants -> Int]]]
  <2> DEFINE R == [Participants -> Int]
             new == Moved(row, from, to, amount)
  <2>0. new \in R
    BY <1>2, MovedType
  <2>1. position \in [Cycles -> [Denoms -> R]]
    BY DEF TypeOK
  <2>2. position' = [position EXCEPT ![currentCycle][d] = new]
    BY <1>1
  <2> HIDE DEF R, new
  <2>3. position' \in [Cycles -> [Denoms -> R]]
    BY <1>0, <2>0, <2>1, <2>2
  <2> QED BY <2>3 DEF R
<1>5. locked' \in [Participants -> [Denoms -> Nat]]
  <2>1. locked[from][d] + x \in Nat /\ locked[to][d] + y \in Nat
    BY <1>1, <1>2, <1>3
  <2>2. from # to
    BY DEF SubmitNet, MayOwe
  <2>3. locked \in [Participants -> [Denoms -> Nat]]
    BY DEF TypeOK
  <2> QED BY <1>1, <2>1, <2>2, <2>3
<1>6. outcome' \in [Cycles -> [Denoms -> Outcomes]]
  <2> DEFINE new == Submitted(o, amount)
  <2>1. new \in Outcomes /\ outcome \in [Cycles -> [Denoms -> Outcomes]]
    BY <1>2, OutcomeUpdates DEF TypeOK
  <2>2. outcome' = [outcome EXCEPT ![currentCycle][d] = new]
    BY <1>1
  <2> HIDE DEF new
  <2> QED BY <1>0, <2>1, <2>2
<1>7. nettedTotal' \in [Cycles -> [Denoms -> [Participants -> Nat]]]
  <2> DEFINE R == [Participants -> Nat]
             new == [nettedTotal[currentCycle][d] EXCEPT ![from] = v]
  <2>1. nettedTotal \in [Cycles -> [Denoms -> R]]
    BY DEF TypeOK
  <2>2. new \in R
    BY <1>0, <1>2, Entries
  <2>3. nettedTotal' = [nettedTotal EXCEPT ![currentCycle][d] = new]
    BY <1>1
  <2> HIDE DEF R, new
  <2>4. nettedTotal' \in [Cycles -> [Denoms -> R]]
    BY <1>0, <2>1, <2>2, <2>3
  <2> QED BY <2>4 DEF R
<1> QED BY <1>4, <1>5, <1>6, <1>7

\* Taking coins out of one participant's row of a table, or putting them in.
LEMMA RowType ==
  ASSUME NEW P, NEW D, NEW table \in [P -> [D -> Nat]], NEW p \in P, NEW new \in [D -> Nat]
  PROVE  [table EXCEPT ![p] = new] \in [P -> [D -> Nat]]
OBVIOUS

\* PostReserve, WithdrawReserve, SubmitGross, SubmitNet and the approval of
\* an applicant keep the types.
LEMMA MessagesType == TypeInv /\ Messages => TypeInv'
<1> SUFFICES ASSUME TypeInv, Messages PROVE TypeInv'
  OBVIOUS
<1>0. /\ reserve \in [Participants -> [Denoms -> Nat]]
      /\ balance \in [Participants -> [Denoms -> Nat]]
      /\ locked \in [Participants -> [Denoms -> Nat]]
      /\ custody \in [Denoms -> Nat]
  BY DEF TypeInv, TypeOK
<1>1. ASSUME NEW p \in Participants, NEW coins \in Coins, PostReserve(p, coins) PROVE TypeInv'
  <2> DEFINE r == [d \in Denoms |-> reserve[p][d] + coins[d]]
             b == [d \in Denoms |-> balance[p][d] - coins[d]]
  <2>1. coins \in [Denoms -> Nat] /\ \A d \in Denoms : coins[d] <= balance[p][d]
    BY <1>1, CoinsType DEF PostReserve
  <2>2. r \in [Denoms -> Nat] /\ b \in [Denoms -> Nat]
    BY <1>0, <2>1
  <2>3. reserve' = [reserve EXCEPT ![p] = r] /\ balance' = [balance EXCEPT ![p] = b]
    BY <1>0, <1>1 DEF PostReserve
  <2>4. custody' \in [Denoms -> Nat]
    BY <1>0, <1>1, <2>1 DEF PostReserve
  <2> HIDE DEF r, b
  <2>5. reserve' \in [Participants -> [Denoms -> Nat]] /\ balance' \in [Participants -> [Denoms -> Nat]]
    BY <1>0, <2>2, <2>3, RowType
  <2> QED BY <1>1, <2>4, <2>5
       DEF PostReserve, TypeInv, TypeOK, RoomForNext, blockVars, cycleVars, holdVars
<1>2. ASSUME NEW p \in Participants, NEW coins \in Coins, WithdrawReserve(p, coins) PROVE TypeInv'
  <2> DEFINE r == [d \in Denoms |-> reserve[p][d] - coins[d]]
             b == [d \in Denoms |-> balance[p][d] + coins[d]]
  <2>1. coins \in [Denoms -> Nat] /\ \A d \in Denoms : coins[d] <= reserve[p][d] /\ coins[d] <= custody[d]
    BY <1>0, <1>2, CoinsType DEF WithdrawReserve, Available
  <2>2. r \in [Denoms -> Nat] /\ b \in [Denoms -> Nat]
    BY <1>0, <2>1
  <2>3. reserve' = [reserve EXCEPT ![p] = r] /\ balance' = [balance EXCEPT ![p] = b]
    BY <1>0, <1>2 DEF WithdrawReserve
  <2>4. custody' \in [Denoms -> Nat]
    BY <1>0, <1>2, <2>1 DEF WithdrawReserve
  <2> HIDE DEF r, b
  <2>5. reserve' \in [Participants -> [Denoms -> Nat]] /\ balance' \in [Participants -> [Denoms -> Nat]]
    BY <1>0, <2>2, <2>3, RowType
  <2> QED BY <1>2, <2>4, <2>5
       DEF WithdrawReserve, TypeInv, TypeOK, RoomForNext, blockVars, cycleVars, holdVars
<1>3. ASSUME NEW from \in Participants, NEW to \in Participants, NEW d \in Denoms,
             NEW amount \in Amounts, SubmitGross(from, to, d, amount)
      PROVE  TypeInv'
  <2>1. amount \in Nat /\ amount <= balance[from][d] /\ from # to
    BY <1>3, BoundAssumption DEF SubmitGross, MayOwe
  <2>2. balance' \in [Participants -> [Denoms -> Nat]]
    <3>1. balance' = [balance EXCEPT ![from][d] = @ - amount, ![to][d] = @ + amount]
      BY <1>3 DEF SubmitGross
    <3>2. balance[from][d] - amount \in Nat /\ balance[to][d] + amount \in Nat
      BY <1>0, <2>1
    <3> QED BY <1>0, <2>1, <3>1, <3>2
  <2>3. obligations' \in Seq(Obligations)
    BY <1>3, <2>1, RecordType DEF SubmitGross, TypeInv
  <2> QED BY <1>3, <2>2, <2>3
       DEF SubmitGross, TypeInv, TypeOK, RoomForNext, blockVars, cycleVars, ledgerVars, holdVars
<1>4. ASSUME NEW from \in Participants, NEW to \in Participants, NEW d \in Denoms,
             NEW amount \in Amounts, SubmitNet(from, to, d, amount)
      PROVE  TypeInv'
  <2>1. amount \in Nat
    BY BoundAssumption
  <2>2. obligations' \in Seq(Obligations)
    BY <1>4, <2>1, RecordType DEF SubmitNet, TypeInv
  <2>3. /\ position' \in [Cycles -> [Denoms -> [Participants -> Int]]]
        /\ locked' \in [Participants -> [Denoms -> Nat]]
        /\ outcome' \in [Cycles -> [Denoms -> Outcomes]]
        /\ nettedTotal' \in [Cycles -> [Denoms -> [Participants -> Nat]]]
    BY <1>4, <2>1, SubmitNetType DEF TypeInv
  <2>4. UNCHANGED <<blockVars, currentCycle, cycleSeq, cycleStatus, reserve, holdVars, bankVars, approved>>
    BY <1>4 DEF SubmitNet
  <2> QED BY <2>2, <2>3, <2>4 DEF TypeInv, TypeOK, RoomForNext, blockVars, holdVars, bankVars
<1>5. ASSUME NEW p \in Applicants, ApproveParticipant(p) PROVE TypeInv'
  BY <1>5, ApplicantsAssumption
     DEF ApproveParticipant, TypeInv, TypeOK, RoomForNext, blockVars, cycleVars, ledgerVars, holdVars, bankVars
<1> QED BY <1>1, <1>2, <1>3, <1>4, <1>5 DEF Messages

\* Recording one slice's outcome.
LEMMA SliceUpdateType ==
  ASSUME NEW table \in [Cycles -> [Denoms -> Outcomes]], NEW c \in Cycles, NEW d \in Denoms,
         NEW o \in Outcomes
  PROVE  [table EXCEPT ![c][d] = o] \in [Cycles -> [Denoms -> Outcomes]]
OBVIOUS

\* UpdateParams and AbandonHeldSlice keep the types.
LEMMA GovernanceType == TypeInv /\ Governance => TypeInv'
<1> SUFFICES ASSUME TypeInv, Governance PROVE TypeInv'
  OBVIOUS
<1>1. ASSUME NEW p \in ParamChoices, UpdateParams(p) PROVE TypeInv'
  BY <1>1, ParamAssumption
     DEF UpdateParams, TypeInv, TypeOK, RoomForNext, cycleVars, ledgerVars, holdVars, bankVars
<1>2. ASSUME NEW s \in held, AbandonHeldSlice(s[1], s[2]) PROVE TypeInv'
  <2> DEFINE c == s[1]
             d == s[2]
  <2>1. c \in Cycles /\ d \in Denoms /\ <<c, d>> \in Slices
    BY DEF TypeInv, TypeOK, Slices
  <2>2. /\ \A p \in Participants : DebitOf(position[c][d][p]) <= locked[p][d]
        /\ locked' = [p \in Participants |->
                  [locked[p] EXCEPT ![d] = @ - DebitOf(position[c][d][p])]]
        /\ position' = [position EXCEPT ![c][d] = [p \in Participants |-> 0]]
        /\ held' = held \ {<<c, d>>}
        /\ heldSince' = [heldSince EXCEPT ![<<c, d>>] = 0]
        /\ outcome' = [outcome EXCEPT ![c][d] = AbandonedOutcome(outcome[c][d])]
        /\ UNCHANGED <<blockVars, currentCycle, cycleSeq, cycleStatus, reserve,
                       retryCursor, escalateCursor, overdue, bankVars,
                       obligations, nettedTotal, approved>>
    BY <1>2 DEF AbandonHeldSlice
  <2> HIDE DEF c, d
  <2>3. locked' \in [Participants -> [Denoms -> Nat]]
    <3>1. position[c][d] \in [Participants -> Int] /\ locked \in [Participants -> [Denoms -> Nat]]
      BY <2>1, Entries DEF TypeInv, TypeOK
    <3>2. \A p \in Participants : locked[p][d] - DebitOf(position[c][d][p]) \in Nat
      BY <2>1, <2>2, <3>1, DebitType
    <3> QED BY <2>1, <2>2, <3>1, <3>2
  <2>4. position' \in [Cycles -> [Denoms -> [Participants -> Int]]]
    <3> DEFINE R == [Participants -> Int]
               new == [p \in Participants |-> 0]
    <3>1. new \in R /\ position \in [Cycles -> [Denoms -> R]] /\ position' = [position EXCEPT ![c][d] = new]
      BY <2>2 DEF TypeInv, TypeOK
    <3> HIDE DEF R, new
    <3>2. position' \in [Cycles -> [Denoms -> R]]
      BY <2>1, <3>1
    <3> QED BY <3>2 DEF R
  <2>5. outcome' \in [Cycles -> [Denoms -> Outcomes]]
    BY <2>1, <2>2, Entries, OutcomeUpdates, SliceUpdateType DEF TypeInv, TypeOK
  <2>6. heldSince' \in [Slices -> Nat] /\ held' \subseteq Slices
    BY <2>1, <2>2 DEF TypeInv, TypeOK
  <2> QED BY <2>2, <2>3, <2>4, <2>5, <2>6 DEF TypeInv, TypeOK, RoomForNext, blockVars, bankVars
<1> QED BY <1>1, <1>2 DEF Governance

\* Settling a slice: what a debtor pays it has, so reserves and commitments
\* stay natural numbers.
LEMMA SettleType ==
  ASSUME TypeOK, NEW c \in Cycles, NEW d \in Denoms, SettleGroup(c, d)
  PROVE  /\ reserve' \in [Participants -> [Denoms -> Nat]]
         /\ locked' \in [Participants -> [Denoms -> Nat]]
<1> DEFINE row == position[c][d]
<1>1. /\ row \in [Participants -> Int]
      /\ \A p \in Participants : reserve[p][d] \in Nat /\ locked[p][d] \in Nat
  BY Entries
<1>2. /\ \A p \in Participants : DebitOf(row[p]) > 0 =>
           DebitOf(row[p]) <= reserve[p][d] /\ DebitOf(row[p]) <= locked[p][d]
      /\ reserve' = [p \in Participants |-> [reserve[p] EXCEPT ![d] = @ + row[p]]]
      /\ locked' = [p \in Participants |-> [locked[p] EXCEPT ![d] = @ - DebitOf(row[p])]]
  BY DEF SettleGroup, CanSettle
<1> HIDE DEF row
<1>3. \A p \in Participants : DebitOf(row[p]) <= locked[p][d] /\ DebitOf(row[p]) <= reserve[p][d]
  <2> SUFFICES ASSUME NEW p \in Participants
               PROVE  DebitOf(row[p]) <= locked[p][d] /\ DebitOf(row[p]) <= reserve[p][d]
    OBVIOUS
  <2>1. DebitOf(row[p]) \in Nat
    BY <1>1, DebitType
  <2> QED BY <1>1, <1>2, <2>1
<1>4. \A p \in Participants : reserve[p][d] + row[p] \in Nat
  BY <1>1, <1>3, DebitType
<1>5. reserve \in [Participants -> [Denoms -> Nat]] /\ locked \in [Participants -> [Denoms -> Nat]]
  BY DEF TypeOK
<1>6. reserve' \in [Participants -> [Denoms -> Nat]]
  BY <1>2, <1>4, <1>5
<1>7. locked' \in [Participants -> [Denoms -> Nat]]
  <2>1. ASSUME NEW p \in Participants PROVE locked[p][d] - DebitOf(row[p]) \in Nat
    <3>1. DebitOf(row[p]) \in Nat /\ locked[p][d] \in Nat /\ DebitOf(row[p]) <= locked[p][d]
      BY <1>1, <1>3, DebitType
    <3> QED BY <3>1
  <2>2. locked' = [p \in Participants |-> [locked[p] EXCEPT ![d] = @ - DebitOf(row[p])]]
    BY <1>2
  <2> QED BY <1>5, <2>1, <2>2
<1> QED BY <1>6, <1>7

\* A slice that leaves the retry queue: its record stays well formed.
LEMMA RetriedType ==
  ASSUME TypeOK, NEW s \in Slices, NEW net \in Nat, MarkRetried(s[1], s[2], net)
  PROVE  /\ held' \subseteq Slices /\ heldSince' \in [Slices -> Nat]
         /\ outcome' \in [Cycles -> [Denoms -> Outcomes]]
         /\ cycleStatus' \in [Cycles -> SliceStatus]
<1> DEFINE c == s[1]
           d == s[2]
           st == IF \E e \in Denoms \ {d} : outcome[c][e].status = "held" THEN "held" ELSE "settled"
<1>1. c \in Cycles /\ d \in Denoms /\ <<c, d>> \in Slices
  BY DEF Slices
<1>2. /\ held' = held \ {<<c, d>>}
      /\ heldSince' = [heldSince EXCEPT ![<<c, d>>] = 0]
      /\ outcome' = [outcome EXCEPT ![c][d] = SettledOutcome(outcome[c][d], net)]
      /\ cycleStatus' = [cycleStatus EXCEPT ![c] = st]
  BY DEF MarkRetried
<1>3. st \in SliceStatus
  BY DEF SliceStatus
<1> HIDE DEF c, d, st
<1>4. outcome' \in [Cycles -> [Denoms -> Outcomes]]
  BY <1>1, <1>2, Entries, OutcomeUpdates, SliceUpdateType DEF TypeOK
<1> QED BY <1>1, <1>2, <1>3, <1>4 DEF TypeOK

\* Every step of the end blocker keeps the types.
LEMMA EndBlockerType == TypeInv /\ EndBlocker => TypeInv'
<1> SUFFICES ASSUME TypeInv, EndBlocker PROVE TypeInv'
  OBVIOUS
<1> USE DEF TypeInv
<1>0. /\ NextHeight \in 0 .. HeightPeriod - 1
      /\ currentCycle \in Cycles
      /\ IsFiniteSet(held) /\ IsFiniteSet(Stamped) /\ Stamped \in SUBSET Slices
  <2>1. \A h, n \in Nat : n > 0 => (h + 1) % n \in 0 .. n - 1
    OBVIOUS
  <2>2. height \in Nat /\ HeightPeriod \in Nat /\ HeightPeriod > 0
    BY HeightAssumption DEF TypeOK
  <2> QED BY <2>1, <2>2, SlicesFinite DEF NextHeight, TypeOK, Stamped
<1>1. CASE EndBlockIdle
  BY <1>0, <1>1 DEF EndBlockIdle, TypeOK, RoomForNext, cycleVars, ledgerVars, holdVars, bankVars
<1>2. CASE EndBlockCollect
  <2>1. cycleSeq \in Cycles
    BY <1>2, BoundAssumption DEF EndBlockCollect, TypeOK, Cycles
  <2>2. pending' \subseteq Slices /\ retryCursor' \in Slices \cup {NoSlice}
    BY <1>0, <1>2, VisitedType, CursorType DEF EndBlockCollect, TypeOK
  <2> QED BY <1>2, <2>1, <2>2
       DEF EndBlockCollect, TypeOK, RoomForNext, cycleVars, ledgerVars, bankVars
<1>3. ASSUME NEW s \in pending, RetryEmpty(s) \/ RetrySettles(s) \/ RetryRefused(s)
      PROVE  TypeInv'
  <2>1. s \in Slices /\ s[1] \in Cycles /\ s[2] \in Denoms
    BY DEF TypeOK, Slices
  <2>2. RetryStep(s)
    BY <1>3 DEF RetryEmpty, RetrySettles, RetryRefused
  <2>3. /\ held' \subseteq Slices /\ heldSince' \in [Slices -> Nat]
        /\ outcome' \in [Cycles -> [Denoms -> Outcomes]]
        /\ cycleStatus' \in [Cycles -> SliceStatus]
        /\ reserve' \in [Participants -> [Denoms -> Nat]]
        /\ locked' \in [Participants -> [Denoms -> Nat]]
    <3>1. CASE RetryEmpty(s)
      BY <2>1, <3>1, RetriedType DEF RetryEmpty, TypeOK
    <3>2. CASE RetrySettles(s)
      <4>1. Debits(position[s[1]][s[2]]) \in Nat
        BY <2>1, Entries, DebitsType
      <4>2. SettleGroup(s[1], s[2]) /\ MarkRetried(s[1], s[2], Debits(position[s[1]][s[2]]))
        BY <3>2 DEF RetrySettles
      <4>3. /\ held' \subseteq Slices /\ heldSince' \in [Slices -> Nat]
            /\ outcome' \in [Cycles -> [Denoms -> Outcomes]]
            /\ cycleStatus' \in [Cycles -> SliceStatus]
        BY <2>1, <4>1, <4>2, RetriedType
      <4>4. /\ reserve' \in [Participants -> [Denoms -> Nat]]
            /\ locked' \in [Participants -> [Denoms -> Nat]]
        BY <2>1, <4>2, SettleType
      <4> QED BY <4>3, <4>4
    <3>3. CASE RetryRefused(s)
      BY <3>3 DEF RetryRefused, TypeOK
    <3> QED BY <1>3, <3>1, <3>2, <3>3
  <2> QED BY <2>2, <2>3 DEF RetryStep, TypeOK, RoomForNext, bankVars
<1>4. CASE CloseStart
  BY <1>0, <1>4 DEF CloseStart, TypeOK, RoomForNext, SliceStatus, ledgerVars, holdVars, bankVars
<1>5. ASSUME NEW d \in groups, CloseSettles(d) \/ CloseHolds(d)
      PROVE  TypeInv'
  <2>1. d \in Denoms /\ <<currentCycle, d>> \in Slices
    BY <1>0 DEF TypeOK, Slices
  <2>2. CloseStep(d)
    BY <1>5 DEF CloseSettles, CloseHolds
  <2>3. outcome[currentCycle][d] \in Outcomes /\ Debits(position[currentCycle][d]) \in Nat
    BY <1>0, <2>1, Entries, DebitsType
  <2>4. /\ held' \subseteq Slices /\ heldSince' \in [Slices -> Nat]
        /\ outcome' \in [Cycles -> [Denoms -> Outcomes]]
        /\ cycleStatus' \in [Cycles -> SliceStatus]
        /\ reserve' \in [Participants -> [Denoms -> Nat]]
        /\ locked' \in [Participants -> [Denoms -> Nat]]
    <3>1. CASE CloseSettles(d)
      <4> DEFINE o == SettledOutcome(outcome[currentCycle][d], Debits(position[currentCycle][d]))
      <4>1. o \in Outcomes
        BY <2>3, OutcomeUpdates
      <4>2. SettleGroup(currentCycle, d) /\ outcome' = [outcome EXCEPT ![currentCycle][d] = o]
            /\ UNCHANGED <<cycleStatus, held, heldSince>>
        BY <3>1 DEF CloseSettles
      <4> HIDE DEF o
      <4>3. outcome' \in [Cycles -> [Denoms -> Outcomes]]
        BY <1>0, <2>1, <4>1, <4>2, SliceUpdateType DEF TypeOK
      <4>4. /\ reserve' \in [Participants -> [Denoms -> Nat]]
            /\ locked' \in [Participants -> [Denoms -> Nat]]
        BY <1>0, <2>1, <4>2, SettleType
      <4> QED BY <4>2, <4>3, <4>4 DEF TypeOK
    <3>2. CASE CloseHolds(d)
      <4> DEFINE o == HeldOutcome(outcome[currentCycle][d])
      <4>1. o \in Outcomes
        BY <2>3, OutcomeUpdates
      <4>2. outcome' = [outcome EXCEPT ![currentCycle][d] = o]
            /\ cycleStatus' = [cycleStatus EXCEPT ![currentCycle] = "held"]
            /\ held' = held \cup {<<currentCycle, d>>}
            /\ heldSince' = [heldSince EXCEPT ![<<currentCycle, d>>] = IF @ = 0 THEN currentCycle ELSE @]
            /\ UNCHANGED <<reserve, locked>>
        BY <3>2 DEF CloseHolds
      <4> HIDE DEF o
      <4>3. outcome' \in [Cycles -> [Denoms -> Outcomes]]
        BY <1>0, <2>1, <4>1, <4>2, SliceUpdateType DEF TypeOK
      <4>4. cycleStatus' \in [Cycles -> SliceStatus]
        BY <4>2 DEF TypeOK, SliceStatus
      <4>5. currentCycle \in Nat
        BY <1>0, BoundAssumption DEF Cycles
      <4>6. heldSince' \in [Slices -> Nat]
        BY <2>1, <4>2, <4>5 DEF TypeOK
      <4> QED BY <2>1, <4>2, <4>3, <4>4, <4>6 DEF TypeOK
    <3> QED BY <1>5, <3>1, <3>2
  <2> QED BY <2>2, <2>4 DEF CloseStep, TypeOK, RoomForNext, bankVars
<1>6. CASE EndBlockFinish
  <2>1. cycleSeq \in Cycles /\ cycleSeq + 1 \in Nat \ {0}
    BY <1>6, BoundAssumption DEF EndBlockFinish, RoomForNext, TypeOK
  <2>2. outcome' \in [Cycles -> [Denoms -> Outcomes]]
    <3> DEFINE row == [d \in Denoms |-> CancelledOutcome(outcome[currentCycle][d])]
    <3>1. row \in [Denoms -> Outcomes]
      BY <1>0, Entries, OutcomeUpdates, 0 \in Nat
    <3>2. outcome' = [outcome EXCEPT ![currentCycle] = row]
      BY <1>6 DEF EndBlockFinish
    <3> HIDE DEF row
    <3> QED BY <3>1, <3>2 DEF TypeOK
  <2>3. overdue' \subseteq Slices /\ escalateCursor' \in Slices \cup {NoSlice}
    <3>1. CASE params.maxHold > 0
      <4>1. overdue' \subseteq Visited(Stamped, escalateCursor)
            /\ escalateCursor' = AdvanceCursor(Stamped, escalateCursor)
        BY <1>6, <3>1 DEF EndBlockFinish, EscalateOldHolds, Stale
      <4> QED BY <1>0, <4>1, VisitedType, CursorType
    <3>2. CASE ~ (params.maxHold > 0)
      BY <1>6, <3>2 DEF EndBlockFinish, EscalateOldHolds, TypeOK
    <3> QED BY <3>1, <3>2
  <2>4. cycleStatus' \in [Cycles -> SliceStatus]
    BY <1>6 DEF EndBlockFinish, TypeOK, SliceStatus
  <2> QED BY <1>0, <1>6, <2>1, <2>2, <2>3, <2>4
       DEF EndBlockFinish, TypeOK, RoomForNext, ledgerVars, bankVars
<1> QED BY <1>1, <1>2, <1>3, <1>4, <1>5, <1>6 DEF EndBlocker

\* A restart rebuilds natural numbers from natural numbers.
LEMMA RestartType == TypeInv /\ ExportAndImport => TypeInv'
<1> SUFFICES ASSUME TypeInv, ExportAndImport PROVE TypeInv'
  OBVIOUS
<1>1. locked' \in [Participants -> [Denoms -> Nat]]
  <2> DEFINE g == ExportGenesis
  <2>1. g.position \in [Cycles -> [Denoms -> [Participants -> Int]]]
    BY DEF ExportGenesis, TypeInv, TypeOK
  <2>2. locked' = [p \in Participants |-> [d \in Denoms |-> OwedUnsettled(g, p, d)]]
    BY DEF ExportAndImport, RebuiltFrom, LockedFrom
  <2> HIDE DEF g
  <2> QED BY <2>1, <2>2, OwedType
<1>2. /\ held' \subseteq Slices /\ heldSince' \in [Slices -> Nat]
      /\ nettedTotal' \in [Cycles -> [Denoms -> [Participants -> Nat]]]
  BY DEF ExportAndImport, RebuiltFrom, HeldFrom
<1> QED BY <1>1, <1>2
     DEF ExportAndImport, TypeInv, TypeOK, RoomForNext, blockVars, cycleVars, bankVars

\* The inductive type invariant is preserved by every step.
LEMMA TypeStep == TypeInv /\ [Next]_vars => TypeInv'
<1>1. TypeInv /\ UNCHANGED vars => TypeInv'
  BY DEF TypeInv, TypeOK, RoomForNext, vars, blockVars, cycleVars, ledgerVars, holdVars, bankVars
<1> QED BY <1>1, MessagesType, GovernanceType, EndBlockerType, RestartType DEF Next

\* Amounts of reserve, of collateral, of custody and of the participants' own
\* money are never negative, and no half-finished settlement work survives
\* the end blocker: on any number of participants, currencies and cycles.
THEOREM TypeCorrect == Spec => []TypeOK
<1>1. TypeInv => TypeOK
  BY DEF TypeInv
<1> QED BY <1>1, InitType, TypeStep, PTL DEF Spec
----------------------------------------------------------------------------
(* The safety argument. *)

\* The amounts the safety argument is about.
moneyVars == <<position, reserve, locked, custody>>

\* The steps that move an amount; every other step leaves all four alone.
LEMMA MoneySteps ==
  ASSUME TypeInv, [Next]_vars
  PROVE  \/ UNCHANGED moneyVars
         \/ \E p \in Participants, coins \in Coins : PostReserve(p, coins) \/ WithdrawReserve(p, coins)
         \/ \E from, to \in Participants, d \in Denoms, amount \in Amounts :
              SubmitNet(from, to, d, amount)
         \/ \E c \in Cycles, d \in Denoms : AbandonHeldSlice(c, d)
         \/ \E c \in Cycles, d \in Denoms : SettleGroup(c, d) /\ UNCHANGED <<position, custody>>
         \/ ExportAndImport
<1>1. CASE UNCHANGED vars
  BY <1>1 DEF vars, ledgerVars, bankVars, moneyVars
<1>2. CASE Messages
  <2>1. ASSUME NEW from \in Participants, NEW to \in Participants, NEW d \in Denoms,
               NEW amount \in Amounts, SubmitGross(from, to, d, amount)
        PROVE  UNCHANGED moneyVars
    BY <2>1 DEF SubmitGross, ledgerVars, moneyVars
  <2>2. ASSUME NEW p \in Applicants, ApproveParticipant(p) PROVE UNCHANGED moneyVars
    BY <2>2 DEF ApproveParticipant, ledgerVars, bankVars, moneyVars
  <2> QED BY <1>2, <2>1, <2>2 DEF Messages
<1>3. CASE Governance
  <2>1. ASSUME NEW p \in ParamChoices, UpdateParams(p) PROVE UNCHANGED moneyVars
    BY <2>1 DEF UpdateParams, ledgerVars, bankVars, moneyVars
  <2>2. \A s \in held : s[1] \in Cycles /\ s[2] \in Denoms
    BY DEF TypeInv, TypeOK, Slices
  <2> QED BY <1>3, <2>1, <2>2 DEF Governance
<1>4. CASE EndBlocker
  <2>1. CASE EndBlockIdle \/ EndBlockCollect \/ CloseStart \/ EndBlockFinish
    BY <2>1 DEF EndBlockIdle, EndBlockCollect, CloseStart, EndBlockFinish,
                ledgerVars, bankVars, moneyVars
  <2>2. ASSUME NEW s \in pending, RetryEmpty(s) \/ RetryRefused(s) PROVE UNCHANGED moneyVars
    BY <2>2 DEF RetryEmpty, RetryRefused, RetryStep, bankVars, moneyVars
  <2>3. ASSUME NEW s \in pending, RetrySettles(s)
        PROVE  SettleGroup(s[1], s[2]) /\ UNCHANGED <<position, custody>>
               /\ s[1] \in Cycles /\ s[2] \in Denoms
    BY <2>3 DEF RetrySettles, RetryStep, bankVars, TypeInv, TypeOK, Slices
  <2>4. ASSUME NEW d \in groups, CloseHolds(d) PROVE UNCHANGED moneyVars
    BY <2>4 DEF CloseHolds, CloseStep, bankVars, moneyVars
  <2>5. ASSUME NEW d \in groups, CloseSettles(d)
        PROVE  SettleGroup(currentCycle, d) /\ UNCHANGED <<position, custody>>
               /\ currentCycle \in Cycles /\ d \in Denoms
    BY <2>5 DEF CloseSettles, CloseStep, bankVars, TypeInv, TypeOK
  <2> QED BY <1>4, <2>1, <2>2, <2>3, <2>4, <2>5 DEF EndBlocker
<1> QED BY <1>1, <1>2, <1>3, <1>4 DEF Next

----------------------------------------------------------------------------
(* Commitments stay within reserves *)

\* How a position that moves by an amount changes what it owes.
LEMMA LockDeltaSign ==
  ASSUME NEW k \in Int, NEW amount \in Nat
  PROVE  LockDelta(k, k + amount) <= 0 /\ LockDelta(k, k - amount) >= 0
BY DEF LockDelta, DebitOf

\* The initial commitments are covered because validation said so.
LEMMA InitCollateralised == Init => Collateralised
BY DEF Init, InitFrom, RebuiltFrom, LockedFrom, Validate, ValidatePositions, Collateralised

\* What SubmitNet does to the commitments of the two sides.
LEMMA SubmitNetLocks ==
  ASSUME TypeOK, NEW from \in Participants, NEW to \in Participants, NEW d \in Denoms,
         NEW amount \in Nat, SubmitNet(from, to, d, amount)
  PROVE  LET row == position[currentCycle][d] IN
         /\ from # to
         /\ locked'[from][d] = locked[from][d] + LockDelta(row[from], row[from] - amount)
         /\ locked'[from][d] <= reserve[from][d]
         /\ locked'[to][d] = locked[to][d] + LockDelta(row[to], row[to] + amount)
         /\ locked'[to][d] <= locked[to][d]
         /\ \A p \in Participants, e \in Denoms :
              (e = d => p # from /\ p # to) => locked'[p][e] = locked[p][e]
         /\ position' = [position EXCEPT ![currentCycle][d] = Moved(row, from, to, amount)]
<1> DEFINE row == position[currentCycle][d]
           x == LockDelta(row[from], row[from] - amount)
           y == LockDelta(row[to], row[to] + amount)
<1>0. currentCycle \in Cycles
  BY DEF TypeOK
<1>1. /\ position' = [position EXCEPT ![currentCycle][d] = Moved(row, from, to, amount)]
      /\ locked[from][d] + x <= reserve[from][d]
      /\ locked' = [locked EXCEPT ![from][d] = @ + x, ![to][d] = @ + y]
      /\ from # to
  <2>1. position' = [position EXCEPT ![currentCycle][d] = Moved(row, from, to, amount)]
    BY DEF SubmitNet, ApplyToPositions
  <2>2. locked' = [locked EXCEPT ![from][d] = @ + x, ![to][d] = @ + y]
    BY DEF SubmitNet, ApplyToPositions
  <2>3. locked[from][d] + x <= reserve[from][d]
    BY DEF SubmitNet, ApplyToPositions, NetDebitCap
  <2> QED BY <2>1, <2>2, <2>3 DEF SubmitNet, MayOwe
<1>2. row[from] \in Int /\ row[to] \in Int
  BY <1>0, Entries
<1>3. locked \in [Participants -> [Denoms -> Nat]]
  BY DEF TypeOK
<1>4. x \in Int /\ y \in Int /\ y <= 0
  <2>1. row[from] - amount \in Int /\ row[to] + amount \in Int
    BY <1>2
  <2> HIDE DEF row
  <2> QED BY <1>2, <2>1, LockDeltaType, LockDeltaSign
<1> HIDE DEF x, y
<1>5. locked'[from][d] = locked[from][d] + x /\ locked'[to][d] = locked[to][d] + y
  BY <1>1, <1>3
<1>6. \A p \in Participants, e \in Denoms :
        (e = d => p # from /\ p # to) => locked'[p][e] = locked[p][e]
  BY <1>1, <1>3
<1>7. locked[to][d] \in Nat
  BY <1>3
<1>8. locked'[to][d] <= locked[to][d]
  BY <1>4, <1>5, <1>7
<1> QED BY <1>1, <1>5, <1>6, <1>8 DEF x, y

\* What settling a slice does to one participant.
LEMMA SettleAmounts ==
  ASSUME TypeOK, NEW c \in Cycles, NEW d \in Denoms, SettleGroup(c, d),
         NEW p \in Participants
  PROVE  /\ reserve'[p][d] = reserve[p][d] + position[c][d][p]
         /\ locked'[p][d] = locked[p][d] - DebitOf(position[c][d][p])
         /\ \A e \in Denoms \ {d} : reserve'[p][e] = reserve[p][e] /\ locked'[p][e] = locked[p][e]
<1>1. /\ reserve' = [q \in Participants |-> [reserve[q] EXCEPT ![d] = @ + position[c][d][q]]]
      /\ locked' = [q \in Participants |-> [locked[q] EXCEPT ![d] = @ - DebitOf(position[c][d][q])]]
  BY DEF SettleGroup
<1>2. reserve[p] \in [Denoms -> Nat] /\ locked[p] \in [Denoms -> Nat]
  BY DEF TypeOK
<1> QED BY <1>1, <1>2

\* What giving up on a held slice does: every commitment it carries goes.
LEMMA AbandonAmounts ==
  ASSUME TypeOK, NEW c \in Cycles, NEW d \in Denoms, AbandonHeldSlice(c, d)
  PROVE  /\ position' = [position EXCEPT ![c][d] = [p \in Participants |-> 0]]
         /\ reserve' = reserve /\ custody' = custody
         /\ \A p \in Participants, e \in Denoms : locked'[p][e] <= locked[p][e]
<1>1. /\ position' = [position EXCEPT ![c][d] = [p \in Participants |-> 0]]
      /\ reserve' = reserve /\ custody' = custody
      /\ locked' = [p \in Participants |->
                      [locked[p] EXCEPT ![d] = @ - DebitOf(position[c][d][p])]]
  BY DEF AbandonHeldSlice, bankVars
<1>2. ASSUME NEW p \in Participants, NEW e \in Denoms PROVE locked'[p][e] <= locked[p][e]
  <2>1. locked[p] \in [Denoms -> Nat] /\ locked[p][e] \in Nat /\ position[c][d][p] \in Int
    BY DEF TypeOK
  <2>2. DebitOf(position[c][d][p]) \in Nat
    BY <2>1, DebitType
  <2>3. locked'[p][e] = IF e = d THEN locked[p][d] - DebitOf(position[c][d][p]) ELSE locked[p][e]
    BY <1>1, <2>1
  <2> QED BY <2>1, <2>2, <2>3
<1> QED BY <1>1, <1>2

\* Every step keeps commitments within reserves.
LEMMA CollateralisedStep ==
  TypeInv /\ TypeInv' /\ Collateralised /\ [Next]_vars => Collateralised'
<1> SUFFICES ASSUME TypeInv, TypeInv', Collateralised, [Next]_vars,
                    NEW p \in Participants, NEW d \in Denoms
             PROVE  locked'[p][d] <= reserve'[p][d]
  BY DEF Collateralised
<1>0. /\ TypeOK /\ locked[p][d] <= reserve[p][d]
      /\ locked[p][d] \in Nat /\ reserve[p][d] \in Nat
      /\ locked'[p][d] \in Nat /\ reserve'[p][d] \in Nat
  <2>1. /\ locked \in [Participants -> [Denoms -> Nat]] /\ reserve \in [Participants -> [Denoms -> Nat]]
        /\ locked' \in [Participants -> [Denoms -> Nat]] /\ reserve' \in [Participants -> [Denoms -> Nat]]
    BY DEF TypeInv, TypeOK
  <2>2. locked[p][d] <= reserve[p][d]
    BY DEF Collateralised
  <2> QED BY <2>1, <2>2 DEF TypeInv
<1>1. CASE UNCHANGED moneyVars
  BY <1>0, <1>1 DEF moneyVars
<1>2. ASSUME NEW q \in Participants, NEW coins \in Coins, PostReserve(q, coins)
      PROVE  locked'[p][d] <= reserve'[p][d]
  <2>1. coins[d] \in Nat
    BY CoinsType
  <2>2. /\ locked' = locked
        /\ reserve'[p][d] = IF p = q THEN reserve[p][d] + coins[d] ELSE reserve[p][d]
    BY <1>2 DEF PostReserve, TypeInv, TypeOK
  <2> QED BY <1>0, <2>1, <2>2
<1>3. ASSUME NEW q \in Participants, NEW coins \in Coins, WithdrawReserve(q, coins)
      PROVE  locked'[p][d] <= reserve'[p][d]
  <2>1. coins[d] \in Nat
    BY CoinsType
  <2>2. /\ locked' = locked
        /\ reserve'[p][d] = IF p = q THEN reserve[p][d] - coins[d] ELSE reserve[p][d]
        /\ coins[d] <= Available(q, d)
    BY <1>3 DEF WithdrawReserve, TypeInv, TypeOK
  <2>3. p = q => coins[d] <= reserve[p][d] - locked[p][d]
    BY <1>0, <2>1, <2>2 DEF Available
  <2> QED BY <1>0, <2>1, <2>2, <2>3
<1>4. ASSUME NEW from \in Participants, NEW to \in Participants, NEW e \in Denoms,
             NEW amount \in Amounts, SubmitNet(from, to, e, amount)
      PROVE  locked'[p][d] <= reserve'[p][d]
  <2>1. amount \in Nat /\ reserve' = reserve
    BY <1>4, BoundAssumption DEF SubmitNet
  <2>2. /\ locked'[from][e] <= reserve[from][e]
        /\ locked'[to][e] <= locked[to][e]
        /\ (d = e => p # from /\ p # to) => locked'[p][d] = locked[p][d]
    BY <1>0, <1>4, <2>1, SubmitNetLocks
  <2> QED BY <1>0, <2>1, <2>2
<1>5. ASSUME NEW c \in Cycles, NEW e \in Denoms, AbandonHeldSlice(c, e)
      PROVE  locked'[p][d] <= reserve'[p][d]
  <2>1. reserve' = reserve /\ locked'[p][d] <= locked[p][d]
    BY <1>0, <1>5, AbandonAmounts
  <2> QED BY <1>0, <2>1
<1>6. ASSUME NEW c \in Cycles, NEW e \in Denoms, SettleGroup(c, e)
      PROVE  locked'[p][d] <= reserve'[p][d]
  <2> DEFINE k == position[c][e][p]
  <2>1. /\ reserve'[p][e] = reserve[p][e] + k
        /\ locked'[p][e] = locked[p][e] - DebitOf(k)
        /\ d # e => reserve'[p][d] = reserve[p][d] /\ locked'[p][d] = locked[p][d]
    BY <1>0, <1>6, SettleAmounts
  <2>2. k \in Int
    BY <1>0, Entries
  <2> HIDE DEF k
  <2>3. DebitOf(k) \in Nat /\ DebitOf(k) >= -k
    BY <2>2, DebitType
  <2> QED BY <1>0, <2>1, <2>2, <2>3
<1>7. CASE ExportAndImport
  BY <1>7 DEF ExportAndImport, RebuiltFrom, LockedFrom, Validate, ValidatePositions, ExportGenesis
<1> QED BY <1>1, <1>2, <1>3, <1>4, <1>5, <1>6, <1>7, MoneySteps

\* The claim of keeper.go that settlement at the close cannot fail rests on
\* this: whatever is posted, owed, withdrawn, settled, abandoned or restarted,
\* and in whatever order, nobody's commitments exceed its reserve.
THEOREM AlwaysCollateralised == Spec => []Collateralised
<1>1. Init => TypeInv /\ Collateralised
  BY InitType, InitCollateralised
<1>2. TypeInv /\ Collateralised /\ [Next]_vars => TypeInv' /\ Collateralised'
  BY TypeStep, CollateralisedStep
<1> QED BY <1>1, <1>2, PTL DEF Spec

----------------------------------------------------------------------------
(* Slices sum to zero *)

\* InitGenesis only accepts slices that sum to zero.
LEMMA InitBalanced == Init => SlicesBalance
BY DEF Init, InitFrom, Validate, ValidatePositions, SlicesBalance

\* Moving an amount from one position to another leaves the sum alone.
LEMMA MovedSum ==
  ASSUME NEW row \in [Participants -> Int], NEW from \in Participants, NEW to \in Participants,
         from # to, NEW amount \in Int
  PROVE  SumFunctionOnSet(Moved(row, from, to, amount), Participants)
           = SumFunctionOnSet(row, Participants)
<1> DEFINE new == Moved(row, from, to, amount)
<1>1. /\ new[from] = row[from] - amount /\ new[to] = row[to] + amount
      /\ \A x \in Participants : x # from /\ x # to => new[x] = row[x]
      /\ \A x \in Participants : row[x] \in Int
  BY DEF Moved
<1> HIDE DEF new
<1>2. SumFunctionOnSet(new, Participants) = SumFunctionOnSet(row, Participants)
  BY <1>1, SumTransfer, FiniteAssumption
<1> QED BY <1>2 DEF new

\* Every step keeps every slice at sum zero.
LEMMA BalancedStep == TypeInv /\ SlicesBalance /\ [Next]_vars => SlicesBalance'
<1> SUFFICES ASSUME TypeInv, SlicesBalance, [Next]_vars, NEW c \in Cycles, NEW d \in Denoms
             PROVE  SumFunctionOnSet(position'[c][d], Participants) = 0
  BY DEF SlicesBalance
<1>0. TypeOK /\ SumFunctionOnSet(position[c][d], Participants) = 0 /\ currentCycle \in Cycles
  BY DEF TypeInv, TypeOK, SlicesBalance
<1>1. CASE position' = position
  BY <1>0, <1>1
<1>2. ASSUME NEW from \in Participants, NEW to \in Participants, NEW e \in Denoms,
             NEW amount \in Amounts, SubmitNet(from, to, e, amount)
      PROVE  SumFunctionOnSet(position'[c][d], Participants) = 0
  <2> DEFINE row == position[currentCycle][e]
             new == Moved(row, from, to, amount)
  <2>1. amount \in Nat
    BY BoundAssumption
  <2>2. from # to /\ position' = [position EXCEPT ![currentCycle][e] = new]
    BY <1>0, <1>2, <2>1, SubmitNetLocks
  <2>3. row \in [Participants -> Int] /\ SumFunctionOnSet(row, Participants) = 0
    BY <1>0, Entries DEF SlicesBalance
  <2>4. SumFunctionOnSet(new, Participants) = 0
    <3> HIDE DEF row
    <3> QED BY <2>1, <2>2, <2>3, MovedSum
  <2> HIDE DEF new
  <2>5. position'[c][d] = IF c = currentCycle /\ d = e THEN new ELSE position[c][d]
    <3> DEFINE R == [Participants -> Int]
    <3>1. position \in [Cycles -> [Denoms -> R]]
      BY <1>0 DEF TypeOK
    <3> HIDE DEF R
    <3> QED BY <1>0, <2>2, <3>1
  <2> QED BY <1>0, <2>4, <2>5
<1>3. ASSUME NEW b \in Cycles, NEW e \in Denoms, AbandonHeldSlice(b, e)
      PROVE  SumFunctionOnSet(position'[c][d], Participants) = 0
  <2> DEFINE new == [p \in Participants |-> 0]
  <2>1. SumFunctionOnSet(new, Participants) = 0
    <3>1. \A p \in Participants : new[p] = 0
      OBVIOUS
    <3> HIDE DEF new
    <3> QED BY <3>1, SumZero, FiniteAssumption
  <2>2. position' = [position EXCEPT ![b][e] = new]
    BY <1>0, <1>3, AbandonAmounts
  <2> HIDE DEF new
  <2>3. position'[c][d] = IF c = b /\ d = e THEN new ELSE position[c][d]
    <3> DEFINE R == [Participants -> Int]
    <3>1. position \in [Cycles -> [Denoms -> R]]
      BY <1>0 DEF TypeOK
    <3> HIDE DEF R
    <3> QED BY <2>2, <3>1
  <2> QED BY <1>0, <2>1, <2>3
<1>4. CASE UNCHANGED moneyVars
  BY <1>1, <1>4 DEF moneyVars
<1>5. ASSUME NEW p \in Participants, NEW coins \in Coins,
             PostReserve(p, coins) \/ WithdrawReserve(p, coins)
      PROVE  position' = position
  BY <1>5 DEF PostReserve, WithdrawReserve
<1>6. CASE ExportAndImport
  BY <1>1, <1>6 DEF ExportAndImport
<1> QED BY <1>1, <1>2, <1>3, <1>4, <1>5, <1>6, MoneySteps

\* Netting neither creates nor destroys value: applyToPositions moves both
\* sides or neither, and a slice that is given up loses all of its positions.
THEOREM AlwaysBalanced == Spec => []SlicesBalance
<1>1. Init => TypeInv /\ SlicesBalance
  BY InitType, InitBalanced
<1>2. TypeInv /\ SlicesBalance /\ [Next]_vars => TypeInv' /\ SlicesBalance'
  BY TypeStep, BalancedStep
<1> QED BY <1>1, <1>2, PTL DEF Spec

----------------------------------------------------------------------------
(* Custody backs the reserves *)

\* The module account of genesis holds the reserves of genesis.
LEMMA InitBacked == Init => CustodyBacksReserves
BY DEF Init, InitFrom, CustodyBacksReserves

\* Every step keeps the module account equal to the reserves.
LEMMA BackedStep ==
  TypeInv /\ SlicesBalance /\ CustodyBacksReserves /\ [Next]_vars => CustodyBacksReserves'
<1> DEFINE held0(table, d) == [p \in Participants |-> table[p][d]]
<1> SUFFICES ASSUME TypeInv, SlicesBalance, CustodyBacksReserves, [Next]_vars, NEW d \in Denoms
             PROVE  custody'[d] = SumFunctionOnSet(held0(reserve', d), Participants)
  BY DEF CustodyBacksReserves
<1> DEFINE f == held0(reserve, d)
           g == held0(reserve', d)
<1>0. /\ TypeOK /\ custody[d] = SumFunctionOnSet(f, Participants) /\ custody[d] \in Nat
      /\ custody \in [Denoms -> Nat] /\ reserve \in [Participants -> [Denoms -> Nat]]
  BY DEF TypeInv, TypeOK, CustodyBacksReserves
<1>1. \A p \in Participants : f[p] = reserve[p][d] /\ f[p] \in Int /\ g[p] = reserve'[p][d]
  BY <1>0
<1> SUFFICES custody'[d] = SumFunctionOnSet(g, Participants)
  OBVIOUS
<1>2. CASE custody' = custody /\ reserve' = reserve
  BY <1>0, <1>2
<1> HIDE DEF f, g
<1>3. ASSUME NEW q \in Participants, NEW k \in Int,
             custody'[d] = custody[d] + k,
             \A p \in Participants : reserve'[p][d] = IF p = q THEN reserve[p][d] + k ELSE reserve[p][d]
      PROVE  custody'[d] = SumFunctionOnSet(g, Participants)
  <2>1. g[q] = f[q] + k /\ \A p \in Participants : p # q => g[p] = f[p]
    BY <1>1, <1>3
  <2>2. SumFunctionOnSet(g, Participants) = SumFunctionOnSet(f, Participants) + k
    <3>1. \A p \in Participants : f[p] \in Int
      BY <1>1
    <3>2. g[q] = f[q] + k
      BY <2>1
    <3>3. \A p \in Participants : p # q => g[p] = f[p]
      BY <2>1
    <3> QED BY <3>1, <3>2, <3>3, SumUpdate, FiniteAssumption
  <2> QED BY <1>0, <1>3, <2>2
<1>4. ASSUME NEW q \in Participants, NEW coins \in Coins, PostReserve(q, coins)
      PROVE  custody'[d] = SumFunctionOnSet(g, Participants)
  <2>1. coins[d] \in Int
    BY CoinsType
  <2>2. /\ custody'[d] = custody[d] + coins[d]
        /\ \A p \in Participants :
             reserve'[p][d] = IF p = q THEN reserve[p][d] + coins[d] ELSE reserve[p][d]
    BY <1>0, <1>4 DEF PostReserve
  <2> QED BY <1>3, <2>1, <2>2
<1>5. ASSUME NEW q \in Participants, NEW coins \in Coins, WithdrawReserve(q, coins)
      PROVE  custody'[d] = SumFunctionOnSet(g, Participants)
  <2>1. coins[d] \in Int /\ -coins[d] \in Int
    <3>1. coins[d] \in Nat
      BY CoinsType
    <3> QED BY <3>1
  <2>2. /\ custody'[d] = custody[d] - coins[d]
        /\ \A p \in Participants :
             reserve'[p][d] = IF p = q THEN reserve[p][d] - coins[d] ELSE reserve[p][d]
    BY <1>0, <1>5 DEF WithdrawReserve
  <2>3. /\ custody'[d] = custody[d] + (-coins[d])
        /\ \A p \in Participants :
             reserve'[p][d] = IF p = q THEN reserve[p][d] + (-coins[d]) ELSE reserve[p][d]
    <3>1. \A p \in Participants : reserve[p][d] \in Int
      BY <1>0
    <3>2. \A i, j \in Int : i - j = i + (-j)
      OBVIOUS
    <3> QED BY <1>0, <2>1, <2>2, <3>1, <3>2
  <2> QED BY <1>3, <2>1, <2>3
<1>6. ASSUME NEW c \in Cycles, NEW e \in Denoms, SettleGroup(c, e), UNCHANGED <<position, custody>>
      PROVE  custody'[d] = SumFunctionOnSet(g, Participants)
  <2>1. CASE e # d
    <3>1. \A p \in Participants : g[p] = f[p]
      BY <1>0, <1>1, <1>6, <2>1, SettleAmounts
    <3>2. SumFunctionOnSet(g, Participants) = SumFunctionOnSet(f, Participants)
      BY <3>1, SumCong, FiniteAssumption
    <3> QED BY <1>0, <1>6, <3>2
  <2>2. CASE e = d
    <3> DEFINE row == position[c][d]
    <3>1. row \in [Participants -> Int] /\ SumFunctionOnSet(row, Participants) = 0
      BY <1>0, Entries DEF SlicesBalance
    <3>2. \A p \in Participants : reserve'[p][d] = reserve[p][d] + row[p]
      BY <1>0, <1>6, <2>2, SettleAmounts
    <3> HIDE DEF row
    <3>3. \A p \in Participants : f[p] \in Int /\ row[p] \in Int /\ g[p] = f[p] + row[p]
      BY <1>1, <3>1, <3>2
    <3>4. SumFunctionOnSet(g, Participants)
            = SumFunctionOnSet(f, Participants) + SumFunctionOnSet(row, Participants)
      BY <3>3, SumAdd, FiniteAssumption
    <3> QED BY <1>0, <1>6, <3>1, <3>4
  <2> QED BY <2>1, <2>2
<1>7. CASE UNCHANGED moneyVars
  BY <1>2, <1>7 DEF moneyVars
<1>8. ASSUME NEW from \in Participants, NEW to \in Participants, NEW e \in Denoms,
             NEW amount \in Amounts, SubmitNet(from, to, e, amount)
      PROVE  custody'[d] = SumFunctionOnSet(g, Participants)
  BY <1>2, <1>8 DEF SubmitNet, bankVars
<1>9. ASSUME NEW c \in Cycles, NEW e \in Denoms, AbandonHeldSlice(c, e)
      PROVE  custody'[d] = SumFunctionOnSet(g, Participants)
  BY <1>0, <1>2, <1>9, AbandonAmounts
<1>10. CASE ExportAndImport
  BY <1>2, <1>10 DEF ExportAndImport, bankVars
<1> QED BY <1>4, <1>5, <1>6, <1>7, <1>8, <1>9, <1>10, MoneySteps

\* settleGroup rearranges claims and moves no coin, yet the module account
\* always holds exactly the reserves on its books: because slices balance.
THEOREM AlwaysBacked == Spec => []CustodyBacksReserves
<1>1. Init => TypeInv /\ SlicesBalance /\ CustodyBacksReserves
  BY InitType, InitBalanced, InitBacked
<1>2. TypeInv /\ SlicesBalance /\ CustodyBacksReserves /\ [Next]_vars
        => TypeInv' /\ SlicesBalance' /\ CustodyBacksReserves'
  BY TypeStep, BalancedStep, BackedStep
<1> QED BY <1>1, <1>2, PTL DEF Spec

----------------------------------------------------------------------------
(* Settlement cannot fail *)

\* Cycles that have not been opened carry no position.
FutureIsEmpty ==
  /\ currentCycle < cycleSeq
  /\ \A c \in Cycles, d \in Denoms, p \in Participants : c >= cycleSeq => position[c][d][p] = 0

\* What the open window owes in a currency it has still to settle is committed.
OpenIsCovered ==
  \A d \in Denoms, p \in Participants :
    (phase = "close" => d \in groups) => DebitOf(position[currentCycle][d][p]) <= locked[p][d]

\* Nothing is held and nothing is recorded as held.
NothingHeld ==
  /\ held = {} /\ pending = {}
  /\ \A c \in Cycles, d \in Denoms : outcome[c][d].status # "held"

\* The inductive invariant of the claim.
SafeInv ==
  TypeInv /\ Collateralised /\ SlicesBalance /\ FutureIsEmpty /\ OpenIsCovered /\ NothingHeld

\* Positions that sum to zero owe as much as they are owed.
LEMMA ZeroSumSettles ==
  ASSUME NEW row \in [Participants -> Int], SumFunctionOnSet(row, Participants) = 0
  PROVE  Debits(row) = Credits(row)
<1> DEFINE f == [p \in Participants |-> DebitOf(row[p])]
           h == [p \in Participants |-> CreditOf(row[p])]
<1>1. \A p \in Participants : row[p] \in Int /\ f[p] \in Int /\ h[p] = row[p] + f[p]
  BY DEF DebitOf, CreditOf
<1>2. Debits(row) = SumFunctionOnSet(f, Participants) /\ Credits(row) = SumFunctionOnSet(h, Participants)
  BY DEF Debits, Credits
<1> HIDE DEF f, h
<1>3. SumFunctionOnSet(h, Participants)
        = SumFunctionOnSet(row, Participants) + SumFunctionOnSet(f, Participants)
  BY <1>1, SumAdd, FiniteAssumption
<1>4. SumFunctionOnSet(f, Participants) \in Int
  BY <1>1, SumType, FiniteAssumption
<1> QED BY <1>2, <1>3, <1>4

\* A currency of the closing window can always settle.
LEMMA CloseCanSettle ==
  ASSUME SafeInv, NEW d \in groups, phase = "close"
  PROVE  CanSettle(currentCycle, d)
<1>1. TypeOK /\ d \in Denoms /\ currentCycle \in Cycles
  BY DEF SafeInv, TypeInv, TypeOK
<1>2. Debits(position[currentCycle][d]) = Credits(position[currentCycle][d])
  BY <1>1, Entries, ZeroSumSettles DEF SafeInv, SlicesBalance
<1>3. ASSUME NEW p \in Participants
      PROVE  DebitOf(position[currentCycle][d][p]) <= reserve[p][d]
             /\ DebitOf(position[currentCycle][d][p]) <= locked[p][d]
  <2>1. /\ DebitOf(position[currentCycle][d][p]) <= locked[p][d]
        /\ locked[p][d] <= reserve[p][d]
    BY <1>1 DEF SafeInv, OpenIsCovered, Collateralised
  <2>2. locked[p][d] \in Nat /\ reserve[p][d] \in Nat /\ DebitOf(position[currentCycle][d][p]) \in Nat
    BY <1>1, Entries, DebitType
  <2> QED BY <2>1, <2>2
<1> QED BY <1>2, <1>3 DEF CanSettle

\* What validation and InitGenesis establish about the open window of a file.
LEMMA ImportCovers ==
  ASSUME NEW g, g.position \in [Cycles -> [Denoms -> [Participants -> Int]]],
         g.currentCycle \in Cycles, g.cycleCount \in Nat, ValidateCycles(g)
  PROVE  /\ g.currentCycle < g.cycleCount
         /\ \A c \in Cycles, d \in Denoms, p \in Participants :
              c >= g.cycleCount => g.position[c][d][p] = 0
         /\ \A d \in Denoms, p \in Participants :
              DebitOf(g.position[g.currentCycle][d][p]) <= LockedFrom(g)[p][d]
<1>0. Cycles \subseteq Nat
  BY BoundAssumption DEF Cycles
<1>1. g.currentCycle < g.cycleCount
  <2>1. g.cycleStatus[g.currentCycle] = "open"
    BY DEF ValidateCycles
  <2>2. g.currentCycle >= g.cycleCount => g.cycleStatus[g.currentCycle] = "none"
    BY DEF ValidateCycles
  <2>3. g.currentCycle \in Nat /\ g.cycleCount \in Nat
    BY <1>0
  <2> QED BY <2>1, <2>2, <2>3
<1>2. \A c \in Cycles, d \in Denoms, p \in Participants :
        c >= g.cycleCount => g.position[c][d][p] = 0
  <2> SUFFICES ASSUME NEW c \in Cycles, NEW d \in Denoms, NEW p \in Participants,
                      c >= g.cycleCount
               PROVE  g.position[c][d][p] = 0
    OBVIOUS
  <2>1. g.cycleStatus[c] = "none"
    BY DEF ValidateCycles
  <2>2. g.cycleStatus[c] = "none" => \A e \in Denoms : \A q \in Participants : g.position[c][e][q] = 0
    BY DEF ValidateCycles
  <2> QED BY <2>1, <2>2
<1>3. ASSUME NEW d \in Denoms, NEW p \in Participants
      PROVE  DebitOf(g.position[g.currentCycle][d][p]) <= LockedFrom(g)[p][d]
  <2> DEFINE f == [c \in Cycles |-> IF SliceUnsettled(g, c, d) THEN DebitOf(g.position[c][d][p]) ELSE 0]
             y == g.currentCycle
  <2>1. \A c \in Cycles : f[c] \in Nat
    BY DebitType
  <2>2. f[y] = DebitOf(g.position[y][d][p])
    BY DEF SliceUnsettled, ValidateCycles
  <2>3. LockedFrom(g)[p][d] = SumFunctionOnSet(f, Cycles)
    BY DEF LockedFrom, OwedUnsettled
  <2> HIDE DEF f
  <2>4. f[y] <= SumFunctionOnSet(f, Cycles)
    BY <2>1, SumBounds, CyclesFinite
  <2> QED BY <2>2, <2>3, <2>4
<1> QED BY <1>1, <1>2, <1>3

\* A chain that imports a file with nothing held starts safe.
LEMMA InitSafe ==
  ASSUME \A g \in Genesis : HeldFrom(g) = {}
  PROVE  Init => SafeInv
<1> SUFFICES ASSUME Init PROVE SafeInv
  OBVIOUS
<1>1. TypeInv /\ Collateralised /\ SlicesBalance
  BY InitType, InitCollateralised, InitBalanced
<1>2. PICK g \in Genesis : Validate(g) /\ InitFrom(g)
  BY DEF Init
<1>3. /\ g.position \in [Cycles -> [Denoms -> [Participants -> Int]]]
      /\ g.currentCycle \in Cycles /\ g.cycleCount \in Nat /\ ValidateCycles(g)
  BY <1>2, GenesisAssumption DEF GenesisStates, Validate
<1>4. FutureIsEmpty /\ OpenIsCovered
  <2>1. /\ currentCycle = g.currentCycle /\ cycleSeq = g.cycleCount /\ position = g.position
        /\ locked = LockedFrom(g)
    BY <1>2 DEF InitFrom, RebuiltFrom
  <2>2. /\ g.currentCycle < g.cycleCount
        /\ \A c \in Cycles, d \in Denoms, p \in Participants :
             c >= g.cycleCount => g.position[c][d][p] = 0
        /\ \A d \in Denoms, p \in Participants :
             DebitOf(g.position[g.currentCycle][d][p]) <= LockedFrom(g)[p][d]
    BY <1>3, ImportCovers
  <2> QED BY <2>1, <2>2 DEF FutureIsEmpty, OpenIsCovered
<1>5. NothingHeld
  <2>1. held = {} /\ pending = {} /\ outcome = g.outcome /\ HeldFrom(g) = {}
    BY <1>2 DEF InitFrom, RebuiltFrom
  <2>2. ASSUME NEW c \in Cycles, NEW d \in Denoms, g.outcome[c][d].status = "held" PROVE FALSE
    <3>1. <<c, d>> \in Slices /\ <<c, d>>[1] = c /\ <<c, d>>[2] = d
      BY DEF Slices
    <3>2. <<c, d>> \in HeldFrom(g)
      BY <2>2, <3>1 DEF HeldFrom
    <3> QED BY <2>1, <3>2
  <2> QED BY <2>1, <2>2 DEF NothingHeld
<1> QED BY <1>1, <1>4, <1>5 DEF SafeInv

\* The part of SafeInv that concerns the open window, step by step.
LEMMA CoveredStep ==
  SafeInv /\ TypeInv' /\ [Next]_vars => FutureIsEmpty' /\ OpenIsCovered'
<1> SUFFICES ASSUME SafeInv, TypeInv', [Next]_vars PROVE FutureIsEmpty' /\ OpenIsCovered'
  OBVIOUS
<1>0. /\ TypeInv /\ TypeOK /\ currentCycle \in Cycles /\ FutureIsEmpty /\ OpenIsCovered
      /\ held = {} /\ pending = {}
      /\ Cycles \subseteq Nat /\ cycleSeq \in Nat
      /\ position \in [Cycles -> [Denoms -> [Participants -> Int]]]
      /\ locked \in [Participants -> [Denoms -> Nat]]
  <2>1. Cycles \subseteq Nat
    BY BoundAssumption DEF Cycles
  <2> QED BY <2>1 DEF SafeInv, TypeInv, TypeOK, NothingHeld
<1>1. CASE /\ UNCHANGED <<currentCycle, cycleSeq, position, locked>>
           /\ (phase' = "close") <=> (phase = "close")
           /\ groups' \subseteq groups
  BY <1>0, <1>1 DEF FutureIsEmpty, OpenIsCovered
<1>2. ASSUME NEW from \in Participants, NEW to \in Participants, NEW d \in Denoms,
             NEW amount \in Amounts, SubmitNet(from, to, d, amount)
      PROVE  FutureIsEmpty' /\ OpenIsCovered'
  <2> DEFINE row == position[currentCycle][d]
             new == Moved(row, from, to, amount)
  <2>1. amount \in Nat
    BY BoundAssumption
  <2>2. /\ from # to
        /\ locked'[from][d] = locked[from][d] + LockDelta(row[from], row[from] - amount)
        /\ locked'[to][d] = locked[to][d] + LockDelta(row[to], row[to] + amount)
        /\ \A p \in Participants, e \in Denoms :
             (e = d => p # from /\ p # to) => locked'[p][e] = locked[p][e]
        /\ position' = [position EXCEPT ![currentCycle][d] = new]
    BY <1>0, <1>2, <2>1, SubmitNetLocks
  <2>3. phase = "deliver" /\ UNCHANGED <<phase, groups, currentCycle, cycleSeq>>
    BY <1>2 DEF SubmitNet, MayOwe, blockVars
  <2>4. row \in [Participants -> Int]
    BY <1>0
  <2>5. /\ new[from] = row[from] - amount /\ new[to] = row[to] + amount
        /\ \A p \in Participants : p # from /\ p # to => new[p] = row[p]
    <3> HIDE DEF row
    <3> QED BY <2>1, <2>2, <2>4 DEF Moved
  <2>6. \A p \in Participants, e \in Denoms : DebitOf(position[currentCycle][e][p]) <= locked[p][e]
    BY <1>0, <2>3 DEF OpenIsCovered
  <2> HIDE DEF new
  <2>7. \A c \in Cycles, e \in Denoms :
          position'[c][e] = IF c = currentCycle /\ e = d THEN new ELSE position[c][e]
    <3> DEFINE R == [Participants -> Int]
    <3>1. position \in [Cycles -> [Denoms -> R]]
      BY <1>0
    <3> HIDE DEF R
    <3> QED BY <1>0, <2>2, <3>1
  <2>8. FutureIsEmpty'
    BY <1>0, <2>3, <2>7 DEF FutureIsEmpty
  <2>9. ASSUME NEW e \in Denoms, NEW p \in Participants
        PROVE  DebitOf(position'[currentCycle][e][p]) <= locked'[p][e]
    <3>1. CASE e = d => p # from /\ p # to
      BY <1>0, <2>2, <2>5, <2>6, <2>7, <3>1
    <3>2. CASE e = d /\ p = from
      <4>1. position'[currentCycle][e][p] = row[from] - amount
        BY <1>0, <2>5, <2>7, <3>2
      <4>2. /\ DebitOf(row[from]) <= locked[from][d]
            /\ row[from] \in Int /\ row[from] - amount \in Int /\ locked[from][d] \in Nat
        BY <1>0, <2>1, <2>4, <2>6
      <4> HIDE DEF row
      <4>3. DebitOf(row[from]) \in Nat /\ DebitOf(row[from] - amount) \in Nat
        BY <4>2, DebitType
      <4>4. locked'[from][d] = locked[from][d] + (DebitOf(row[from] - amount) - DebitOf(row[from]))
        BY <2>2 DEF LockDelta
      <4> QED BY <3>2, <4>1, <4>2, <4>3, <4>4
    <3>3. CASE e = d /\ p = to
      <4>1. position'[currentCycle][e][p] = row[to] + amount
        BY <1>0, <2>5, <2>7, <3>3
      <4>2. /\ DebitOf(row[to]) <= locked[to][d]
            /\ row[to] \in Int /\ row[to] + amount \in Int /\ locked[to][d] \in Nat
        BY <1>0, <2>1, <2>4, <2>6
      <4> HIDE DEF row
      <4>3. DebitOf(row[to]) \in Nat /\ DebitOf(row[to] + amount) \in Nat
        BY <4>2, DebitType
      <4>4. locked'[to][d] = locked[to][d] + (DebitOf(row[to] + amount) - DebitOf(row[to]))
        BY <2>2 DEF LockDelta
      <4> QED BY <3>3, <4>1, <4>2, <4>3, <4>4
    <3> QED BY <3>1, <3>2, <3>3
  <2> QED BY <2>3, <2>8, <2>9 DEF OpenIsCovered
<1>3. CASE Messages
  <2>1. ASSUME NEW p \in Participants, NEW coins \in Coins,
               PostReserve(p, coins) \/ WithdrawReserve(p, coins)
        PROVE  FutureIsEmpty' /\ OpenIsCovered'
    BY <1>1, <2>1 DEF PostReserve, WithdrawReserve, blockVars, cycleVars
  <2>2. ASSUME NEW from \in Participants, NEW to \in Participants, NEW d \in Denoms,
               NEW amount \in Amounts, SubmitGross(from, to, d, amount)
        PROVE  FutureIsEmpty' /\ OpenIsCovered'
    BY <1>1, <2>2 DEF SubmitGross, MayOwe, blockVars, cycleVars, ledgerVars
  <2>3. ASSUME NEW p \in Applicants, ApproveParticipant(p) PROVE FutureIsEmpty' /\ OpenIsCovered'
    BY <1>1, <2>3 DEF ApproveParticipant, blockVars, cycleVars, ledgerVars
  <2> QED BY <1>2, <1>3, <2>1, <2>2, <2>3 DEF Messages
<1>4. CASE Governance
  <2>1. ASSUME NEW p \in ParamChoices, UpdateParams(p) PROVE FutureIsEmpty' /\ OpenIsCovered'
    BY <1>1, <2>1 DEF UpdateParams, cycleVars, ledgerVars
  <2> QED BY <1>0, <1>4, <2>1 DEF Governance
<1>5. CASE EndBlockIdle \/ EndBlockCollect
  BY <1>1, <1>5 DEF EndBlockIdle, EndBlockCollect, cycleVars, ledgerVars
<1>6. CASE CloseStart
  <2>1. phase = "retry" /\ UNCHANGED <<currentCycle, cycleSeq, position, locked>>
    BY <1>6 DEF CloseStart, ledgerVars
  <2> QED BY <1>0, <2>1 DEF FutureIsEmpty, OpenIsCovered
<1>7. ASSUME NEW d \in groups, CloseSettles(d) \/ CloseHolds(d)
      PROVE  FutureIsEmpty' /\ OpenIsCovered'
  <2>1. /\ d \in Denoms /\ phase = "close" /\ phase' = phase /\ groups' = groups \ {d}
        /\ UNCHANGED <<currentCycle, cycleSeq, position>>
    BY <1>0, <1>7 DEF CloseSettles, CloseHolds, CloseStep, TypeOK
  <2>2. CanSettle(currentCycle, d)
    BY <1>7, <2>1, CloseCanSettle
  <2>3. SettleGroup(currentCycle, d)
    BY <1>7, <2>2 DEF CloseSettles, CloseHolds
  <2>4. \A p \in Participants, e \in Denoms \ {d} : locked'[p][e] = locked[p][e]
    BY <1>0, <2>1, <2>3, SettleAmounts
  <2> QED BY <1>0, <2>1, <2>4 DEF FutureIsEmpty, OpenIsCovered
<1>8. CASE EndBlockFinish
  <2>1. /\ cycleSeq \in Cycles /\ currentCycle' = cycleSeq /\ cycleSeq' = cycleSeq + 1
        /\ phase' = "deliver" /\ UNCHANGED <<position, locked>>
    BY <1>0, <1>8 DEF EndBlockFinish, ledgerVars, TypeInv, RoomForNext
  <2>2. \A c \in Cycles, d \in Denoms, p \in Participants : c >= cycleSeq => position[c][d][p] = 0
    BY <1>0 DEF FutureIsEmpty
  <2>3. FutureIsEmpty'
    BY <1>0, <2>1, <2>2 DEF FutureIsEmpty
  <2>4. ASSUME NEW d \in Denoms, NEW p \in Participants
        PROVE  DebitOf(position'[currentCycle'][d][p]) <= locked'[p][d]
    <3>1. position'[currentCycle'][d][p] = 0 /\ locked'[p][d] \in Nat
      BY <1>0, <2>1, <2>2
    <3> QED BY <3>1 DEF DebitOf
  <2> QED BY <2>3, <2>4 DEF OpenIsCovered
<1>9. CASE ExportAndImport
  <2> DEFINE g == ExportGenesis
  <2>1. /\ g.position = position /\ g.currentCycle = currentCycle /\ g.cycleCount = cycleSeq
        /\ ValidateCycles(g) /\ locked' = LockedFrom(g)
        /\ UNCHANGED <<position, currentCycle, cycleSeq>>
    BY <1>9 DEF ExportAndImport, ExportGenesis, Validate, RebuiltFrom, cycleVars
  <2> HIDE DEF g
  <2>2. \A d \in Denoms, p \in Participants :
          DebitOf(g.position[g.currentCycle][d][p]) <= LockedFrom(g)[p][d]
    BY <1>0, <2>1, ImportCovers
  <2> QED BY <1>0, <2>1, <2>2 DEF FutureIsEmpty, OpenIsCovered
<1>10. CASE UNCHANGED vars
  BY <1>1, <1>10 DEF vars, blockVars, cycleVars, ledgerVars
<1> QED BY <1>0, <1>3, <1>4, <1>5, <1>6, <1>7, <1>8, <1>9, <1>10 DEF Next, EndBlocker

\* The part of SafeInv that says nothing is held.
LEMMA NothingHeldStep == SafeInv /\ [Next]_vars => NothingHeld'
<1> SUFFICES ASSUME SafeInv, [Next]_vars PROVE NothingHeld'
  OBVIOUS
<1>0. /\ TypeOK /\ NothingHeld /\ held = {} /\ pending = {} /\ currentCycle \in Cycles
      /\ outcome \in [Cycles -> [Denoms -> Outcomes]]
  BY DEF SafeInv, TypeInv, TypeOK, NothingHeld
<1>1. CASE UNCHANGED <<held, pending, outcome>>
  BY <1>0, <1>1 DEF NothingHeld
<1>2. ASSUME NEW d \in Denoms, NEW o, o.status # "held",
             outcome' = [outcome EXCEPT ![currentCycle][d] = o], UNCHANGED <<held, pending>>
      PROVE  NothingHeld'
  BY <1>0, <1>2 DEF NothingHeld
<1>3. CASE Messages
  <2>1. ASSUME NEW from \in Participants, NEW to \in Participants, NEW d \in Denoms,
               NEW amount \in Amounts, SubmitNet(from, to, d, amount)
        PROVE  NothingHeld'
    <3> DEFINE o == Submitted(outcome[currentCycle][d], amount)
    <3>1. outcome[currentCycle][d] \in Outcomes /\ outcome[currentCycle][d].status # "held"
      BY <1>0 DEF NothingHeld
    <3>2. o.status # "held"
      BY <3>1 DEF Submitted, Outcomes
    <3>3. outcome' = [outcome EXCEPT ![currentCycle][d] = o] /\ UNCHANGED <<held, pending>>
      BY <2>1 DEF SubmitNet, blockVars, holdVars
    <3> HIDE DEF o
    <3> QED BY <1>2, <3>2, <3>3
  <2>2. ASSUME NEW p \in Participants, NEW coins \in Coins,
               PostReserve(p, coins) \/ WithdrawReserve(p, coins)
        PROVE  NothingHeld'
    BY <1>1, <2>2 DEF PostReserve, WithdrawReserve, blockVars, cycleVars, holdVars
  <2>3. ASSUME NEW from \in Participants, NEW to \in Participants, NEW d \in Denoms,
               NEW amount \in Amounts, SubmitGross(from, to, d, amount)
        PROVE  NothingHeld'
    BY <1>1, <2>3 DEF SubmitGross, blockVars, cycleVars, holdVars
  <2>4. ASSUME NEW p \in Applicants, ApproveParticipant(p) PROVE NothingHeld'
    BY <1>1, <2>4 DEF ApproveParticipant, blockVars, cycleVars, holdVars
  <2> QED BY <1>3, <2>1, <2>2, <2>3, <2>4 DEF Messages
<1>4. CASE Governance
  <2>1. ASSUME NEW p \in ParamChoices, UpdateParams(p) PROVE NothingHeld'
    BY <1>1, <2>1 DEF UpdateParams, cycleVars, holdVars
  <2> QED BY <1>0, <1>4, <2>1 DEF Governance
<1>5. CASE EndBlockIdle \/ CloseStart
  BY <1>1, <1>5 DEF EndBlockIdle, CloseStart, cycleVars, holdVars
<1>6. CASE EndBlockCollect
  <2>1. pending' = {}
    BY <1>0, <1>6 DEF EndBlockCollect, Visited, Ahead
  <2> QED BY <1>0, <1>6, <2>1 DEF EndBlockCollect, NothingHeld, cycleVars
<1>7. ASSUME NEW d \in groups, CloseSettles(d) \/ CloseHolds(d)
      PROVE  NothingHeld'
  <2>1. phase = "close" /\ d \in Denoms
    BY <1>0, <1>7 DEF CloseSettles, CloseHolds, CloseStep, TypeOK
  <2>2. CanSettle(currentCycle, d)
    BY <1>7, <2>1, CloseCanSettle
  <2>3. CloseSettles(d)
    BY <1>7, <2>2 DEF CloseHolds
  <2> DEFINE o == SettledOutcome(outcome[currentCycle][d], Debits(position[currentCycle][d]))
  <2>4. o.status # "held"
    <3>1. outcome[currentCycle][d] \in Outcomes
      BY <1>0, <2>1
    <3> QED BY <3>1 DEF SettledOutcome, Outcomes
  <2>5. outcome' = [outcome EXCEPT ![currentCycle][d] = o] /\ UNCHANGED <<held, pending>>
    BY <2>3 DEF CloseSettles, CloseStep
  <2> HIDE DEF o
  <2> QED BY <1>2, <2>1, <2>4, <2>5
<1>8. CASE EndBlockFinish
  <2> DEFINE row == [d \in Denoms |-> CancelledOutcome(outcome[currentCycle][d])]
  <2>1. outcome' = [outcome EXCEPT ![currentCycle] = row] /\ UNCHANGED <<held, pending>>
    BY <1>8 DEF EndBlockFinish
  <2>2. \A d \in Denoms : row[d].status # "held"
    <3>1. \A d \in Denoms : outcome[currentCycle][d] \in Outcomes /\ outcome[currentCycle][d].status # "held"
      BY <1>0 DEF NothingHeld
    <3> QED BY <3>1 DEF CancelledOutcome, Outcomes
  <2> HIDE DEF row
  <2> QED BY <1>0, <2>1, <2>2 DEF NothingHeld
<1>9. CASE ExportAndImport
  <2>1. held' = {} /\ UNCHANGED <<pending, outcome>>
    BY <1>0, <1>9 DEF ExportAndImport, RebuiltFrom, HeldFrom, ExportGenesis, NothingHeld,
                      blockVars, cycleVars, Slices
  <2> QED BY <1>0, <2>1 DEF NothingHeld
<1>10. CASE UNCHANGED vars
  BY <1>1, <1>10 DEF vars, blockVars, cycleVars, holdVars
<1> QED BY <1>0, <1>3, <1>4, <1>5, <1>6, <1>7, <1>8, <1>9, <1>10 DEF Next, EndBlocker

\* The claim of trySettle and of msg_server_obligation.go: on a chain whose
\* genesis holds nothing, closing a window never fails, so nothing is ever
\* held, in whatever order institutions post, owe, withdraw, are admitted, see
\* the parameters change and the chain restarted.
THEOREM SettlementNeverFails ==
  ASSUME \A g \in Genesis : HeldFrom(g) = {}
  PROVE  Spec => []SettlementCannotFail
<1>1. Init => SafeInv
  BY InitSafe
<1>2. SafeInv /\ [Next]_vars => SafeInv'
  BY TypeStep, CollateralisedStep, BalancedStep, CoveredStep, NothingHeldStep DEF SafeInv
<1>3. SafeInv => SettlementCannotFail
  BY DEF SafeInv, NothingHeld, SettlementCannotFail
<1> QED BY <1>1, <1>2, <1>3, PTL DEF Spec

----------------------------------------------------------------------------
(* The cycle record.  Everything below also holds on a chain that imported   *)
(* held slices, so it rests on what the record says of them and not on       *)
(* NothingHeld.                                                              *)

\* Cycles are opened in order, one at a time, and the open one is the current.
ClockInv ==
  /\ currentCycle < cycleSeq
  /\ \A c \in Cycles : /\ c >= cycleSeq => cycleStatus[c] = "none"
                       /\ cycleStatus[c] = "open" => c = currentCycle
  /\ phase # "close" => cycleStatus[currentCycle] = "open"
  /\ phase = "close" => cycleStatus[currentCycle] \in {"settled", "held"}

\* A cycle that was never opened has no outcome and no position.
UnopenedIsEmpty ==
  \A c \in Cycles : cycleStatus[c] = "none" =>
    \A d \in Denoms : outcome[c][d] = NoOutcome /\ \A p \in Participants : position[c][d][p] = 0

Unclosed(d) == outcome[currentCycle][d].status \in {"none", "open"}

\* No closed window has a slice that is still open; the current one has a
\* slice that is settled or held only once closeCycle has come to it.
WindowInv ==
  /\ \A c \in Cycles, d \in Denoms : c # currentCycle =>
       outcome[c][d].status \in {"none", "settled", "held"}
  /\ \A d \in Denoms :
       \/ Unclosed(d)
       \/ phase = "close" /\ d \notin groups /\ outcome[currentCycle][d].status \in {"settled", "held"}
  /\ \A d \in Denoms :
       phase = "close" /\ d \notin groups /\ Unclosed(d) => ~HasPositions(currentCycle, d)

\* The queue names slices whose record says held.
QueueInv == pending \subseteq held /\ \A s \in held : outcome[s[1]][s[2]].status = "held"

RecordInv == ClockInv /\ UnopenedIsEmpty /\ WindowInv /\ QueueInv

\* What Validate says of the cycles of a file, outcomes by name.
LEMMA ValidatedCycles ==
  ASSUME NEW g, ValidateCycles(g)
  PROVE  /\ g.cycleStatus[g.currentCycle] = "open"
         /\ \A c \in Cycles :
              /\ c >= g.cycleCount => g.cycleStatus[c] = "none"
              /\ g.cycleStatus[c] = "open" => c = g.currentCycle
              /\ g.cycleStatus[c] = "none" =>
                   \A d \in Denoms : g.outcome[c][d] = NoOutcome
                                     /\ \A p \in Participants : g.position[c][d][p] = 0
BY Zenon DEF ValidateCycles

\* A file that passes validation is a record.
LEMMA InitRecord == Init => RecordInv
<1> SUFFICES ASSUME NEW g \in Genesis, Validate(g), InitFrom(g) PROVE RecordInv
  BY DEF Init
<1>1. /\ g \in GenesisStates /\ Exported(g) /\ ValidateCycles(g)
      /\ g.position \in [Cycles -> [Denoms -> [Participants -> Int]]]
      /\ g.currentCycle \in Cycles /\ g.cycleCount \in Nat
  BY GenesisAssumption DEF Validate, GenesisStates
<1>2. /\ currentCycle = g.currentCycle /\ cycleSeq = g.cycleCount
      /\ cycleStatus = g.cycleStatus /\ outcome = g.outcome /\ position = g.position
      /\ phase = "deliver" /\ pending = {} /\ held = HeldFrom(g)
  BY DEF InitFrom, RebuiltFrom
<1>3. g.currentCycle < g.cycleCount
  BY <1>1, ImportCovers
<1>4. ClockInv
  BY <1>1, <1>2, <1>3, ValidatedCycles DEF ClockInv
<1>5. UnopenedIsEmpty
  BY <1>1, <1>2, ValidatedCycles DEF UnopenedIsEmpty
<1>6. WindowInv
  <2>1. \A c \in Cycles : g.cycleStatus[c] = "open" <=> c = g.currentCycle
    BY <1>1, ValidatedCycles
  <2>2. \A c \in Cycles, d \in Denoms :
          g.outcome[c][d].status \in
            IF c = g.currentCycle THEN {"none", "open"} ELSE {"none", "settled", "held"}
    BY <1>1, <2>1 DEF Exported
  <2> QED BY <1>1, <1>2, <2>2 DEF WindowInv, Unclosed
<1>7. QueueInv
  BY <1>2 DEF QueueInv, HeldFrom
<1> QED BY <1>4, <1>5, <1>6, <1>7 DEF RecordInv

\* What a settlement and the empty outcome record as status.
LEMMA SettledStatus ==
  ASSUME NEW o \in Outcomes, NEW net
  PROVE  /\ SettledOutcome(o, net).status = "settled" /\ SettledOutcome(o, net).net = net
         /\ SettledOutcome(o, net).gross = o.gross
BY Zenon DEF SettledOutcome, Outcomes
LEMMA NoOutcomeStatus == NoOutcome.status = "none"
BY Zenon DEF NoOutcome

recordVars ==
  <<phase, pending, groups, currentCycle, cycleSeq, cycleStatus, outcome, position, held>>

\* SubmitNet writes only in the current slice.
LEMMA RecordSubmit ==
  ASSUME TypeInv, TypeInv', RecordInv, NEW from \in Participants, NEW to \in Participants,
         NEW d \in Denoms, NEW amount \in Amounts, SubmitNet(from, to, d, amount)
  PROVE  RecordInv'
<1> DEFINE o == Submitted(outcome[currentCycle][d], amount)
           row == Moved(position[currentCycle][d], from, to, amount)
<1>1. /\ phase = "deliver"
      /\ UNCHANGED <<phase, pending, groups, currentCycle, cycleSeq, cycleStatus, held>>
  BY DEF SubmitNet, MayOwe, blockVars, holdVars
<1>2. outcome' = [outcome EXCEPT ![currentCycle][d] = o]
      /\ position' = [position EXCEPT ![currentCycle][d] = row]
  BY DEF SubmitNet, ApplyToPositions
<1>3. /\ currentCycle \in Cycles /\ outcome[currentCycle][d] \in Outcomes
      /\ outcome \in [Cycles -> [Denoms -> Outcomes]]
  BY DEF TypeInv, TypeOK
<1>4. outcome[currentCycle][d].status \in {"none", "open"}
  BY <1>1 DEF RecordInv, WindowInv, Unclosed
<1>5. o.status = "open"
  BY <1>3, <1>4 DEF Submitted, Outcomes
<1> HIDE DEF o, row
<1>6. \A c \in Cycles, e \in Denoms :
        outcome'[c][e] = IF c = currentCycle /\ e = d THEN o ELSE outcome[c][e]
  BY <1>2, <1>3
<1>7. \A c \in Cycles : c # currentCycle => position'[c] = position[c]
  BY <1>2 DEF TypeInv, TypeOK
<1>8. ClockInv'
  BY <1>1 DEF RecordInv, ClockInv
<1>9. UnopenedIsEmpty'
  <2>1. cycleStatus[currentCycle] = "open"
    BY <1>1 DEF RecordInv, ClockInv
  <2> QED BY <1>1, <1>6, <1>7, <2>1 DEF RecordInv, UnopenedIsEmpty
<1>10. WindowInv'
  BY <1>1, <1>3, <1>5, <1>6 DEF RecordInv, WindowInv, Unclosed
<1>11. QueueInv'
  <2>1. \A s \in held : s[1] \in Cycles /\ s[2] \in Denoms
    BY DEF TypeInv, TypeOK, Slices
  <2>2. \A s \in held : outcome'[s[1]][s[2]] = outcome[s[1]][s[2]]
    <3>1. \A s \in held : ~(s[1] = currentCycle /\ s[2] = d)
      BY <1>4 DEF RecordInv, QueueInv
    <3> QED BY <1>6, <2>1, <3>1
  <2> QED BY <1>1, <2>2 DEF RecordInv, QueueInv
<1> QED BY <1>8, <1>9, <1>10, <1>11 DEF RecordInv

\* AbandonHeldSlice takes the slice off the queue and empties it.
LEMMA RecordAbandon ==
  ASSUME TypeInv, RecordInv, NEW c \in Cycles, NEW d \in Denoms, AbandonHeldSlice(c, d)
  PROVE  RecordInv' /\ c # currentCycle /\ outcome[c][d].status = "held"
<1> DEFINE o == AbandonedOutcome(outcome[c][d])
           row == [p \in Participants |-> 0]
<1>1. /\ phase = "deliver" /\ <<c, d>> \in held /\ held' = held \ {<<c, d>>}
      /\ UNCHANGED <<phase, pending, groups, currentCycle, cycleSeq, cycleStatus>>
  BY DEF AbandonHeldSlice, blockVars
<1>2. outcome' = [outcome EXCEPT ![c][d] = o] /\ position' = [position EXCEPT ![c][d] = row]
  BY DEF AbandonHeldSlice
<1>3. /\ outcome[c][d] \in Outcomes /\ outcome \in [Cycles -> [Denoms -> Outcomes]]
      /\ pending = {}
  BY <1>1 DEF TypeInv, TypeOK
<1>4. outcome[c][d].status = "held"
  <2>1. <<c, d>>[1] = c /\ <<c, d>>[2] = d
    OBVIOUS
  <2> QED BY <1>1, <2>1 DEF RecordInv, QueueInv
<1>5. o.status = "held"
  BY <1>3, <1>4 DEF AbandonedOutcome, Outcomes
<1>6. c # currentCycle
  BY <1>1, <1>4 DEF RecordInv, WindowInv, Unclosed
<1> HIDE DEF o, row
<1>7. /\ \A b \in Cycles, e \in Denoms :
           outcome'[b][e] = IF b = c /\ e = d THEN o ELSE outcome[b][e]
      /\ \A b \in Cycles : b # c => position'[b] = position[b]
  BY <1>2, <1>3 DEF TypeInv, TypeOK
<1>8. ClockInv'
  BY <1>1 DEF RecordInv, ClockInv
<1>9. UnopenedIsEmpty'
  <2>1. cycleStatus[c] # "none"
    <3>1. outcome[c][d] # NoOutcome
      BY <1>4, NoOutcomeStatus
    <3> QED BY <3>1 DEF RecordInv, UnopenedIsEmpty
  <2> QED BY <1>1, <1>7, <2>1 DEF RecordInv, UnopenedIsEmpty
<1>10. WindowInv'
  <2>1. currentCycle \in Cycles /\ phase' # "close" /\ phase # "close"
    BY <1>1 DEF TypeInv, TypeOK
  <2>2. \A e \in Denoms : Unclosed(e)'
    BY <1>1, <1>6, <1>7, <2>1 DEF RecordInv, WindowInv, Unclosed
  <2>3. \A b \in Cycles, e \in Denoms : b # currentCycle =>
          outcome'[b][e].status \in {"none", "settled", "held"}
    BY <1>5, <1>7 DEF RecordInv, WindowInv
  <2> QED BY <1>1, <2>1, <2>2, <2>3 DEF WindowInv
<1>11. QueueInv'
  <2>1. \A s \in held : s[1] \in Cycles /\ s[2] \in Denoms
    BY DEF TypeInv, TypeOK, Slices
  <2>2. \A s \in held : outcome'[s[1]][s[2]].status = "held"
    BY <1>5, <1>7, <2>1 DEF RecordInv, QueueInv
  <2> QED BY <1>1, <1>3, <2>2 DEF QueueInv
<1> QED BY <1>4, <1>6, <1>8, <1>9, <1>10, <1>11 DEF RecordInv

\* A slice that is retried belongs to a closed window; clearing it takes it
\* off the queue and settles its record.
LEMMA RecordRetry ==
  ASSUME TypeInv, RecordInv, NEW s \in pending, RetryStep(s), NEW net \in Nat,
         MarkRetried(s[1], s[2], net)
  PROVE  /\ RecordInv' /\ s[1] # currentCycle /\ outcome[s[1]][s[2]].status = "held"
         /\ outcome'[s[1]][s[2]].status = "settled"
         /\ \A b \in Cycles, e \in Denoms : b # s[1] \/ e # s[2] => outcome'[b][e] = outcome[b][e]
         /\ \A b \in Cycles : b # s[1] => cycleStatus'[b] = cycleStatus[b]
         /\ cycleStatus'[s[1]] \in {"held", "settled"} /\ cycleStatus[s[1]] # "open"
<1> DEFINE c == s[1]
           d == s[2]
           o == SettledOutcome(outcome[c][d], net)
           st == IF \E e \in Denoms \ {d} : outcome[c][e].status = "held" THEN "held" ELSE "settled"
<1>1. /\ s = <<c, d>> /\ c \in Cycles /\ d \in Denoms /\ s \in held /\ currentCycle \in Cycles
      /\ outcome[c][d] \in Outcomes /\ outcome \in [Cycles -> [Denoms -> Outcomes]]
      /\ cycleStatus \in [Cycles -> SliceStatus]
  BY DEF TypeInv, TypeOK, Slices, RecordInv, QueueInv
<1>2. /\ phase = "retry" /\ pending' = pending \ {s} /\ held' = held \ {<<c, d>>}
      /\ UNCHANGED <<phase, groups, currentCycle, cycleSeq, position>>
  BY DEF RetryStep, MarkRetried
<1>3. /\ outcome' = [outcome EXCEPT ![c][d] = o]
      /\ cycleStatus' = [cycleStatus EXCEPT ![c] = st]
  BY DEF MarkRetried
<1>4. outcome[c][d].status = "held"
  BY <1>1 DEF RecordInv, QueueInv
<1>5. o.status = "settled"
  <2>1. outcome[c][d] \in Outcomes
    BY <1>1
  <2> QED BY <2>1, SettledStatus
<1>6. c # currentCycle
  BY <1>1, <1>2, <1>4 DEF RecordInv, WindowInv, Unclosed
<1>7. st \in {"held", "settled"}
  OBVIOUS
<1> HIDE DEF c, d, o, st
<1>8. /\ \A b \in Cycles, e \in Denoms :
           outcome'[b][e] = IF b = c /\ e = d THEN o ELSE outcome[b][e]
      /\ \A b \in Cycles : cycleStatus'[b] = IF b = c THEN st ELSE cycleStatus[b]
  BY <1>1, <1>3
<1>9. cycleStatus[c] # "none" /\ cycleStatus[c] # "open"
  <2>1. outcome[c][d] # NoOutcome
    BY <1>4, NoOutcomeStatus
  <2>2. cycleStatus[c] # "none"
    BY <1>1, <2>1 DEF RecordInv, UnopenedIsEmpty
  <2> QED BY <1>1, <1>6, <2>2 DEF RecordInv, ClockInv
<1>10. ClockInv'
  <2>1. \A b \in Cycles : /\ cycleStatus'[b] = "none" <=> cycleStatus[b] = "none"
                          /\ cycleStatus'[b] = "open" <=> cycleStatus[b] = "open"
    BY <1>7, <1>8, <1>9
  <2> QED BY <1>1, <1>2, <2>1 DEF RecordInv, ClockInv
<1>11. UnopenedIsEmpty'
  <2>1. \A b \in Cycles : cycleStatus'[b] = "none" => cycleStatus[b] = "none" /\ b # c
    BY <1>7, <1>8, <1>9
  <2> QED BY <1>2, <1>8, <2>1 DEF RecordInv, UnopenedIsEmpty
<1>12. WindowInv'
  <2>1. \A e \in Denoms : Unclosed(e)'
    BY <1>1, <1>2, <1>6, <1>8 DEF RecordInv, WindowInv, Unclosed
  <2>2. \A b \in Cycles, e \in Denoms : b # currentCycle =>
          outcome'[b][e].status \in {"none", "settled", "held"}
    BY <1>5, <1>8 DEF RecordInv, WindowInv
  <2> QED BY <1>2, <2>1, <2>2 DEF WindowInv
<1>13. QueueInv'
  <2>1. \A t \in held : t[1] \in Cycles /\ t[2] \in Denoms /\ t = <<t[1], t[2]>>
    BY DEF TypeInv, TypeOK, Slices
  <2>2. \A t \in held' : outcome'[t[1]][t[2]].status = "held"
    BY <1>2, <1>8, <2>1 DEF RecordInv, QueueInv
  <2> QED BY <1>1, <1>2, <2>2 DEF RecordInv, QueueInv
<1> QED BY <1>1, <1>4, <1>5, <1>6, <1>7, <1>8, <1>9, <1>10, <1>11, <1>12, <1>13 DEF RecordInv, c, d

\* What closeCycle and the message handlers record as status.
LEMMA ClosedStatus ==
  ASSUME NEW o \in Outcomes
  PROVE  /\ HeldOutcome(o).status = "held" /\ HeldOutcome(o).gross = o.gross
         /\ HeldOutcome(o).net = 0
         /\ CancelledOutcome(o).status = IF o.status = "open" THEN "settled" ELSE o.status
<1>1. HeldOutcome(o).status = "held" /\ HeldOutcome(o).gross = o.gross /\ HeldOutcome(o).net = 0
  BY DEF HeldOutcome, Outcomes
<1>2. CancelledOutcome(o).status = IF o.status = "open" THEN "settled" ELSE o.status
  BY DEF CancelledOutcome, Outcomes
<1> QED BY <1>1, <1>2

\* closeCycle starts: the window is closed, and every slice with a position is
\* still to be settled.
LEMMA RecordCloseStart ==
  ASSUME TypeInv, RecordInv, CloseStart
  PROVE  /\ RecordInv' /\ UNCHANGED <<outcome, position>>
         /\ \A c \in Cycles : c # currentCycle => cycleStatus'[c] = cycleStatus[c]
         /\ \A d \in Denoms : outcome[currentCycle][d].status # "settled"
<1>1. /\ phase = "retry" /\ phase' = "close" /\ pending' = pending
      /\ groups' = {d \in Denoms : HasPositions(currentCycle, d)}
      /\ cycleStatus' = [cycleStatus EXCEPT ![currentCycle] = "settled"]
      /\ UNCHANGED <<currentCycle, cycleSeq, outcome, position, held>>
  BY DEF CloseStart, ledgerVars, holdVars
<1>2. currentCycle \in Cycles /\ cycleStatus \in [Cycles -> SliceStatus]
  BY DEF TypeInv, TypeOK
<1>3. cycleStatus[currentCycle] = "open" /\ \A d \in Denoms : Unclosed(d)
  BY <1>1 DEF RecordInv, ClockInv, WindowInv
<1>4. /\ \A c \in Cycles : c # currentCycle => cycleStatus'[c] = cycleStatus[c]
      /\ cycleStatus'[currentCycle] = "settled"
  BY <1>1, <1>2
<1>5. ClockInv'
  <2>1. \A c \in Cycles : cycleStatus'[c] = "none" <=> cycleStatus[c] = "none"
    BY <1>3, <1>4
  <2>2. \A c \in Cycles : cycleStatus'[c] # "open"
    BY <1>2, <1>4 DEF RecordInv, ClockInv
  <2> QED BY <1>1, <1>4, <2>1, <2>2 DEF RecordInv, ClockInv
<1>6. UnopenedIsEmpty'
  <2>1. \A c \in Cycles : cycleStatus'[c] = "none" => cycleStatus[c] = "none"
    BY <1>3, <1>4
  <2> QED BY <1>1, <2>1 DEF RecordInv, UnopenedIsEmpty
<1>7. WindowInv'
  <2>1. \A d \in Denoms : Unclosed(d)' /\ (d \notin groups' => ~HasPositions(currentCycle, d)')
    BY <1>1, <1>3 DEF Unclosed, HasPositions
  <2> QED BY <1>1, <2>1 DEF RecordInv, WindowInv
<1>8. QueueInv'
  BY <1>1 DEF RecordInv, QueueInv
<1>9. \A d \in Denoms : outcome[currentCycle][d].status # "settled"
  BY <1>3 DEF Unclosed
<1> QED BY <1>1, <1>4, <1>5, <1>6, <1>7, <1>8, <1>9 DEF RecordInv

\* closeCycle settles or holds one slice of the closing window.
LEMMA RecordCloseSlice ==
  ASSUME TypeInv, RecordInv, NEW d \in groups, CloseSettles(d) \/ CloseHolds(d)
  PROVE  /\ RecordInv' /\ d \in Denoms /\ currentCycle \in Cycles
         /\ \A c \in Cycles, e \in Denoms :
              c # currentCycle \/ e # d => outcome'[c][e] = outcome[c][e]
         /\ \A c \in Cycles : c # currentCycle => cycleStatus'[c] = cycleStatus[c]
         /\ cycleStatus[currentCycle] # "open" /\ cycleStatus'[currentCycle] # "open"
         /\ outcome[currentCycle][d].status \in {"none", "open"}
         /\ CloseSettles(d) => outcome'[currentCycle][d].status = "settled"
         /\ CloseHolds(d) => outcome'[currentCycle][d].status = "held"
<1> DEFINE c == currentCycle
           o == IF CloseSettles(d) THEN SettledOutcome(outcome[c][d], Debits(position[c][d]))
                                   ELSE HeldOutcome(outcome[c][d])
<1>1. /\ d \in Denoms /\ c \in Cycles /\ outcome[c][d] \in Outcomes
      /\ outcome \in [Cycles -> [Denoms -> Outcomes]] /\ cycleStatus \in [Cycles -> SliceStatus]
  BY DEF TypeInv, TypeOK
<1>2. /\ phase = "close" /\ groups' = groups \ {d} /\ pending = {}
      /\ UNCHANGED <<phase, pending, currentCycle, cycleSeq, position>>
  BY DEF CloseSettles, CloseHolds, CloseStep, TypeInv, TypeOK
<1>3. /\ o.status = IF CloseSettles(d) THEN "settled" ELSE "held"
      /\ outcome' = [outcome EXCEPT ![c][d] = o]
  <2>1. o.status = IF CloseSettles(d) THEN "settled" ELSE "held"
    BY <1>1, SettledStatus, ClosedStatus
  <2>2. CASE CloseSettles(d)
    <3>1. outcome' = [outcome EXCEPT ![c][d] = SettledOutcome(outcome[c][d], Debits(position[c][d]))]
      BY <2>2 DEF CloseSettles
    <3> QED BY <2>1, <2>2, <3>1
  <2>3. CASE ~CloseSettles(d)
    <3>1. outcome' = [outcome EXCEPT ![c][d] = HeldOutcome(outcome[c][d])]
      BY <2>3 DEF CloseHolds
    <3> QED BY <2>1, <2>3, <3>1
  <2> QED BY <2>2, <2>3
<1>4. /\ ~CloseSettles(d) => held' = held \cup {<<c, d>>} /\ cycleStatus' = [cycleStatus EXCEPT ![c] = "held"]
      /\ CloseSettles(d) => held' = held /\ cycleStatus' = cycleStatus
  BY DEF CloseSettles, CloseHolds
<1>5. cycleStatus[c] \in {"settled", "held"} /\ outcome[c][d].status \in {"none", "open"}
  BY <1>1, <1>2 DEF RecordInv, ClockInv, WindowInv, Unclosed
<1> HIDE DEF o, c
<1>6. /\ \A b \in Cycles, e \in Denoms :
           outcome'[b][e] = IF b = c /\ e = d THEN o ELSE outcome[b][e]
      /\ \A b \in Cycles : b # c => cycleStatus'[b] = cycleStatus[b]
      /\ cycleStatus'[c] \in {"settled", "held"}
  BY <1>1, <1>3, <1>4, <1>5
<1>7. c' = c /\ c = currentCycle
  BY <1>2 DEF c
<1>8. ClockInv'
  <2>1. \A b \in Cycles : /\ cycleStatus'[b] = "none" <=> cycleStatus[b] = "none"
                          /\ cycleStatus'[b] = "open" <=> cycleStatus[b] = "open"
    BY <1>5, <1>6
  <2> QED BY <1>2, <1>6, <1>7, <2>1 DEF RecordInv, ClockInv
<1>9. UnopenedIsEmpty'
  <2>1. \A b \in Cycles : cycleStatus'[b] = "none" => cycleStatus[b] = "none" /\ b # c
    BY <1>5, <1>6
  <2> QED BY <1>2, <1>6, <2>1 DEF RecordInv, UnopenedIsEmpty
<1>10. WindowInv'
  <2>1. \A b \in Cycles, e \in Denoms : b # c => outcome'[b][e].status \in {"none", "settled", "held"}
    BY <1>6, <1>7 DEF RecordInv, WindowInv
  <2>2. ASSUME NEW e \in Denoms
        PROVE  /\ Unclosed(e)' \/ (e \notin groups' /\ outcome'[c][e].status \in {"settled", "held"})
               /\ e \notin groups' /\ Unclosed(e)' => ~HasPositions(currentCycle, e)'
    <3>1. CASE e = d
      <4>1. outcome'[c][e].status \in {"settled", "held"}
        <5>1. outcome'[c][e] = o
          BY <1>1, <1>6, <3>1
        <5>2. o.status \in {"settled", "held"}
          BY <1>3
        <5> QED BY <5>1, <5>2
      <4>2. ~Unclosed(e)' /\ e \notin groups'
        BY <1>2, <1>7, <3>1, <4>1 DEF Unclosed
      <4> QED BY <4>1, <4>2
    <3>2. CASE e # d
      <4>1. outcome'[c][e] = outcome[c][e] /\ (e \in groups' <=> e \in groups)
        BY <1>1, <1>2, <1>6, <3>2
      <4>2. /\ Unclosed(e) \/ (e \notin groups /\ outcome[c][e].status \in {"settled", "held"})
            /\ e \notin groups /\ Unclosed(e) => ~HasPositions(currentCycle, e)
        BY <1>2, <1>7 DEF RecordInv, WindowInv
      <4>3. (Unclosed(e)' <=> Unclosed(e))
            /\ (HasPositions(currentCycle, e)' <=> HasPositions(currentCycle, e))
        BY <1>2, <1>7, <4>1 DEF Unclosed, HasPositions
      <4> QED BY <4>1, <4>2, <4>3
    <3> QED BY <3>1, <3>2
  <2> QED BY <1>2, <1>7, <2>1, <2>2 DEF WindowInv
<1>11. QueueInv'
  <2>1. \A t \in held : t[1] \in Cycles /\ t[2] \in Denoms /\ outcome[t[1]][t[2]].status = "held"
    BY DEF TypeInv, TypeOK, Slices, RecordInv, QueueInv
  <2>2. \A t \in held : outcome'[t[1]][t[2]].status = "held"
    <3>1. \A t \in held : ~(t[1] = c /\ t[2] = d)
      BY <1>5, <2>1
    <3> QED BY <1>6, <2>1, <3>1
  <2>3. <<c, d>>[1] = c /\ <<c, d>>[2] = d
    OBVIOUS
  <2>4. ~CloseSettles(d) => outcome'[c][d].status = "held"
    BY <1>1, <1>3, <1>6
  <2> QED BY <1>2, <1>4, <2>2, <2>3, <2>4 DEF QueueInv
<1>12. /\ CloseSettles(d) => outcome'[c][d].status = "settled"
       /\ CloseHolds(d) => outcome'[c][d].status = "held"
  <2>1. CloseSettles(d) => outcome'[c][d].status = "settled"
    BY <1>1, <1>3, <1>6
  <2>2. CloseHolds(d) => ~CloseSettles(d)
    BY DEF CloseHolds, CloseSettles, SettleGroup
  <2> QED BY <1>1, <1>3, <1>6, <2>1, <2>2
<1> QED BY <1>1, <1>5, <1>6, <1>7, <1>8, <1>9, <1>10, <1>11, <1>12 DEF RecordInv

\* The next window opens: what the closed one left open had cancelled out.
LEMMA RecordFinish ==
  ASSUME TypeInv, RecordInv, EndBlockFinish
  PROVE  /\ RecordInv' /\ position' = position
         /\ \A c \in Cycles, d \in Denoms : c # currentCycle => outcome'[c][d] = outcome[c][d]
         /\ \A d \in Denoms : outcome'[currentCycle][d].status = outcome[currentCycle][d].status
                              \/ ~HasPositions(currentCycle, d)
         /\ cycleSeq \in Cycles /\ cycleStatus[cycleSeq] = "none"
         /\ cycleStatus[currentCycle] # "open" /\ cycleStatus'[currentCycle] # "open"
         /\ \A c \in Cycles : c # cycleSeq => cycleStatus'[c] = cycleStatus[c]
<1> DEFINE c == currentCycle
           row == [d \in Denoms |-> CancelledOutcome(outcome[c][d])]
<1>1. /\ phase = "close" /\ groups = {} /\ phase' = "deliver" /\ pending = {} /\ pending' = {}
      /\ currentCycle' = cycleSeq /\ cycleSeq' = cycleSeq + 1
      /\ UNCHANGED <<position, held>>
      /\ cycleStatus' = [cycleStatus EXCEPT ![cycleSeq] = "open"]
  BY DEF EndBlockFinish, ledgerVars, TypeInv, TypeOK
<1>2. /\ c \in Cycles /\ cycleSeq \in Cycles /\ Cycles \subseteq Nat
      /\ outcome \in [Cycles -> [Denoms -> Outcomes]] /\ cycleStatus \in [Cycles -> SliceStatus]
  BY <1>1, BoundAssumption DEF TypeInv, TypeOK, RoomForNext, Cycles
<1>3. outcome' = [outcome EXCEPT ![c] = row]
  BY DEF EndBlockFinish
<1>4. /\ cycleStatus[cycleSeq] = "none" /\ cycleStatus[c] \in {"settled", "held"} /\ c # cycleSeq
      /\ c < cycleSeq
  BY <1>1, <1>2 DEF RecordInv, ClockInv
<1>5. \A d \in Denoms : /\ row[d].status = IF outcome[c][d].status = "open" THEN "settled"
                                           ELSE outcome[c][d].status
  <2>1. \A d \in Denoms : outcome[c][d] \in Outcomes
    BY <1>2
  <2> QED BY <2>1, ClosedStatus
<1>6. \A d \in Denoms : \/ ~HasPositions(c, d) /\ outcome[c][d].status \in {"none", "open"}
                        \/ outcome[c][d].status \in {"settled", "held"}
  BY <1>1 DEF RecordInv, WindowInv, Unclosed
<1>7. \A d \in Denoms : outcome[cycleSeq][d].status = "none"
  BY <1>2, <1>4, NoOutcomeStatus DEF RecordInv, UnopenedIsEmpty
<1> HIDE DEF row, c
<1>8. /\ \A b \in Cycles, d \in Denoms : b # c => outcome'[b][d] = outcome[b][d]
      /\ \A d \in Denoms : outcome'[c][d].status
           = IF outcome[c][d].status = "open" THEN "settled" ELSE outcome[c][d].status
      /\ \A b \in Cycles : b # cycleSeq => cycleStatus'[b] = cycleStatus[b]
      /\ cycleStatus'[cycleSeq] = "open"
  <2>1. outcome'[c] = row /\ \A b \in Cycles : b # c => outcome'[b] = outcome[b]
    BY <1>2, <1>3
  <2> QED BY <1>1, <1>2, <1>5, <2>1
<1>9. c = currentCycle
  BY DEF c
<1>10. ClockInv'
  <2>1. \A b \in Cycles : cycleStatus'[b] = "open" => b = cycleSeq
    BY <1>2, <1>4, <1>8, <1>9 DEF RecordInv, ClockInv
  <2>2. \A b \in Cycles : b >= cycleSeq + 1 => cycleStatus'[b] = "none"
    BY <1>2, <1>8 DEF RecordInv, ClockInv
  <2> QED BY <1>1, <1>2, <1>8, <2>1, <2>2 DEF ClockInv
<1>11. UnopenedIsEmpty'
  <2>1. \A b \in Cycles : cycleStatus'[b] = "none" => cycleStatus[b] = "none" /\ b # c
    BY <1>4, <1>8
  <2> QED BY <1>1, <1>8, <2>1 DEF RecordInv, UnopenedIsEmpty
<1>12. WindowInv'
  <2>1. \A d \in Denoms : outcome'[c][d].status \in {"none", "settled", "held"}
    BY <1>6, <1>8
  <2>2. \A b \in Cycles, d \in Denoms : outcome'[b][d].status \in {"none", "settled", "held"}
    BY <1>8, <1>9, <2>1 DEF RecordInv, WindowInv
  <2>3. \A d \in Denoms : outcome'[cycleSeq][d].status = "none"
    BY <1>2, <1>4, <1>7, <1>8
  <2>4. \A d \in Denoms : Unclosed(d)'
    BY <1>1, <2>3 DEF Unclosed
  <2> QED BY <1>1, <2>2, <2>4 DEF WindowInv
<1>13. QueueInv'
  <2>1. \A t \in held : t[1] \in Cycles /\ t[2] \in Denoms /\ outcome[t[1]][t[2]].status = "held"
    BY DEF TypeInv, TypeOK, Slices, RecordInv, QueueInv
  <2>2. \A t \in held : outcome'[t[1]][t[2]].status = "held"
    BY <1>8, <2>1
  <2> QED BY <1>1, <2>2 DEF QueueInv
<1>14. \A d \in Denoms : outcome'[c][d].status = outcome[c][d].status \/ ~HasPositions(c, d)
  BY <1>6, <1>8
<1> QED BY <1>1, <1>2, <1>4, <1>8, <1>9, <1>10, <1>11, <1>12, <1>13, <1>14 DEF RecordInv

\* The retry queue is collected from the held slices, and a restart rebuilds
\* it from the record.
LEMMA RecordQueue ==
  ASSUME TypeInv, RecordInv, EndBlockCollect \/ ExportAndImport
  PROVE  RecordInv'
<1>1. /\ phase = "deliver" /\ phase' # "close"
      /\ UNCHANGED <<groups, currentCycle, cycleSeq, cycleStatus, outcome, position>>
  BY DEF EndBlockCollect, ExportAndImport, cycleVars, ledgerVars, blockVars, TypeInv, TypeOK
<1>2. ClockInv'
  BY <1>1 DEF RecordInv, ClockInv
<1>3. UnopenedIsEmpty'
  BY <1>1 DEF RecordInv, UnopenedIsEmpty
<1>4. WindowInv'
  <2>1. \A d \in Denoms : Unclosed(d) /\ Unclosed(d)'
    BY <1>1 DEF RecordInv, WindowInv, Unclosed
  <2> QED BY <1>1, <2>1 DEF RecordInv, WindowInv
<1>5. QueueInv'
  <2>1. CASE EndBlockCollect
    <3>1. pending' \subseteq held /\ held' = held
      BY <2>1, VisitedType DEF EndBlockCollect, TypeInv, TypeOK
    <3> QED BY <1>1, <3>1 DEF RecordInv, QueueInv
  <2>2. CASE ExportAndImport
    <3>1. held' = HeldFrom(ExportGenesis) /\ pending' = pending /\ pending = {}
      BY <1>1, <2>2 DEF ExportAndImport, RebuiltFrom, blockVars, TypeInv, TypeOK
    <3>2. \A s \in HeldFrom(ExportGenesis) : outcome[s[1]][s[2]].status = "held"
      BY DEF HeldFrom, ExportGenesis
    <3> QED BY <1>1, <3>1, <3>2 DEF QueueInv
  <2> QED BY <2>1, <2>2
<1> QED BY <1>2, <1>3, <1>4, <1>5 DEF RecordInv

\* A step that leaves the record alone keeps it.
LEMMA RecordUnchanged == RecordInv /\ UNCHANGED recordVars => RecordInv'
<1> SUFFICES ASSUME RecordInv, UNCHANGED recordVars PROVE RecordInv'
  OBVIOUS
<1>1. ClockInv'
  BY DEF recordVars, RecordInv, ClockInv
<1>2. UnopenedIsEmpty'
  BY DEF recordVars, RecordInv, UnopenedIsEmpty
<1>3. WindowInv'
  BY DEF recordVars, RecordInv, WindowInv, Unclosed, HasPositions
<1>4. QueueInv'
  BY DEF recordVars, RecordInv, QueueInv
<1> QED BY <1>1, <1>2, <1>3, <1>4 DEF RecordInv

\* Every step keeps the record.
LEMMA RecordStep == TypeInv /\ RecordInv /\ [Next]_vars => RecordInv'
<1> SUFFICES ASSUME TypeInv, RecordInv, [Next]_vars PROVE RecordInv'
  OBVIOUS
<1>0. TypeInv'
  BY TypeStep
<1>1. CASE Messages
  <2>1. ASSUME NEW p \in Participants, NEW coins \in Coins,
               PostReserve(p, coins) \/ WithdrawReserve(p, coins)
        PROVE  RecordInv'
    <3>1. UNCHANGED recordVars
      BY <2>1 DEF PostReserve, WithdrawReserve, blockVars, cycleVars, holdVars, recordVars
    <3> QED BY <3>1, RecordUnchanged
  <2>2. ASSUME NEW from \in Participants, NEW to \in Participants, NEW d \in Denoms,
               NEW amount \in Amounts, SubmitGross(from, to, d, amount)
        PROVE  RecordInv'
    <3>1. UNCHANGED recordVars
      BY <2>2 DEF SubmitGross, blockVars, cycleVars, ledgerVars, holdVars, recordVars
    <3> QED BY <3>1, RecordUnchanged
  <2>3. ASSUME NEW p \in Applicants, ApproveParticipant(p) PROVE RecordInv'
    <3>1. UNCHANGED recordVars
      BY <2>3 DEF ApproveParticipant, blockVars, cycleVars, ledgerVars, holdVars, recordVars
    <3> QED BY <3>1, RecordUnchanged
  <2> QED BY <1>0, <1>1, <2>1, <2>2, <2>3, RecordSubmit DEF Messages
<1>2. CASE Governance
  <2>1. ASSUME NEW p \in ParamChoices, UpdateParams(p) PROVE RecordInv'
    <3>1. UNCHANGED recordVars
      BY <2>1 DEF UpdateParams, cycleVars, ledgerVars, holdVars, recordVars
    <3> QED BY <3>1, RecordUnchanged
  <2>2. \A s \in held : s[1] \in Cycles /\ s[2] \in Denoms
    BY DEF TypeInv, TypeOK, Slices
  <2> QED BY <1>2, <2>1, <2>2, RecordAbandon DEF Governance
<1>3. CASE EndBlockIdle
  <2>1. UNCHANGED recordVars
    BY <1>3 DEF EndBlockIdle, cycleVars, ledgerVars, holdVars, recordVars
  <2> QED BY <2>1, RecordUnchanged
<1>4. ASSUME NEW s \in pending, RetryEmpty(s) \/ RetrySettles(s) \/ RetryRefused(s)
      PROVE  RecordInv'
  <2>1. position[s[1]][s[2]] \in [Participants -> Int]
    BY DEF TypeInv, TypeOK, Slices
  <2>2. Debits(position[s[1]][s[2]]) \in Nat
    BY <2>1, DebitsType
  <2>3. CASE RetryEmpty(s)
    BY <2>3, RecordRetry DEF RetryEmpty
  <2>4. CASE RetrySettles(s)
    BY <2>2, <2>4, RecordRetry DEF RetrySettles
  <2>5. CASE RetryRefused(s)
    <3>1. /\ UNCHANGED <<phase, groups, currentCycle, cycleSeq, cycleStatus, outcome, position, held>>
          /\ pending' \subseteq pending
      BY <2>5 DEF RetryRefused, RetryStep
    <3>2. ClockInv'
      BY <3>1 DEF RecordInv, ClockInv
    <3>3. UnopenedIsEmpty'
      BY <3>1 DEF RecordInv, UnopenedIsEmpty
    <3>4. WindowInv'
      BY <3>1 DEF RecordInv, WindowInv, Unclosed, HasPositions
    <3>5. QueueInv'
      BY <3>1 DEF RecordInv, QueueInv
    <3> QED BY <3>2, <3>3, <3>4, <3>5 DEF RecordInv
  <2> QED BY <1>4, <2>3, <2>4, <2>5
<1>5. CASE UNCHANGED vars
  <2>1. UNCHANGED recordVars
    BY <1>5 DEF vars, blockVars, cycleVars, ledgerVars, holdVars, recordVars
  <2> QED BY <2>1, RecordUnchanged
<1> QED BY <1>1, <1>2, <1>3, <1>4, <1>5, RecordQueue, RecordCloseStart, RecordCloseSlice, RecordFinish
     DEF Next, EndBlocker

----------------------------------------------------------------------------
(* What is due: the positions of the slices that still have to settle. *)

\* A slice no settlement has come to.
Unsettled(c, d) == cycleStatus[c] = "open" \/ outcome[c][d].status # "settled"

\* What a slice leaves due, by participant; of the next state too.
DueForm ==
  TypeOK => \A c \in Cycles, d \in Denoms :
    /\ Unsettled(c, d) => Due[c][d] = position[c][d]
    /\ ~Unsettled(c, d) => Due[c][d] = [p \in Participants |-> 0]
    /\ Due[c][d] \in [Participants -> Int]
LEMMA DueIs == DueForm
<1> SUFFICES ASSUME TypeOK, NEW c \in Cycles, NEW d \in Denoms
             PROVE  /\ Unsettled(c, d) => Due[c][d] = position[c][d]
                    /\ ~Unsettled(c, d) => Due[c][d] = [p \in Participants |-> 0]
                    /\ Due[c][d] \in [Participants -> Int]
  BY DEF DueForm
<1>1. position[c][d] \in [Participants -> Int]
  BY DEF TypeOK
<1>2. SliceUnsettled(ExportGenesis, c, d) <=> Unsettled(c, d)
  BY DEF SliceUnsettled, ExportGenesis, Unsettled
<1>3. Due[c][d] = [p \in Participants |->
         IF SliceUnsettled(ExportGenesis, c, d) THEN position[c][d][p] ELSE 0]
  BY DEF Due
<1> QED BY <1>1, <1>2, <1>3
LEMMA DueIsNext == DueForm'
BY DueIs, PTL

\* Nothing that is due changes with a step that leaves every slice with a
\* position as unsettled as it was.
LEMMA DueStays ==
  ASSUME TypeOK, TypeOK', position' = position,
         \A c \in Cycles, d \in Denoms :
           (Unsettled(c, d)' <=> Unsettled(c, d)) \/ ~HasPositions(c, d)
  PROVE  Due' = Due
<1>1. ASSUME NEW c \in Cycles, NEW d \in Denoms PROVE Due'[c][d] = Due[c][d]
  <2>1. /\ Unsettled(c, d) => Due[c][d] = position[c][d]
        /\ ~Unsettled(c, d) => Due[c][d] = [p \in Participants |-> 0]
    BY DueIs DEF DueForm
  <2>2. /\ Unsettled(c, d)' => Due'[c][d] = position[c][d]
        /\ ~Unsettled(c, d)' => Due'[c][d] = [p \in Participants |-> 0]
    <3>1. /\ Unsettled(c, d)' => Due'[c][d] = position'[c][d]
          /\ ~Unsettled(c, d)' => Due'[c][d] = [p \in Participants |-> 0]
      BY DueIsNext DEF DueForm
    <3> QED BY <3>1
  <2>3. CASE ~HasPositions(c, d)
    <3>1. position[c][d] = [p \in Participants |-> 0]
      BY <2>3 DEF HasPositions, TypeOK
    <3> QED BY <2>1, <2>2, <3>1
  <2> QED BY <2>1, <2>2, <2>3
<1>2. /\ Due = [c \in Cycles |-> [d \in Denoms |-> Due[c][d]]]
      /\ Due' = [c \in Cycles |-> [d \in Denoms |-> Due'[c][d]]]
  BY DEF Due
<1> QED BY <1>1, <1>2

\* A step that touches one slice changes what is due there and nowhere else.
LEMMA DueUpdate ==
  ASSUME TypeOK, TypeOK', NEW b \in Cycles, NEW e \in Denoms, NEW row, Due'[b][e] = row,
         \A c \in Cycles, d \in Denoms : c # b \/ d # e =>
           position'[c][d] = position[c][d] /\ (Unsettled(c, d)' <=> Unsettled(c, d))
  PROVE  Due' = [Due EXCEPT ![b][e] = row]
<1>1. ASSUME NEW c \in Cycles, NEW d \in Denoms, c # b \/ d # e PROVE Due'[c][d] = Due[c][d]
  <2>1. position'[c][d] = position[c][d] /\ (Unsettled(c, d)' <=> Unsettled(c, d))
    BY <1>1
  <2>2. /\ Unsettled(c, d) => Due[c][d] = position[c][d]
        /\ ~Unsettled(c, d) => Due[c][d] = [p \in Participants |-> 0]
    BY DueIs DEF DueForm
  <2>3. /\ Unsettled(c, d)' => Due'[c][d] = position'[c][d]
        /\ ~Unsettled(c, d)' => Due'[c][d] = [p \in Participants |-> 0]
    BY DueIsNext DEF DueForm
  <2> QED BY <2>1, <2>2, <2>3
<1> DEFINE new == [c \in Cycles |-> [d \in Denoms |-> IF c = b /\ d = e THEN row ELSE Due[c][d]]]
<1>2. /\ Due = [c \in Cycles |-> [d \in Denoms |-> Due[c][d]]]
      /\ Due' = [c \in Cycles |-> [d \in Denoms |-> Due'[c][d]]]
  BY DEF Due
<1>3. ASSUME NEW c \in Cycles PROVE Due'[c] = new[c]
  <2>1. /\ Due'[c] = [d \in Denoms |-> Due'[c][d]]
        /\ new[c] = [d \in Denoms |-> new[c][d]]
    BY <1>2
  <2>2. \A d \in Denoms : Due'[c][d] = new[c][d]
    BY <1>1
  <2> HIDE DEF new
  <2> QED BY <2>1, <2>2, Zenon
<1>4. Due' = new
  <2>1. /\ Due' = [c \in Cycles |-> Due'[c]]
        /\ new = [c \in Cycles |-> new[c]]
    BY <1>2
  <2> HIDE DEF new
  <2> QED BY <1>3, <2>1, Zenon
<1>5. [Due EXCEPT ![b][e] = row] = new
  <2> DEFINE upd == [Due EXCEPT ![b][e] = row]
  <2>0. DOMAIN Due = Cycles /\ \A c \in Cycles : DOMAIN Due[c] = Denoms
    BY ONLY <1>2
  <2>1. \A c \in Cycles, d \in Denoms :
          upd[c][d] = IF c = b /\ d = e THEN row ELSE Due[c][d]
    BY ONLY <2>0, b \in Cycles, e \in Denoms
  <2>2. upd = [c \in Cycles |-> upd[c]]
    BY ONLY <2>0, b \in Cycles, e \in Denoms
  <2>3. \A c \in Cycles : upd[c] = [d \in Denoms |-> upd[c][d]]
    BY ONLY <1>2, <2>0, b \in Cycles, e \in Denoms
  <2>4. new = [c \in Cycles |-> new[c]]
    OBVIOUS
  <2>5. ASSUME NEW c \in Cycles PROVE upd[c] = new[c]
    <3>1. new[c] = [d \in Denoms |-> new[c][d]] /\ \A d \in Denoms : upd[c][d] = new[c][d]
      BY <2>1
    <3>2. upd[c] = [d \in Denoms |-> upd[c][d]]
      BY <2>3
    <3> HIDE DEF upd, new
    <3> QED BY <3>1, <3>2, Zenon
  <2>6. upd = new
    <3> HIDE DEF upd, new
    <3> QED BY <2>2, <2>4, <2>5, Zenon
  <2> QED BY <2>6
<1> QED BY <1>4, <1>5

Zeros == [p \in Participants |-> 0]

\* SubmitObligation, in the netted mode, adds to what the open slice leaves due.
LEMMA DueSubmit ==
  ASSUME TypeInv, TypeInv', RecordInv, NEW from \in Participants, NEW to \in Participants,
         NEW d \in Denoms, NEW amount \in Amounts, SubmitNet(from, to, d, amount)
  PROVE  Due' = [Due EXCEPT ![currentCycle][d] = Moved(Due[currentCycle][d], from, to, amount)]
<1> DEFINE c == currentCycle
           row == Moved(position[c][d], from, to, amount)
           o == Submitted(outcome[c][d], amount)
<1>1. /\ phase = "deliver" /\ cycleStatus' = cycleStatus /\ c \in Cycles
      /\ position' = [position EXCEPT ![c][d] = row]
      /\ outcome' = [outcome EXCEPT ![c][d] = o]
  BY DEF SubmitNet, MayOwe, ApplyToPositions, TypeInv, TypeOK
<1>2. cycleStatus[c] = "open"
  BY <1>1 DEF RecordInv, ClockInv
<1>3. position \in [Cycles -> [Denoms -> [Participants -> Int]]]
      /\ outcome \in [Cycles -> [Denoms -> Outcomes]]
  BY DEF TypeInv, TypeOK
<1>4. Due[c][d] = position[c][d] /\ Due'[c][d] = position'[c][d]
  <2>1. Unsettled(c, d) /\ Unsettled(c, d)'
    <3>1. Unsettled(c, d)
      BY <1>2 DEF Unsettled
    <3>2. Unsettled(currentCycle, d)'
      <4>1. currentCycle' = currentCycle
        BY DEF SubmitNet
      <4> QED BY <1>1, <1>2, <4>1 DEF Unsettled
    <3>3. currentCycle' = currentCycle
      BY DEF SubmitNet
    <3> QED BY <3>1, <3>2, <3>3 DEF Unsettled
  <2>2. TypeOK /\ TypeOK' /\ currentCycle' = currentCycle
    BY DEF TypeInv, SubmitNet
  <2>3. Due[c][d] = position[c][d]
    BY <1>1, <2>1, <2>2, DueIs DEF DueForm
  <2>4. Due'[c][d] = position'[c][d]
    BY <1>1, <2>1, <2>2, DueIsNext DEF DueForm
  <2> QED BY <2>3, <2>4
<1> HIDE DEF row, o, c
<1>5. position'[c][d] = row
  <2> DEFINE R == [Participants -> Int]
  <2>1. position \in [Cycles -> [Denoms -> R]]
    BY <1>3
  <2> HIDE DEF R
  <2> QED BY <1>1, <2>1
<1>6. \A b \in Cycles, e \in Denoms : b # c \/ e # d =>
        position'[b][e] = position[b][e] /\ (Unsettled(b, e)' <=> Unsettled(b, e))
  <2>1. \A b \in Cycles, e \in Denoms : b # c \/ e # d => outcome'[b][e] = outcome[b][e]
    BY <1>1, <1>3
  <2>2. \A b \in Cycles, e \in Denoms : b # c \/ e # d => position'[b][e] = position[b][e]
    <3> DEFINE R == [Participants -> Int]
    <3>1. position \in [Cycles -> [Denoms -> R]]
      BY <1>3
    <3> HIDE DEF R
    <3> QED BY <1>1, <3>1
  <2> QED BY <1>1, <2>1, <2>2 DEF Unsettled
<1>7. Due' = [Due EXCEPT ![c][d] = row]
  <2>1. TypeOK /\ TypeOK' /\ Due'[c][d] = row
    BY <1>4, <1>5 DEF TypeInv
  <2> QED BY <1>1, <1>6, <2>1, DueUpdate
<1> QED BY <1>4, <1>7 DEF row, c

\* A slice that is settled, at the close or when it is retried, was due and
\* leaves nothing due.
LEMMA DueSettles ==
  ASSUME TypeInv, TypeInv', RecordInv, NEW c \in Cycles, NEW d \in Denoms,
         Unsettled(c, d), ~(Unsettled(c, d)'), position' = position,
         \A b \in Cycles, e \in Denoms :
           b # c \/ e # d => (Unsettled(b, e)' <=> Unsettled(b, e))
  PROVE  Due[c][d] = position[c][d] /\ Due' = [Due EXCEPT ![c][d] = Zeros]
<1>1. TypeOK /\ TypeOK'
  BY DEF TypeInv
<1>2. Due[c][d] = position[c][d]
  BY <1>1, DueIs DEF DueForm
<1>3. Due'[c][d] = Zeros
  BY <1>1, DueIsNext DEF DueForm, Zeros
<1>4. Due' = [Due EXCEPT ![c][d] = Zeros]
  BY <1>1, <1>3, DueUpdate
<1> QED BY <1>2, <1>4

\* Giving up on a held slice leaves nothing of it due.
LEMMA DueAbandon ==
  ASSUME TypeInv, TypeInv', RecordInv, NEW c \in Cycles, NEW d \in Denoms, AbandonHeldSlice(c, d)
  PROVE  Due[c][d] = position[c][d] /\ Due' = [Due EXCEPT ![c][d] = Zeros]
<1> DEFINE o == AbandonedOutcome(outcome[c][d])
<1>1. /\ TypeOK /\ TypeOK' /\ cycleStatus' = cycleStatus
      /\ position' = [position EXCEPT ![c][d] = Zeros]
      /\ outcome' = [outcome EXCEPT ![c][d] = o]
  BY DEF AbandonHeldSlice, TypeInv, Zeros
<1>2. outcome[c][d].status = "held" /\ outcome[c][d] \in Outcomes
  BY <1>1, RecordAbandon DEF TypeOK
<1>3. o.status = "held"
  BY <1>2 DEF AbandonedOutcome, Outcomes
<1>4. position \in [Cycles -> [Denoms -> [Participants -> Int]]]
      /\ outcome \in [Cycles -> [Denoms -> Outcomes]]
  BY <1>1 DEF TypeOK
<1> HIDE DEF o
<1>5. Due[c][d] = position[c][d]
  BY <1>1, <1>2, DueIs DEF DueForm, Unsettled
<1>6. Due'[c][d] = Zeros
  <2>1. Unsettled(c, d)'
    <3>1. outcome'[c][d].status = "held"
      BY <1>1, <1>3, <1>4
    <3> QED BY <3>1 DEF Unsettled
  <2>2. position'[c][d] = Zeros
    BY <1>1, <1>4
  <2> QED BY <1>1, <2>1, <2>2, DueIsNext DEF DueForm
<1>7. \A b \in Cycles, e \in Denoms : b # c \/ e # d =>
        position'[b][e] = position[b][e] /\ (Unsettled(b, e)' <=> Unsettled(b, e))
  <2>1. \A b \in Cycles, e \in Denoms : b # c \/ e # d => outcome'[b][e] = outcome[b][e]
    BY <1>1, <1>4
  <2>2. \A b \in Cycles, e \in Denoms : b # c \/ e # d => position'[b][e] = position[b][e]
    <3> DEFINE R == [Participants -> Int]
    <3>1. position \in [Cycles -> [Denoms -> R]]
      BY <1>4
    <3> HIDE DEF R
    <3> QED BY <1>1, <3>1
  <2> QED BY <1>1, <2>1, <2>2 DEF Unsettled
<1>8. Due' = [Due EXCEPT ![c][d] = Zeros]
  BY <1>1, <1>6, <1>7, DueUpdate
<1> QED BY <1>5, <1>8

\* A step that moves neither reserves nor the participants' own money.
LEMMA WealthStays == balance' = balance /\ reserve' = reserve => Wealth' = Wealth
BY DEF Wealth

\* Posting or withdrawing reserve moves money between a participant's pockets.
LEMMA WealthPosts ==
  ASSUME TypeInv, NEW p \in Participants, NEW coins \in Coins,
         PostReserve(p, coins) \/ WithdrawReserve(p, coins)
  PROVE  Wealth' = Wealth
<1>1. /\ coins \in [Denoms -> Nat]
      /\ balance \in [Participants -> [Denoms -> Nat]]
      /\ reserve \in [Participants -> [Denoms -> Nat]]
  BY CoinsType DEF TypeInv, TypeOK
<1>2. ASSUME NEW q \in Participants, NEW d \in Denoms
      PROVE  balance'[q][d] + reserve'[q][d] = balance[q][d] + reserve[q][d]
  <2>1. CASE PostReserve(p, coins)
    <3>1. /\ balance'[q][d] = IF q = p THEN balance[q][d] - coins[d] ELSE balance[q][d]
          /\ reserve'[q][d] = IF q = p THEN reserve[q][d] + coins[d] ELSE reserve[q][d]
      BY <1>1, <2>1 DEF PostReserve
    <3>2. balance[q][d] \in Int /\ reserve[q][d] \in Int /\ coins[d] \in Int
      BY <1>1
    <3> QED BY <3>1, <3>2
  <2>2. CASE WithdrawReserve(p, coins)
    <3>1. /\ balance'[q][d] = IF q = p THEN balance[q][d] + coins[d] ELSE balance[q][d]
          /\ reserve'[q][d] = IF q = p THEN reserve[q][d] - coins[d] ELSE reserve[q][d]
      BY <1>1, <2>2 DEF WithdrawReserve
    <3>2. balance[q][d] \in Int /\ reserve[q][d] \in Int /\ coins[d] \in Int
      BY <1>1
    <3> QED BY <3>1, <3>2
  <2> QED BY <2>1, <2>2
<1> QED BY <1>2 DEF Wealth

\* Each step, in terms of what is due.
DueNext ==
  \/ Due' = Due /\ locked' = locked /\ Wealth' = Wealth
  \/ Due' = Due /\ locked' = locked
     /\ \E from, to \in Participants, d \in Denoms, amount \in Amounts : SubmitGross(from, to, d, amount)
  \/ Due' = Due /\ Wealth' = Wealth /\ ExportAndImport
  \/ \E from, to \in Participants, d \in Denoms, amount \in Amounts :
       /\ SubmitNet(from, to, d, amount) /\ Wealth' = Wealth
       /\ Due' = [Due EXCEPT ![currentCycle][d] = Moved(Due[currentCycle][d], from, to, amount)]
  \/ \E c \in Cycles, d \in Denoms :
       /\ Due[c][d] = position[c][d] /\ Due' = [Due EXCEPT ![c][d] = Zeros]
       /\ \/ SettleGroup(c, d) /\ balance' = balance
          \/ AbandonHeldSlice(c, d) /\ Wealth' = Wealth

\* The steps of messages and of governance.
LEMMA DueMessages == TypeInv /\ RecordInv /\ (Messages \/ Governance) => DueNext
<1> SUFFICES ASSUME TypeInv, RecordInv, Messages \/ Governance PROVE DueNext
  OBVIOUS
<1>0. TypeInv' /\ TypeOK /\ TypeOK' /\ RecordInv'
  BY TypeStep, RecordStep DEF Next, TypeInv
<1>1. ASSUME UNCHANGED <<position, cycleStatus, outcome>> PROVE Due' = Due
  <2>1. \A c \in Cycles, d \in Denoms : Unsettled(c, d)' <=> Unsettled(c, d)
    BY <1>1 DEF Unsettled
  <2> QED BY <1>0, <1>1, <2>1, DueStays
<1>2. ASSUME NEW p \in Participants, NEW coins \in Coins,
             PostReserve(p, coins) \/ WithdrawReserve(p, coins)
      PROVE  DueNext
  <2>1. UNCHANGED <<position, cycleStatus, outcome, locked>>
    BY <1>2 DEF PostReserve, WithdrawReserve, cycleVars
  <2> QED BY <1>1, <1>2, <2>1, WealthPosts DEF DueNext
<1>3. ASSUME NEW from \in Participants, NEW to \in Participants, NEW d \in Denoms,
             NEW amount \in Amounts, SubmitGross(from, to, d, amount)
      PROVE  DueNext
  <2>1. UNCHANGED <<position, cycleStatus, outcome, locked>>
    BY <1>3 DEF SubmitGross, cycleVars, ledgerVars
  <2> QED BY <1>1, <1>3, <2>1 DEF DueNext
<1>4. ASSUME NEW from \in Participants, NEW to \in Participants, NEW d \in Denoms,
             NEW amount \in Amounts, SubmitNet(from, to, d, amount)
      PROVE  DueNext
  <2>1. balance' = balance /\ reserve' = reserve
    BY <1>4 DEF SubmitNet, bankVars
  <2>2. Due' = [Due EXCEPT ![currentCycle][d] = Moved(Due[currentCycle][d], from, to, amount)]
    BY <1>0, <1>4, DueSubmit
  <2> QED BY <1>4, <2>1, <2>2, WealthStays DEF DueNext
<1>5. ASSUME NEW p \in Applicants, ApproveParticipant(p) PROVE DueNext
  <2>1. UNCHANGED <<position, cycleStatus, outcome, locked, balance, reserve>>
    BY <1>5 DEF ApproveParticipant, cycleVars, ledgerVars, bankVars
  <2> QED BY <1>1, <2>1, WealthStays DEF DueNext
<1>6. ASSUME NEW p \in ParamChoices, UpdateParams(p) PROVE DueNext
  <2>1. UNCHANGED <<position, cycleStatus, outcome, locked, balance, reserve>>
    BY <1>6 DEF UpdateParams, cycleVars, ledgerVars, bankVars
  <2> QED BY <1>1, <2>1, WealthStays DEF DueNext
<1>7. ASSUME NEW s \in held, AbandonHeldSlice(s[1], s[2]) PROVE DueNext
  <2>1. s[1] \in Cycles /\ s[2] \in Denoms
    BY DEF TypeInv, TypeOK, Slices
  <2>2. balance' = balance /\ reserve' = reserve
    BY <1>7 DEF AbandonHeldSlice, bankVars
  <2>3. Due[s[1]][s[2]] = position[s[1]][s[2]] /\ Due' = [Due EXCEPT ![s[1]][s[2]] = Zeros]
    BY <1>0, <1>7, <2>1, DueAbandon
  <2> QED BY <1>7, <2>1, <2>2, <2>3, WealthStays DEF DueNext
<1> QED BY <1>2, <1>3, <1>4, <1>5, <1>6, <1>7 DEF Messages, Governance

\* The steps of the end blocker.
LEMMA DueEndBlocker == TypeInv /\ RecordInv /\ EndBlocker => DueNext
<1> SUFFICES ASSUME TypeInv, RecordInv, EndBlocker PROVE DueNext
  OBVIOUS
<1>0. TypeInv' /\ TypeOK /\ TypeOK' /\ RecordInv'
  BY TypeStep, RecordStep DEF Next, TypeInv
<1>1. CASE EndBlockIdle \/ EndBlockCollect
  <2>1. UNCHANGED <<position, cycleStatus, outcome, locked, balance, reserve>>
    BY <1>1 DEF EndBlockIdle, EndBlockCollect, cycleVars, ledgerVars, bankVars
  <2>2. \A c \in Cycles, d \in Denoms : Unsettled(c, d)' <=> Unsettled(c, d)
    BY <2>1 DEF Unsettled
  <2>3. Due' = Due
    BY <1>0, <2>1, <2>2, DueStays
  <2> QED BY <2>1, <2>3, WealthStays DEF DueNext
<1>2. ASSUME NEW s \in pending, RetryEmpty(s) PROVE DueNext
  <2>1. s[1] \in Cycles /\ s[2] \in Denoms
    BY DEF TypeInv, TypeOK, Slices
  <2>2. UNCHANGED <<position, locked, balance, reserve>> /\ ~HasPositions(s[1], s[2])
        /\ RetryStep(s) /\ MarkRetried(s[1], s[2], 0)
    BY <1>2 DEF RetryEmpty, RetryStep, bankVars
  <2>3. /\ \A b \in Cycles, e \in Denoms : b # s[1] \/ e # s[2] => outcome'[b][e] = outcome[b][e]
        /\ \A b \in Cycles : b # s[1] => cycleStatus'[b] = cycleStatus[b]
        /\ cycleStatus'[s[1]] \in {"held", "settled"} /\ cycleStatus[s[1]] # "open"
    BY <2>2, RecordRetry
  <2>4. \A c \in Cycles, d \in Denoms :
          (Unsettled(c, d)' <=> Unsettled(c, d)) \/ ~HasPositions(c, d)
    BY <2>2, <2>3 DEF Unsettled
  <2>5. Due' = Due
    BY <1>0, <2>2, <2>4, DueStays
  <2> QED BY <2>2, <2>5, WealthStays DEF DueNext
<1>3. ASSUME NEW s \in pending, RetrySettles(s) PROVE DueNext
  <2>1. s[1] \in Cycles /\ s[2] \in Denoms
    BY DEF TypeInv, TypeOK, Slices
  <2>2. /\ UNCHANGED <<position, balance>> /\ SettleGroup(s[1], s[2])
        /\ RetryStep(s) /\ MarkRetried(s[1], s[2], Debits(position[s[1]][s[2]]))
    BY <1>3 DEF RetrySettles, RetryStep, bankVars
  <2>3. Debits(position[s[1]][s[2]]) \in Nat
    BY <1>0, <2>1, Entries, DebitsType
  <2>4. /\ \A b \in Cycles, e \in Denoms : b # s[1] \/ e # s[2] => outcome'[b][e] = outcome[b][e]
        /\ \A b \in Cycles : b # s[1] => cycleStatus'[b] = cycleStatus[b]
        /\ cycleStatus'[s[1]] \in {"held", "settled"} /\ cycleStatus[s[1]] # "open"
        /\ outcome[s[1]][s[2]].status = "held" /\ outcome'[s[1]][s[2]].status = "settled"
    BY <2>2, <2>3, RecordRetry
  <2>5. /\ Unsettled(s[1], s[2]) /\ ~(Unsettled(s[1], s[2])')
        /\ \A b \in Cycles, e \in Denoms :
             b # s[1] \/ e # s[2] => (Unsettled(b, e)' <=> Unsettled(b, e))
    BY <2>4 DEF Unsettled
  <2>6. Due[s[1]][s[2]] = position[s[1]][s[2]] /\ Due' = [Due EXCEPT ![s[1]][s[2]] = Zeros]
    BY <1>0, <2>1, <2>2, <2>5, DueSettles
  <2> QED BY <2>1, <2>2, <2>6 DEF DueNext
<1>4. ASSUME NEW s \in pending, RetryRefused(s) PROVE DueNext
  <2>1. UNCHANGED <<position, cycleStatus, outcome, locked, balance, reserve>>
    BY <1>4 DEF RetryRefused, RetryStep, bankVars
  <2>2. \A c \in Cycles, d \in Denoms : Unsettled(c, d)' <=> Unsettled(c, d)
    BY <2>1 DEF Unsettled
  <2>3. Due' = Due
    BY <1>0, <2>1, <2>2, DueStays
  <2> QED BY <2>1, <2>3, WealthStays DEF DueNext
<1>5. CASE CloseStart
  <2>1. UNCHANGED <<position, outcome, locked, balance, reserve>>
    BY <1>5 DEF CloseStart, ledgerVars, bankVars
  <2>2. /\ \A c \in Cycles : c # currentCycle => cycleStatus'[c] = cycleStatus[c]
        /\ \A d \in Denoms : outcome[currentCycle][d].status # "settled"
    BY <1>5, RecordCloseStart
  <2>3. \A c \in Cycles, d \in Denoms : Unsettled(c, d)' <=> Unsettled(c, d)
    BY <2>1, <2>2 DEF Unsettled
  <2>4. Due' = Due
    BY <1>0, <2>1, <2>3, DueStays
  <2> QED BY <2>1, <2>4, WealthStays DEF DueNext
<1>6. ASSUME NEW d \in groups, CloseSettles(d) \/ CloseHolds(d) PROVE DueNext
  <2>1. position' = position /\ balance' = balance
    BY <1>6 DEF CloseSettles, CloseHolds, CloseStep, bankVars
  <2>2. /\ d \in Denoms /\ currentCycle \in Cycles
        /\ \A c \in Cycles, e \in Denoms :
             c # currentCycle \/ e # d => outcome'[c][e] = outcome[c][e]
        /\ \A c \in Cycles : c # currentCycle => cycleStatus'[c] = cycleStatus[c]
        /\ cycleStatus[currentCycle] # "open" /\ cycleStatus'[currentCycle] # "open"
        /\ outcome[currentCycle][d].status \in {"none", "open"}
        /\ CloseSettles(d) => outcome'[currentCycle][d].status = "settled"
        /\ CloseHolds(d) => outcome'[currentCycle][d].status = "held"
    BY <1>6, RecordCloseSlice
  <2>3. \A c \in Cycles, e \in Denoms :
          c # currentCycle \/ e # d => (Unsettled(c, e)' <=> Unsettled(c, e))
    BY <2>2 DEF Unsettled
  <2>4. CASE CloseSettles(d)
    <3>1. Unsettled(currentCycle, d)
      BY <2>2 DEF Unsettled
    <3>2. ASSUME NEW c, c = currentCycle PROVE ~(Unsettled(c, d)')
      BY <2>2, <2>4, <3>2 DEF Unsettled
    <3>3. PICK c \in Cycles : c = currentCycle
      BY <2>2
    <3>4. Due[c][d] = position[c][d] /\ Due' = [Due EXCEPT ![c][d] = Zeros]
      BY <1>0, <2>1, <2>2, <2>3, <3>1, <3>2, <3>3, DueSettles
    <3>5. SettleGroup(c, d)
      BY <2>4, <3>3 DEF CloseSettles
    <3> QED BY <2>1, <2>2, <3>4, <3>5 DEF DueNext
  <2>5. CASE CloseHolds(d)
    <3>1. \A c \in Cycles, e \in Denoms : Unsettled(c, e)' <=> Unsettled(c, e)
      BY <2>2, <2>3, <2>5 DEF Unsettled
    <3>2. Due' = Due
      BY <1>0, <2>1, <3>1, DueStays
    <3>3. locked' = locked /\ reserve' = reserve
      BY <2>5 DEF CloseHolds
    <3> QED BY <2>1, <3>2, <3>3, WealthStays DEF DueNext
  <2> QED BY <1>6, <2>4, <2>5
<1>7. CASE EndBlockFinish
  <2>1. UNCHANGED <<locked, balance, reserve>>
    BY <1>7 DEF EndBlockFinish, ledgerVars, bankVars
  <2>2. /\ position' = position
        /\ \A c \in Cycles, d \in Denoms : c # currentCycle => outcome'[c][d] = outcome[c][d]
        /\ \A d \in Denoms : outcome'[currentCycle][d].status = outcome[currentCycle][d].status
                             \/ ~HasPositions(currentCycle, d)
        /\ cycleSeq \in Cycles /\ cycleStatus[cycleSeq] = "none"
        /\ cycleStatus[currentCycle] # "open" /\ cycleStatus'[currentCycle] # "open"
        /\ \A c \in Cycles : c # cycleSeq => cycleStatus'[c] = cycleStatus[c]
    BY <1>7, RecordFinish
  <2>3. \A d \in Denoms : ~HasPositions(cycleSeq, d)
    BY <2>2 DEF RecordInv, UnopenedIsEmpty, HasPositions
  <2>4. \A c \in Cycles, d \in Denoms :
          (Unsettled(c, d)' <=> Unsettled(c, d)) \/ ~HasPositions(c, d)
    BY <2>2, <2>3 DEF Unsettled
  <2>5. Due' = Due
    BY <1>0, <2>2, <2>4, DueStays
  <2> QED BY <2>1, <2>5, WealthStays DEF DueNext
<1> QED BY <1>1, <1>2, <1>3, <1>4, <1>5, <1>6, <1>7 DEF EndBlocker

\* Every step is one of DueNext.
LEMMA DueSteps == TypeInv /\ RecordInv /\ [Next]_vars => DueNext
<1> SUFFICES ASSUME TypeInv, RecordInv, [Next]_vars PROVE DueNext
  OBVIOUS
<1>0. TypeOK /\ TypeOK'
  BY TypeStep DEF TypeInv
<1>1. ASSUME UNCHANGED <<position, cycleStatus, outcome, balance, reserve>>
      PROVE  Due' = Due /\ Wealth' = Wealth
  <2>1. \A c \in Cycles, d \in Denoms : Unsettled(c, d)' <=> Unsettled(c, d)
    BY <1>1 DEF Unsettled
  <2> QED BY <1>0, <1>1, <2>1, DueStays, WealthStays
<1>2. CASE ExportAndImport
  <2>1. UNCHANGED <<position, cycleStatus, outcome, balance, reserve>>
    BY <1>2 DEF ExportAndImport, cycleVars, bankVars
  <2> QED BY <1>1, <1>2, <2>1 DEF DueNext
<1>3. CASE UNCHANGED vars
  <2>1. UNCHANGED <<position, cycleStatus, outcome, balance, reserve, locked>>
    BY <1>3 DEF vars, cycleVars, bankVars, ledgerVars
  <2> QED BY <1>1, <2>1 DEF DueNext
<1> QED BY <1>2, <1>3, DueMessages, DueEndBlocker DEF Next

----------------------------------------------------------------------------
(* What is committed is what is owed *)

\* What p owes in d over all cycles, from what is due.
OwedOf(due, p, d) == SumFunctionOnSet([c \in Cycles |-> DebitOf(due[c][d][p])], Cycles)

\* The figure InitGenesis rebuilds, of this state and of the next.
OwedForm ==
  TypeOK => \A p \in Participants, d \in Denoms :
              LockedFrom(ExportGenesis)[p][d] = OwedOf(Due, p, d)
LEMMA OwedIs == OwedForm
<1> SUFFICES ASSUME TypeOK, NEW p \in Participants, NEW d \in Denoms
             PROVE  OwedUnsettled(ExportGenesis, p, d) = OwedOf(Due, p, d)
  BY DEF OwedForm, LockedFrom
<1> DEFINE f == [c \in Cycles |-> IF SliceUnsettled(ExportGenesis, c, d)
                                  THEN DebitOf(ExportGenesis.position[c][d][p]) ELSE 0]
           g == [c \in Cycles |-> DebitOf(Due[c][d][p])]
<1>1. \A c \in Cycles : f[c] = g[c]
  <2>1. ExportGenesis.position = position
    BY DEF ExportGenesis
  <2>2. \A c \in Cycles : Due[c][d][p] = IF SliceUnsettled(ExportGenesis, c, d) THEN position[c][d][p] ELSE 0
    BY DEF Due
  <2> QED BY <2>1, <2>2 DEF DebitOf
<1> HIDE DEF f, g
<1>2. SumFunctionOnSet(f, Cycles) = SumFunctionOnSet(g, Cycles)
  BY <1>1, SumCong, CyclesFinite
<1> QED BY <1>2 DEF OwedUnsettled, OwedOf, f, g
LEMMA OwedIsNext == OwedForm'
BY OwedIs, PTL

\* What is due changes in one slice only.
OneSlice(due, new, b, e, row) ==
  /\ due \in [Cycles -> [Denoms -> [Participants -> Int]]] /\ row \in [Participants -> Int]
  /\ new = [due EXCEPT ![b][e] = row]

\* Then what each participant owes in that currency changes by the change of
\* its debit there.
LEMMA OwedUpdate ==
  ASSUME NEW due, NEW new, NEW b \in Cycles, NEW e \in Denoms, NEW row,
         OneSlice(due, new, b, e, row)
  PROVE  \A p \in Participants, d \in Denoms :
           OwedOf(new, p, d)
             = IF d = e THEN OwedOf(due, p, d) + (DebitOf(row[p]) - DebitOf(due[b][e][p]))
                        ELSE OwedOf(due, p, d)
<1>0. /\ due \in [Cycles -> [Denoms -> [Participants -> Int]]] /\ row \in [Participants -> Int]
      /\ new = [due EXCEPT ![b][e] = row]
  BY DEF OneSlice
<1> TAKE p \in Participants, d \in Denoms
<1> DEFINE f == [c \in Cycles |-> DebitOf(due[c][d][p])]
           g == [c \in Cycles |-> DebitOf(new[c][d][p])]
           k == DebitOf(row[p]) - DebitOf(due[b][e][p])
<1>1. \A c \in Cycles : f[c] \in Int /\ f[c] = DebitOf(due[c][d][p]) /\ g[c] = DebitOf(new[c][d][p])
  <2>1. \A c \in Cycles : due[c][d][p] \in Int
    BY <1>0
  <2>2. \A i \in Int : DebitOf(i) \in Int
    BY DebitType
  <2> QED BY <2>1, <2>2
<1>2. k \in Int
  <2>1. row[p] \in Int /\ due[b][e][p] \in Int
    BY <1>0
  <2> QED BY <2>1, DebitType
<1>3. \A c \in Cycles, x \in Denoms : new[c][x] = IF c = b /\ x = e THEN row ELSE due[c][x]
  <2> DEFINE R == [Participants -> Int]
  <2>1. due \in [Cycles -> [Denoms -> R]] /\ new = [due EXCEPT ![b][e] = row]
    BY <1>0
  <2> HIDE DEF R
  <2> QED BY <2>1
<1>4. OwedOf(due, p, d) = SumFunctionOnSet(f, Cycles) /\ OwedOf(new, p, d) = SumFunctionOnSet(g, Cycles)
  BY DEF OwedOf
<1> HIDE DEF f, g
<1>5. SumFunctionOnSet(f, Cycles) \in Int
  BY <1>1, SumType, CyclesFinite
<1>6. ASSUME d = e
      PROVE  OwedOf(new, p, d) = OwedOf(due, p, d) + k
  <2>1. g[b] = DebitOf(row[p]) /\ f[b] = DebitOf(due[b][e][p])
    BY <1>1, <1>3, <1>6
  <2>2. g[b] = f[b] + k
    <3>1. row[p] \in Int /\ due[b][e][p] \in Int
      BY <1>0
    <3>2. DebitOf(row[p]) \in Int /\ DebitOf(due[b][e][p]) \in Int
      BY <3>1, DebitType
    <3> QED BY <2>1, <3>2
  <2>3. \A c \in Cycles : c # b => g[c] = f[c]
    BY <1>1, <1>3
  <2> HIDE DEF k
  <2>4. SumFunctionOnSet(g, Cycles) = SumFunctionOnSet(f, Cycles) + k
    <3>1. \A c \in Cycles : f[c] \in Int
      BY <1>1
    <3>2. g[b] = f[b] + k
      BY <2>2
    <3>3. \A c \in Cycles : c # b => g[c] = f[c]
      BY <2>3
    <3> QED BY ONLY b \in Cycles, <1>2, <3>1, <3>2, <3>3, SumUpdate, CyclesFinite
  <2> QED BY <1>4, <2>4
<1>7. ASSUME d # e
      PROVE  OwedOf(new, p, d) = OwedOf(due, p, d)
  <2>1. \A c \in Cycles : g[c] = f[c]
    BY <1>1, <1>3, <1>7
  <2>2. SumFunctionOnSet(g, Cycles) = SumFunctionOnSet(f, Cycles)
    BY <2>1, SumCong, CyclesFinite
  <2> QED BY <1>4, <2>2
<1> QED BY <1>6, <1>7

\* Every step keeps the committed figure equal to what is owed.
LEMMA CommittedStep ==
  TypeInv /\ RecordInv /\ CommittedIsOwed /\ [Next]_vars => CommittedIsOwed'
<1> SUFFICES ASSUME TypeInv, RecordInv, CommittedIsOwed, [Next]_vars PROVE CommittedIsOwed'
  OBVIOUS
<1>0. TypeOK /\ TypeOK' /\ DueNext
  BY TypeStep, DueSteps DEF TypeInv
<1>1. /\ locked \in [Participants -> [Denoms -> Nat]]
      /\ locked' \in [Participants -> [Denoms -> Nat]]
      /\ Due \in [Cycles -> [Denoms -> [Participants -> Int]]]
      /\ currentCycle \in Cycles
  <2>1. Due = [c \in Cycles |-> [d \in Denoms |-> Due[c][d]]]
    BY DEF Due
  <2>2. \A c \in Cycles, d \in Denoms : Due[c][d] \in [Participants -> Int]
    BY <1>0, DueIs DEF DueForm
  <2>3. Due \in [Cycles -> [Denoms -> [Participants -> Int]]]
    BY <2>1, <2>2
  <2> QED BY <1>0, <2>3 DEF TypeOK
<1>2. \A p \in Participants, d \in Denoms : locked[p][d] = OwedOf(Due, p, d)
  BY <1>0, OwedIs DEF OwedForm, CommittedIsOwed
<1>3. SUFFICES \A p \in Participants, d \in Denoms : locked'[p][d] = OwedOf(Due', p, d)
  <2>1. \A p \in Participants, d \in Denoms :
          LockedFrom(ExportGenesis)'[p][d] = OwedOf(Due', p, d)
    <3>1. \A p \in Participants, d \in Denoms :
            LockedFrom(ExportGenesis)'[p][d] = OwedOf(Due, p, d)'
      BY <1>0, OwedIsNext DEF OwedForm
    <3>2. \A p \in Participants, d \in Denoms : OwedOf(Due, p, d)' = OwedOf(Due', p, d)
      BY DEF OwedOf
    <3> QED BY <3>1, <3>2
  <2>2. locked' = LockedFrom(ExportGenesis)'
    <3>1. LockedFrom(ExportGenesis)' =
            [p \in Participants |-> [d \in Denoms |-> LockedFrom(ExportGenesis)'[p][d]]]
      BY DEF LockedFrom
    <3>2. locked' = [p \in Participants |-> [d \in Denoms |-> locked'[p][d]]]
      BY <1>1
    <3>3. \A p \in Participants, d \in Denoms : locked'[p][d] = LockedFrom(ExportGenesis)'[p][d]
      BY <1>3, <2>1
    <3> QED BY <3>1, <3>2, <3>3
  <2> QED BY <2>2 DEF CommittedIsOwed
<1>4. CASE Due' = Due /\ locked' = locked
  BY <1>2, <1>4
<1>5. CASE ExportAndImport /\ Due' = Due
  <2>1. locked' = LockedFrom(ExportGenesis)
    BY <1>5 DEF ExportAndImport, RebuiltFrom
  <2> QED BY <1>0, <1>5, <2>1, OwedIs DEF OwedForm
<1> DEFINE Follows(c, e, row) ==
             \A p \in Participants, d \in Denoms : locked'[p][d] =
               IF d = e THEN locked[p][d] + (DebitOf(row[p]) - DebitOf(Due[c][e][p])) ELSE locked[p][d]
           Changed(c, e, row) == OneSlice(Due, Due', c, e, row)
<1>6. ASSUME NEW c \in Cycles, NEW e \in Denoms, NEW row, Changed(c, e, row), Follows(c, e, row)
      PROVE  \A p \in Participants, d \in Denoms : locked'[p][d] = OwedOf(Due', p, d)
  <2> SUFFICES ASSUME NEW p \in Participants, NEW d \in Denoms
               PROVE  locked'[p][d] = OwedOf(Due', p, d)
    OBVIOUS
  <2>1. OwedOf(Due', p, d) = IF d = e
                             THEN OwedOf(Due, p, d) + (DebitOf(row[p]) - DebitOf(Due[c][e][p]))
                             ELSE OwedOf(Due, p, d)
    <3>1. PICK due, new : due = Due /\ new = Due'
      OBVIOUS
    <3>2. OneSlice(due, new, c, e, row)
      BY <1>6, <3>1
    <3>3. \A q \in Participants, x \in Denoms :
            OwedOf(new, q, x)
              = IF x = e THEN OwedOf(due, q, x) + (DebitOf(row[q]) - DebitOf(due[c][e][q]))
                         ELSE OwedOf(due, q, x)
      BY <3>2, OwedUpdate
    <3> QED BY <3>1, <3>3
  <2> QED BY <1>2, <1>6, <2>1
<1> HIDE DEF Follows, Changed
<1>7. ASSUME NEW from \in Participants, NEW to \in Participants, NEW e \in Denoms,
             NEW amount \in Amounts, SubmitNet(from, to, e, amount),
             Due' = [Due EXCEPT ![currentCycle][e] = Moved(Due[currentCycle][e], from, to, amount)]
      PROVE  \A p \in Participants, d \in Denoms : locked'[p][d] = OwedOf(Due', p, d)
  <2> DEFINE old == position[currentCycle][e]
             row == Moved(old, from, to, amount)
  <2>1. amount \in Nat /\ old \in [Participants -> Int]
    BY <1>0, <1>1, Entries, BoundAssumption
  <2>2. Due[currentCycle][e] = old
    <3>1. cycleStatus[currentCycle] = "open"
      BY <1>7 DEF SubmitNet, MayOwe, RecordInv, ClockInv
    <3> QED BY <1>0, <1>1, <3>1, DueIs DEF DueForm, Unsettled
  <2>3. /\ from # to
        /\ locked'[from][e] = locked[from][e] + LockDelta(old[from], old[from] - amount)
        /\ locked'[to][e] = locked[to][e] + LockDelta(old[to], old[to] + amount)
        /\ \A p \in Participants, d \in Denoms :
             (d = e => p # from /\ p # to) => locked'[p][d] = locked[p][d]
    BY <1>0, <1>7, <2>1, SubmitNetLocks
  <2> HIDE DEF old
  <2>4. /\ row \in [Participants -> Int] /\ row[from] = old[from] - amount /\ row[to] = old[to] + amount
        /\ \A p \in Participants : p # from /\ p # to => row[p] = old[p]
    BY <2>1, <2>3 DEF Moved
  <2> HIDE DEF row
  <2>5. ASSUME NEW p \in Participants, NEW d \in Denoms
        PROVE  locked'[p][d] =
                 IF d = e THEN locked[p][d] + (DebitOf(row[p]) - DebitOf(old[p])) ELSE locked[p][d]
    <3>1. CASE d = e /\ p = from
      BY <2>3, <2>4, <3>1 DEF LockDelta
    <3>2. CASE d = e /\ p = to
      BY <2>3, <2>4, <3>2 DEF LockDelta
    <3>3. CASE d = e => p # from /\ p # to
      <4>1. locked'[p][d] = locked[p][d] /\ locked[p][d] \in Nat
        BY <1>1, <2>3, <3>3
      <4>2. d = e => DebitOf(row[p]) = DebitOf(old[p]) /\ DebitOf(old[p]) \in Nat
        BY <2>1, <2>4, <3>3, DebitType
      <4> QED BY <4>1, <4>2
    <3> QED BY <3>1, <3>2, <3>3
  <2>6. Changed(currentCycle, e, row)
    <3>1. Due' = [Due EXCEPT ![currentCycle][e] = row]
      BY <1>7, <2>2 DEF row
    <3> QED BY <1>1, <2>4, <3>1 DEF Changed, OneSlice
  <2>7. Follows(currentCycle, e, row)
    BY <2>2, <2>5 DEF Follows
  <2> QED BY <1>1, <1>6, <2>6, <2>7
<1>8. ASSUME NEW c \in Cycles, NEW e \in Denoms, Due[c][e] = position[c][e],
             Due' = [Due EXCEPT ![c][e] = Zeros], SettleGroup(c, e) \/ AbandonHeldSlice(c, e)
      PROVE  \A p \in Participants, d \in Denoms : locked'[p][d] = OwedOf(Due', p, d)
  <2>1. locked' = [p \in Participants |-> [locked[p] EXCEPT ![e] = @ - DebitOf(position[c][e][p])]]
    BY <1>8 DEF SettleGroup, AbandonHeldSlice
  <2>2. Zeros \in [Participants -> Int] /\ \A p \in Participants : DebitOf(Zeros[p]) = 0
    BY DEF Zeros, DebitOf
  <2>3. ASSUME NEW p \in Participants, NEW d \in Denoms
        PROVE  locked'[p][d] =
                 IF d = e THEN locked[p][d] + (DebitOf(Zeros[p]) - DebitOf(Due[c][e][p])) ELSE locked[p][d]
    <3>1. locked'[p][d] = IF d = e THEN locked[p][d] - DebitOf(position[c][e][p]) ELSE locked[p][d]
      BY <1>1, <2>1
    <3>2. locked[p][d] \in Int /\ DebitOf(position[c][e][p]) \in Int
      <4>1. position[c][e][p] \in Int /\ locked[p][d] \in Nat
        BY <1>0, Entries
      <4>2. \A k \in Int : DebitOf(k) \in Int
        BY DEF DebitOf
      <4>3. locked[p][d] \in Int
        BY <4>1
      <4> QED BY <4>1, <4>2, <4>3, Zenon
    <3>3. DebitOf(Zeros[p]) = 0 /\ Due[c][e][p] = position[c][e][p]
      BY <1>8, <2>2
    <3> DEFINE owed == DebitOf(position[c][e][p])
    <3> HIDE DEF owed
    <3>4. locked[p][d] - owed = locked[p][d] + (0 - owed)
      BY <3>2 DEF owed
    <3> QED BY ONLY <3>1, <3>3, <3>4 DEF owed
  <2>4. Changed(c, e, Zeros)
    BY <1>1, <1>8, <2>2 DEF Changed, OneSlice
  <2>5. Follows(c, e, Zeros)
    BY <2>3 DEF Follows
  <2> QED BY <1>6, <2>4, <2>5
<1> QED BY <1>0, <1>4, <1>5, <1>7, <1>8 DEF DueNext

\* The collateral of keeper.go is never stale: however submissions offset each
\* other, slices settle at the close or on a retry, are abandoned or are
\* carried over a restart, what adjustLocked and settleGroup have added up is
\* exactly what the unsettled slices owe, participant by participant.
THEOREM CommittedAlwaysOwed == Spec => []CommittedIsOwed
<1>1. Init => TypeInv /\ RecordInv /\ CommittedIsOwed
  <2>1. ASSUME NEW g \in Genesis, InitFrom(g) PROVE CommittedIsOwed
    <3>1. locked = LockedFrom(g)
      BY <2>1 DEF InitFrom, RebuiltFrom
    <3>2. /\ ExportGenesis.position = g.position /\ ExportGenesis.outcome = g.outcome
          /\ ExportGenesis.cycleStatus = g.cycleStatus
      BY <2>1 DEF ExportGenesis, InitFrom
    <3>3. LockedFrom(ExportGenesis) = LockedFrom(g)
      BY <3>2 DEF LockedFrom, OwedUnsettled, SliceUnsettled
    <3> QED BY <3>1, <3>3 DEF CommittedIsOwed
  <2> QED BY <2>1, InitType, InitRecord DEF Init
<1>2. TypeInv /\ RecordInv /\ CommittedIsOwed /\ [Next]_vars
        => TypeInv' /\ RecordInv' /\ CommittedIsOwed'
  BY TypeStep, RecordStep, CommittedStep
<1> QED BY <1>1, <1>2, PTL DEF Spec

----------------------------------------------------------------------------
(* What is exported can be imported *)

\* What ValidateCycles asks of one outcome.
Sound(o) == o.net <= o.gross /\ (o.status # "held" => o.reason = "")

\* What ValidateObligations asks of one obligation.
Dated(o, status) == o.from # o.to /\ o.amount > 0 /\ status[o.cycle] # "none"

\* What is netted in a slice that is still to settle was owed into it.
GrossCovers(g) ==
  \A c \in Cycles, d \in Denoms :
    SliceUnsettled(g, c, d) => Debits(g.position[c][d]) <= g.outcome[c][d].gross

\* The same, of what is due.
DueCovered == \A c \in Cycles, d \in Denoms : Debits(Due[c][d]) <= outcome[c][d].gross

\* What validation asks beyond the record and the balances.
FileInv ==
  /\ params.cycleBlocks <= MaxCycleBlocks
  /\ \A c \in Cycles, d \in Denoms : Sound(outcome[c][d])
  /\ \A i \in DOMAIN obligations : Dated(obligations[i], cycleStatus)

\* The updates the handlers make to a slice's outcome keep it sound and forget
\* nothing of what was owed.
LEMMA SoundUpdates ==
  ASSUME NEW o \in Outcomes, Sound(o), NEW k \in Nat
  PROVE  /\ o.status # "held" => Sound(Submitted(o, k))
         /\ Submitted(o, k).gross = o.gross + k
         /\ o.status = "held" => Sound(AbandonedOutcome(o))
         /\ AbandonedOutcome(o).gross = o.gross
         /\ Sound(HeldOutcome(o)) /\ HeldOutcome(o).gross = o.gross
         /\ Sound(CancelledOutcome(o)) /\ CancelledOutcome(o).gross = o.gross
         /\ k <= o.gross => Sound(SettledOutcome(o, k))
         /\ SettledOutcome(o, k).gross = o.gross
<1>0. o.status # "held" => o.reason = ""
  BY Zenon DEF Sound
<1>1. o.net \in Nat /\ o.gross \in Nat /\ o.net <= o.gross
  BY Zenon DEF Outcomes, Sound
<1>2. /\ Submitted(o, k).gross = o.gross + k /\ Submitted(o, k).net = o.net
      /\ Submitted(o, k).reason = o.reason
  BY DEF Submitted, Outcomes
<1>3. /\ AbandonedOutcome(o).gross = o.gross /\ AbandonedOutcome(o).status = o.status
      /\ AbandonedOutcome(o).net \in {o.net, 0}
  BY DEF AbandonedOutcome, Outcomes
<1>4. HeldOutcome(o).gross = o.gross /\ HeldOutcome(o).net = 0 /\ HeldOutcome(o).status = "held"
  BY DEF HeldOutcome, Outcomes
<1>5. /\ CancelledOutcome(o).gross = o.gross /\ CancelledOutcome(o).net \in {o.net, 0}
      /\ CancelledOutcome(o).reason = o.reason
      /\ CancelledOutcome(o).status # "held" => o.status # "held"
  BY DEF CancelledOutcome, Outcomes
<1>6. SettledOutcome(o, k).gross = o.gross /\ SettledOutcome(o, k).net = k
  BY SettledStatus
<1>7. SettledOutcome(o, k).reason = ""
  BY Zenon DEF SettledOutcome, Outcomes
<1>8. /\ o.net <= o.gross + k /\ 0 <= o.gross
      /\ \A n \in {o.net, 0} : n <= o.gross
  BY <1>1
<1>9. o.status # "held" => Sound(Submitted(o, k))
  BY <1>0, <1>2, <1>8, Zenon DEF Sound
<1>10. o.status = "held" => Sound(AbandonedOutcome(o))
  BY <1>3, <1>8, Zenon DEF Sound
<1>11. Sound(HeldOutcome(o))
  BY <1>4, <1>8, Zenon DEF Sound
<1>12. Sound(CancelledOutcome(o))
  BY <1>0, <1>5, <1>8, Zenon DEF Sound
<1>13. k <= o.gross => Sound(SettledOutcome(o, k))
  BY <1>6, <1>7, Zenon DEF Sound
<1> QED BY <1>2, <1>3, <1>4, <1>5, <1>6, <1>9, <1>10, <1>11, <1>12, <1>13

\* Every step keeps the outcomes sound, and what was owed into a slice stays.
LEMMA SoundStep ==
  ASSUME TypeInv, RecordInv, FileInv, DueCovered, [Next]_vars
  PROVE  \A c \in Cycles, d \in Denoms :
           Sound(outcome'[c][d]) /\ outcome'[c][d].gross >= outcome[c][d].gross
<1>0. /\ TypeOK /\ outcome \in [Cycles -> [Denoms -> Outcomes]] /\ currentCycle \in Cycles
      /\ \A c \in Cycles, d \in Denoms : /\ outcome[c][d] \in Outcomes /\ outcome[c][d].gross \in Nat
                                         /\ Sound(outcome[c][d])
  <2>1. \A o \in Outcomes : o.gross \in Nat
    BY DEF Outcomes
  <2> QED BY <2>1 DEF TypeInv, TypeOK, FileInv
<1> DEFINE Kept == \A c \in Cycles, d \in Denoms :
                     Sound(outcome'[c][d]) /\ outcome'[c][d].gross >= outcome[c][d].gross
<1> SUFFICES Kept
  OBVIOUS
<1>1. ASSUME outcome' = outcome PROVE Kept
  BY <1>0, <1>1
<1>2. ASSUME NEW c \in Cycles, NEW d \in Denoms, NEW o, Sound(o), o.gross >= outcome[c][d].gross,
             outcome' = [outcome EXCEPT ![c][d] = o]
      PROVE  Kept
  <2>1. \A b \in Cycles, e \in Denoms : outcome'[b][e] = IF b = c /\ e = d THEN o ELSE outcome[b][e]
    BY <1>0, <1>2
  <2> QED BY <1>0, <1>2, <2>1
<1>3. ASSUME NEW c \in Cycles, NEW d \in Denoms, Unsettled(c, d)
      PROVE  Debits(position[c][d]) <= outcome[c][d].gross /\ Debits(position[c][d]) \in Nat
  BY <1>0, <1>3, DueIs, Entries, DebitsType DEF DueForm, DueCovered
<1> HIDE DEF Kept
<1>4. CASE Messages
  <2>1. ASSUME NEW from \in Participants, NEW to \in Participants, NEW d \in Denoms,
               NEW amount \in Amounts, SubmitNet(from, to, d, amount)
        PROVE  Kept
    <3>1. /\ outcome' = [outcome EXCEPT ![currentCycle][d] = Submitted(outcome[currentCycle][d], amount)]
          /\ amount \in Nat /\ phase = "deliver"
      BY <2>1, BoundAssumption DEF SubmitNet, MayOwe
    <3>2. outcome[currentCycle][d].status # "held"
      BY <3>1 DEF RecordInv, WindowInv, Unclosed
    <3>3. Sound(Submitted(outcome[currentCycle][d], amount))
          /\ Submitted(outcome[currentCycle][d], amount).gross >= outcome[currentCycle][d].gross
      BY <1>0, <3>1, <3>2, SoundUpdates
    <3> QED BY <1>0, <1>2, <3>1, <3>3
  <2>2. ASSUME NEW p \in Participants, NEW coins \in Coins,
               PostReserve(p, coins) \/ WithdrawReserve(p, coins)
        PROVE  Kept
    BY <1>1, <2>2 DEF PostReserve, WithdrawReserve, cycleVars
  <2>3. ASSUME NEW from \in Participants, NEW to \in Participants, NEW d \in Denoms,
               NEW amount \in Amounts, SubmitGross(from, to, d, amount)
        PROVE  Kept
    BY <1>1, <2>3 DEF SubmitGross, cycleVars
  <2>4. ASSUME NEW p \in Applicants, ApproveParticipant(p) PROVE Kept
    BY <1>1, <2>4 DEF ApproveParticipant, cycleVars
  <2> QED BY <1>4, <2>1, <2>2, <2>3, <2>4 DEF Messages
<1>5. CASE Governance
  <2>1. ASSUME NEW p \in ParamChoices, UpdateParams(p) PROVE Kept
    BY <1>1, <2>1 DEF UpdateParams, cycleVars
  <2>2. ASSUME NEW c \in Cycles, NEW d \in Denoms, AbandonHeldSlice(c, d) PROVE Kept
    <3>1. outcome' = [outcome EXCEPT ![c][d] = AbandonedOutcome(outcome[c][d])]
          /\ outcome[c][d].status = "held"
      BY <2>2, RecordAbandon DEF AbandonHeldSlice
    <3>2. Sound(AbandonedOutcome(outcome[c][d]))
          /\ AbandonedOutcome(outcome[c][d]).gross >= outcome[c][d].gross
      BY <1>0, <3>1, SoundUpdates
    <3> QED BY <1>2, <3>1, <3>2
  <2>3. \A s \in held : s[1] \in Cycles /\ s[2] \in Denoms
    BY <1>0 DEF TypeOK, Slices
  <2> QED BY <1>5, <2>1, <2>2, <2>3 DEF Governance
<1>6. ASSUME NEW c \in Cycles, NEW d \in Denoms, NEW k \in Nat, k <= outcome[c][d].gross,
             outcome' = [outcome EXCEPT ![c][d] = SettledOutcome(outcome[c][d], k)]
      PROVE  Kept
  <2>1. Sound(SettledOutcome(outcome[c][d], k))
        /\ SettledOutcome(outcome[c][d], k).gross >= outcome[c][d].gross
    BY <1>0, <1>6, SoundUpdates
  <2> QED BY <1>2, <1>6, <2>1
<1>7. ASSUME NEW s \in pending, RetryEmpty(s) \/ RetrySettles(s) \/ RetryRefused(s)
      PROVE  Kept
  <2>1. /\ s[1] \in Cycles /\ s[2] \in Denoms /\ outcome[s[1]][s[2]].status = "held"
    BY <1>0 DEF TypeOK, Slices, RecordInv, QueueInv
  <2>2. CASE RetryEmpty(s)
    <3>1. outcome' = [outcome EXCEPT ![s[1]][s[2]] = SettledOutcome(outcome[s[1]][s[2]], 0)]
      BY <2>2 DEF RetryEmpty, MarkRetried
    <3>2. 0 \in Nat /\ 0 <= outcome[s[1]][s[2]].gross
      BY <1>0, <2>1
    <3> QED BY <1>6, <2>1, <3>1, <3>2
  <2>3. CASE RetrySettles(s)
    <3>1. outcome' = [outcome EXCEPT ![s[1]][s[2]] =
                        SettledOutcome(outcome[s[1]][s[2]], Debits(position[s[1]][s[2]]))]
      BY <2>3 DEF RetrySettles, MarkRetried
    <3>2. Unsettled(s[1], s[2])
      BY <2>1 DEF Unsettled
    <3> QED BY <1>3, <1>6, <2>1, <3>1, <3>2
  <2>4. CASE RetryRefused(s)
    BY <1>1, <2>4 DEF RetryRefused
  <2> QED BY <1>7, <2>2, <2>3, <2>4
<1>8. ASSUME NEW d \in groups, CloseSettles(d) \/ CloseHolds(d) PROVE Kept
  <2>1. d \in Denoms /\ Unsettled(currentCycle, d)
    BY <1>8, RecordCloseSlice DEF Unsettled
  <2>2. CASE CloseSettles(d)
    <3>1. outcome' = [outcome EXCEPT ![currentCycle][d] =
                        SettledOutcome(outcome[currentCycle][d], Debits(position[currentCycle][d]))]
      BY <2>2 DEF CloseSettles
    <3> QED BY <1>0, <1>3, <1>6, <2>1, <3>1
  <2>3. CASE CloseHolds(d)
    <3>1. outcome' = [outcome EXCEPT ![currentCycle][d] = HeldOutcome(outcome[currentCycle][d])]
      BY <2>3 DEF CloseHolds
    <3>2. Sound(HeldOutcome(outcome[currentCycle][d]))
          /\ HeldOutcome(outcome[currentCycle][d]).gross >= outcome[currentCycle][d].gross
      BY <1>0, <2>1, SoundUpdates
    <3> QED BY <1>0, <1>2, <2>1, <3>1, <3>2
  <2> QED BY <1>8, <2>2, <2>3
<1>9. CASE EndBlockFinish
  <2> DEFINE row == [d \in Denoms |-> CancelledOutcome(outcome[currentCycle][d])]
  <2>1. outcome' = [outcome EXCEPT ![currentCycle] = row]
    BY <1>9 DEF EndBlockFinish
  <2>2. \A d \in Denoms : Sound(row[d]) /\ row[d].gross >= outcome[currentCycle][d].gross
    <3>1. 0 \in Nat
      OBVIOUS
    <3>2. ASSUME NEW d \in Denoms
          PROVE  Sound(row[d]) /\ row[d].gross >= outcome[currentCycle][d].gross
      <4>1. Sound(CancelledOutcome(outcome[currentCycle][d]))
            /\ CancelledOutcome(outcome[currentCycle][d]).gross = outcome[currentCycle][d].gross
        BY <1>0, <3>1, SoundUpdates
      <4> QED BY <1>0, <4>1
    <3> QED BY <3>2
  <2> HIDE DEF row
  <2>3. \A c \in Cycles : outcome'[c] = IF c = currentCycle THEN row ELSE outcome[c]
    BY <1>0, <2>1
  <2> QED BY <1>0, <2>2, <2>3 DEF Kept
<1>10. CASE EndBlockIdle \/ EndBlockCollect \/ CloseStart \/ ExportAndImport
  BY <1>1, <1>10 DEF EndBlockIdle, EndBlockCollect, CloseStart, ExportAndImport, cycleVars
<1>11. CASE UNCHANGED vars
  BY <1>1, <1>11 DEF vars, cycleVars
<1> QED BY <1>4, <1>5, <1>7, <1>8, <1>9, <1>10, <1>11 DEF Next, EndBlocker

\* An obligation adds no more than its amount to the debits of its slice.
LEMMA MovedDebits ==
  ASSUME NEW row, row \in [Participants -> Int], NEW from \in Participants, NEW to \in Participants,
         from # to, NEW amount, amount \in Nat
  PROVE  Debits(Moved(row, from, to, amount)) <= Debits(row) + amount
<1> DEFINE new == Moved(row, from, to, amount)
           f == [p \in Participants |-> DebitOf(row[p])]
           h == [p \in Participants |-> IF p = from THEN DebitOf(row[from] - amount) ELSE f[p]]
           g == [p \in Participants |-> DebitOf(new[p])]
           i == DebitOf(row[from] - amount) - DebitOf(row[from])
           j == DebitOf(row[to] + amount) - DebitOf(row[to])
<1>1. /\ new[from] = row[from] - amount /\ new[to] = row[to] + amount
      /\ \A p \in Participants : p # from /\ p # to => new[p] = row[p]
      /\ \A p \in Participants : row[p] \in Int
  BY DEF Moved
<1>2. i \in Int /\ i <= amount /\ j \in Int /\ j <= 0
  <2>1. row[from] \in Int /\ row[to] \in Int
    BY <1>1
  <2> QED BY <2>1 DEF DebitOf
<1>3. \A p \in Participants : f[p] \in Int
  BY <1>1, DebitType
<1> HIDE DEF new
<1>4. /\ h[from] = f[from] + i /\ \A p \in Participants : p # from => h[p] = f[p]
      /\ \A p \in Participants : h[p] \in Int
  BY <1>1, <1>3 DEF DebitOf
<1>5. g[to] = h[to] + j /\ \A p \in Participants : p # to => g[p] = h[p]
  <2>1. g[to] = DebitOf(row[to] + amount) /\ h[to] = DebitOf(row[to])
    BY <1>1
  <2>2. DebitOf(row[to] + amount) \in Int /\ DebitOf(row[to]) \in Int
    BY <1>1, DebitType
  <2>3. \A p \in Participants : p # to => g[p] = h[p]
    BY <1>1
  <2> QED BY <2>1, <2>2, <2>3
<1>6. Debits(row) = SumFunctionOnSet(f, Participants) /\ Debits(new) = SumFunctionOnSet(g, Participants)
  BY DEF Debits
<1> HIDE DEF f, g, h, i, j
<1>7. SumFunctionOnSet(h, Participants) = SumFunctionOnSet(f, Participants) + i
  <2>1. i \in Int
    BY <1>2
  <2>2. h[from] = f[from] + i
    BY <1>4
  <2>3. \A p \in Participants : p # from => h[p] = f[p]
    BY <1>4
  <2> QED BY ONLY from \in Participants, <1>3, <2>1, <2>2, <2>3, SumUpdate, FiniteAssumption
<1>8. SumFunctionOnSet(g, Participants) = SumFunctionOnSet(h, Participants) + j
  <2>1. j \in Int
    BY <1>2
  <2>2. \A p \in Participants : h[p] \in Int
    BY <1>4
  <2>3. g[to] = h[to] + j
    BY <1>5
  <2>4. \A p \in Participants : p # to => g[p] = h[p]
    BY <1>5
  <2> QED BY ONLY to \in Participants, <2>1, <2>2, <2>3, <2>4, SumUpdate, FiniteAssumption
<1>9. SumFunctionOnSet(f, Participants) \in Int
  BY <1>3, SumType, FiniteAssumption
<1> QED BY <1>2, <1>6, <1>7, <1>8, <1>9 DEF new

\* A slice with nothing due has no debits.
LEMMA ZerosDebits == Debits(Zeros) = 0
<1> DEFINE f == [p \in Participants |-> DebitOf(Zeros[p])]
<1>1. \A p \in Participants : f[p] = 0
  BY DEF Zeros, DebitOf
<1> HIDE DEF f
<1>2. SumFunctionOnSet(f, Participants) = 0
  BY <1>1, SumZero, FiniteAssumption
<1> QED BY <1>2 DEF Debits, f

\* Every step keeps what is due covered by what was owed.
LEMMA DueCoveredStep ==
  ASSUME TypeInv, RecordInv, FileInv, DueCovered, [Next]_vars
  PROVE  DueCovered'
<1>0. /\ TypeOK /\ DueNext
      /\ \A c \in Cycles, d \in Denoms : /\ outcome[c][d].gross \in Nat /\ outcome'[c][d].gross \in Nat
                                         /\ outcome'[c][d].gross >= outcome[c][d].gross
                                         /\ Due[c][d] \in [Participants -> Int]
                                         /\ Debits(Due[c][d]) <= outcome[c][d].gross
                                         /\ Debits(Due[c][d]) \in Nat
  <2>1. TypeOK /\ TypeOK' /\ DueNext
    BY TypeStep, DueSteps DEF TypeInv
  <2>2. \A c \in Cycles, d \in Denoms : outcome[c][d] \in Outcomes /\ outcome'[c][d] \in Outcomes
    BY <2>1 DEF TypeOK
  <2>3. \A o \in Outcomes : o.gross \in Nat
    BY DEF Outcomes
  <2>4. \A c \in Cycles, d \in Denoms : Due[c][d] \in [Participants -> Int]
    BY <2>1, DueIs DEF DueForm
  <2>5. \A c \in Cycles, d \in Denoms : outcome'[c][d].gross >= outcome[c][d].gross
    BY SoundStep
  <2>6. \A c \in Cycles, d \in Denoms : Debits(Due[c][d]) \in Nat
    BY <2>4, DebitsType
  <2> QED BY <2>1, <2>2, <2>3, <2>4, <2>5, <2>6 DEF DueCovered
<1> DEFINE Goal == \A c \in Cycles, d \in Denoms : Debits(Due'[c][d]) <= outcome'[c][d].gross
<1> SUFFICES Goal
  <2>1. Goal => DueCovered'
    BY DEF DueCovered, Debits
  <2> QED BY <2>1
<1>1. CASE Due' = Due
  BY <1>0, <1>1
<1>2. ASSUME NEW b \in Cycles, NEW e \in Denoms, NEW row, Due' = [Due EXCEPT ![b][e] = row],
             Debits(row) <= outcome'[b][e].gross
      PROVE  Goal
  <2>1. Due = [c \in Cycles |-> [d \in Denoms |-> Due[c][d]]]
    BY DEF Due
  <2>2. \A c \in Cycles, d \in Denoms : Due'[c][d] = IF c = b /\ d = e THEN row ELSE Due[c][d]
    BY <1>2, <2>1
  <2> QED BY <1>0, <1>2, <2>2
<1> HIDE DEF Goal
<1>3. ASSUME NEW from \in Participants, NEW to \in Participants, NEW d \in Denoms,
             NEW amount \in Amounts, SubmitNet(from, to, d, amount),
             Due' = [Due EXCEPT ![currentCycle][d] = Moved(Due[currentCycle][d], from, to, amount)]
      PROVE  Goal
  <2>1. /\ from # to /\ amount \in Nat /\ currentCycle \in Cycles
        /\ outcome \in [Cycles -> [Denoms -> Outcomes]]
        /\ outcome' = [outcome EXCEPT ![currentCycle][d] = Submitted(outcome[currentCycle][d], amount)]
    BY <1>0, <1>3, BoundAssumption DEF SubmitNet, MayOwe, TypeOK
  <2>2. outcome'[currentCycle][d].gross = outcome[currentCycle][d].gross + amount
    <3>1. outcome[currentCycle][d] \in Outcomes /\ Sound(outcome[currentCycle][d])
      BY <1>0, <2>1, Entries DEF FileInv
    <3>2. Submitted(outcome[currentCycle][d], amount).gross = outcome[currentCycle][d].gross + amount
      BY <2>1, <3>1, SoundUpdates
    <3> QED BY <2>1, <3>2
  <2>3. Debits(Moved(Due[currentCycle][d], from, to, amount)) <= Debits(Due[currentCycle][d]) + amount
    <3>1. PICK row : row = Due[currentCycle][d]
      OBVIOUS
    <3>2. row \in [Participants -> Int]
      BY <1>0, <2>1, <3>1
    <3>3. Debits(Moved(row, from, to, amount)) <= Debits(row) + amount
      BY <2>1, <3>2, MovedDebits
    <3> QED BY <3>1, <3>3
  <2>4. Debits(Moved(Due[currentCycle][d], from, to, amount)) <= outcome'[currentCycle][d].gross
    <3>1. Debits(Moved(Due[currentCycle][d], from, to, amount)) \in Int
      <4>1. Due[currentCycle][d] \in [Participants -> Int]
        BY <1>0, <2>1
      <4>2. Moved(Due[currentCycle][d], from, to, amount) \in [Participants -> Int]
        BY <2>1, <4>1 DEF Moved
      <4> QED BY <4>2, DebitsType
    <3> QED BY <1>0, <2>1, <2>2, <2>3, <3>1
  <2> QED BY <1>2, <1>3, <2>1, <2>4
<1>4. ASSUME NEW c \in Cycles, NEW d \in Denoms, Due' = [Due EXCEPT ![c][d] = Zeros]
      PROVE  Goal
  <2>1. Debits(Zeros) <= outcome'[c][d].gross
    BY <1>0, ZerosDebits
  <2>2. PICK row : row = Zeros
    OBVIOUS
  <2> QED BY <1>2, <1>4, <2>1, <2>2
<1> QED BY <1>0, <1>1, <1>3, <1>4 DEF DueNext

\* A step that records no obligation and installs no parameters.
Unfiled == obligations' = obligations /\ params' = params

\* A cycle that was opened is never forgotten.
LEMMA StaysOpened ==
  ASSUME TypeInv, [Next]_vars
  PROVE  \A c \in Cycles : cycleStatus'[c] = "none" => cycleStatus[c] = "none"
<1> DEFINE Kept == \A c \in Cycles : cycleStatus'[c] = "none" => cycleStatus[c] = "none"
<1> SUFFICES Kept
  OBVIOUS
<1>1. ASSUME cycleStatus' = cycleStatus PROVE Kept
  BY <1>1
<1>2. ASSUME NEW b, NEW s \in {"open", "held", "settled"},
             cycleStatus' = [cycleStatus EXCEPT ![b] = s]
      PROVE  Kept
  BY <1>2 DEF TypeInv, TypeOK
<1> HIDE DEF Kept
<1>3. CASE Messages
  <2>1. ASSUME NEW p \in Participants, NEW coins \in Coins,
               PostReserve(p, coins) \/ WithdrawReserve(p, coins)
        PROVE  cycleStatus' = cycleStatus
    BY <2>1 DEF PostReserve, WithdrawReserve, cycleVars
  <2>2. ASSUME NEW from \in Participants, NEW to \in Participants, NEW d \in Denoms,
               NEW amount \in Amounts, SubmitGross(from, to, d, amount) \/ SubmitNet(from, to, d, amount)
        PROVE  cycleStatus' = cycleStatus
    BY <2>2 DEF SubmitGross, SubmitNet, cycleVars
  <2>3. ASSUME NEW p \in Applicants, ApproveParticipant(p) PROVE cycleStatus' = cycleStatus
    BY <2>3 DEF ApproveParticipant, cycleVars
  <2> QED BY <1>1, <1>3, <2>1, <2>2, <2>3 DEF Messages
<1>4. CASE Governance
  BY <1>1, <1>4 DEF Governance, UpdateParams, AbandonHeldSlice, cycleVars
<1>5. CASE EndBlockIdle \/ EndBlockCollect \/ ExportAndImport \/ UNCHANGED vars
  BY <1>1, <1>5 DEF EndBlockIdle, EndBlockCollect, ExportAndImport, vars, cycleVars
<1>6. ASSUME NEW s \in pending, RetryEmpty(s) \/ RetrySettles(s) \/ RetryRefused(s)
      PROVE  Kept
  <2>1. CASE RetryRefused(s)
    BY <1>1, <2>1 DEF RetryRefused
  <2>2. ASSUME NEW net, MarkRetried(s[1], s[2], net) PROVE Kept
    <3> DEFINE st == IF \E e \in Denoms \ {s[2]} : outcome[s[1]][e].status = "held"
                     THEN "held" ELSE "settled"
    <3>1. st \in {"open", "held", "settled"} /\ cycleStatus' = [cycleStatus EXCEPT ![s[1]] = st]
      BY <2>2 DEF MarkRetried
    <3> HIDE DEF st
    <3> QED BY <1>2, <3>1
  <2> QED BY <1>6, <2>1, <2>2 DEF RetryEmpty, RetrySettles
<1>7. CASE CloseStart
  <2>1. cycleStatus' = [cycleStatus EXCEPT ![currentCycle] = "settled"]
    BY <1>7 DEF CloseStart
  <2> QED BY <1>2, <2>1
<1>8. ASSUME NEW d \in groups, CloseSettles(d) \/ CloseHolds(d) PROVE Kept
  <2>1. CASE CloseSettles(d)
    BY <1>1, <2>1 DEF CloseSettles
  <2>2. CASE CloseHolds(d)
    <3>1. cycleStatus' = [cycleStatus EXCEPT ![currentCycle] = "held"]
      BY <2>2 DEF CloseHolds
    <3> QED BY <1>2, <3>1
  <2> QED BY <1>8, <2>1, <2>2
<1>9. CASE EndBlockFinish
  <2>1. cycleStatus' = [cycleStatus EXCEPT ![cycleSeq] = "open"]
    BY <1>9 DEF EndBlockFinish
  <2> QED BY <1>2, <2>1
<1> QED BY <1>3, <1>4, <1>5, <1>6, <1>7, <1>8, <1>9 DEF Next, EndBlocker

\* Only submissions are recorded and only governance installs parameters.
LEMMA FilingSteps ==
  ASSUME [Next]_vars
  PROVE  \/ Unfiled
         \/ obligations' = obligations /\ ValidateParams(params')
         \/ /\ params' = params
            /\ \E from, to \in Participants, d \in Denoms, amount \in Amounts, mode \in {"gross", "net"} :
                 MayOwe(from, to) /\ Record(from, to, d, amount, mode)
<1> DEFINE Filing == \/ Unfiled
                     \/ obligations' = obligations /\ ValidateParams(params')
                     \/ /\ params' = params
                        /\ \E from, to \in Participants, d \in Denoms, amount \in Amounts,
                              mode \in {"gross", "net"} :
                             MayOwe(from, to) /\ Record(from, to, d, amount, mode)
<1> SUFFICES Filing
  OBVIOUS
<1>1. ASSUME Unfiled PROVE Filing
  BY <1>1
<1>2. ASSUME NEW from \in Participants, NEW to \in Participants, NEW d \in Denoms,
             NEW amount \in Amounts, NEW mode \in {"gross", "net"}, params' = params,
             MayOwe(from, to), Record(from, to, d, amount, mode)
      PROVE  Filing
  BY <1>2
<1>3. CASE Messages
  <2>1. ASSUME NEW p \in Participants, NEW coins \in Coins,
               PostReserve(p, coins) \/ WithdrawReserve(p, coins)
        PROVE  Unfiled
    BY <2>1 DEF PostReserve, WithdrawReserve, blockVars, Unfiled
  <2>2. ASSUME NEW p \in Applicants, ApproveParticipant(p) PROVE Unfiled
    BY <2>2 DEF ApproveParticipant, blockVars, Unfiled
  <2>3. ASSUME NEW from \in Participants, NEW to \in Participants, NEW d \in Denoms,
               NEW amount \in Amounts, SubmitGross(from, to, d, amount) \/ SubmitNet(from, to, d, amount)
        PROVE  \E mode \in {"gross", "net"} :
                 params' = params /\ MayOwe(from, to) /\ Record(from, to, d, amount, mode)
    BY <2>3 DEF SubmitGross, SubmitNet, blockVars
  <2> HIDE DEF Filing
  <2> QED BY <1>1, <1>2, <1>3, <2>1, <2>2, <2>3 DEF Messages
<1>4. CASE Governance
  <2>1. ASSUME NEW p \in ParamChoices, UpdateParams(p) PROVE Filing
    BY <2>1 DEF UpdateParams
  <2>2. ASSUME NEW s \in held, AbandonHeldSlice(s[1], s[2]) PROVE Unfiled
    BY <2>2 DEF AbandonHeldSlice, blockVars, Unfiled
  <2> HIDE DEF Filing
  <2> QED BY <1>1, <1>4, <2>1, <2>2 DEF Governance
<1>5. CASE EndBlocker
  <2>1. Unfiled
    BY <1>5 DEF EndBlocker, EndBlockIdle, EndBlockCollect, RetryEmpty, RetrySettles, RetryRefused,
         RetryStep, CloseStart, CloseSettles, CloseHolds, CloseStep, EndBlockFinish, Unfiled
  <2> QED BY <1>1, <2>1
<1>6. CASE ExportAndImport \/ UNCHANGED vars
  <2>1. Unfiled
    BY <1>6 DEF ExportAndImport, vars, blockVars, Unfiled
  <2> QED BY <1>1, <2>1
<1> QED BY <1>3, <1>4, <1>5, <1>6 DEF Next

\* Every step keeps what validation will ask of the next file.
LEMMA FileStep ==
  ASSUME TypeInv, RecordInv, FileInv, DueCovered, [Next]_vars
  PROVE  FileInv'
<1>0. TypeOK /\ TypeOK' /\ currentCycle \in Cycles
  BY TypeStep DEF TypeInv, TypeOK
<1>1. \A c \in Cycles, d \in Denoms : Sound(outcome[c][d])'
  <2>1. \A c \in Cycles, d \in Denoms : Sound(outcome'[c][d])
    BY SoundStep
  <2> QED BY <2>1 DEF Sound
<1>2. SUFFICES /\ params'.cycleBlocks <= MaxCycleBlocks
               /\ \A i \in DOMAIN obligations' : Dated(obligations'[i], cycleStatus')
  BY <1>1 DEF FileInv
<1>3. ASSUME NEW o \in Obligations, Dated(o, cycleStatus) PROVE Dated(o, cycleStatus')
  <2>1. o.cycle \in Cycles
    BY DEF Obligations
  <2> QED BY <1>3, <2>1, StaysOpened DEF Dated
<1>4. ASSUME obligations' = obligations
      PROVE  \A i \in DOMAIN obligations' : Dated(obligations'[i], cycleStatus')
  <2>1. \A i \in DOMAIN obligations : obligations[i] \in Obligations /\ Dated(obligations[i], cycleStatus)
    BY <1>0 DEF TypeOK, FileInv
  <2> QED BY <1>3, <1>4, <2>1
<1>5. CASE Unfiled
  BY <1>4, <1>5 DEF FileInv, Unfiled
<1>6. CASE obligations' = obligations /\ ValidateParams(params')
  BY <1>4, <1>6 DEF ValidateParams
<1>7. ASSUME NEW from \in Participants, NEW to \in Participants, NEW d \in Denoms,
             NEW amount \in Amounts, NEW mode \in {"gross", "net"}, params' = params,
             MayOwe(from, to), Record(from, to, d, amount, mode)
      PROVE  /\ params'.cycleBlocks <= MaxCycleBlocks
             /\ \A i \in DOMAIN obligations' : Dated(obligations'[i], cycleStatus')
  <2> DEFINE o == [cycle |-> currentCycle, from |-> from, to |-> to, denom |-> d,
                   amount |-> amount, mode |-> mode]
  <2>1. amount \in Nat /\ amount > 0 /\ from # to /\ cycleStatus[currentCycle] = "open"
    BY <1>7, BoundAssumption DEF MayOwe, RecordInv, ClockInv
  <2>2. o \in Obligations /\ Dated(o, cycleStatus)
    BY <1>0, <2>1 DEF Obligations, Dated
  <2>3. obligations' = Append(obligations, o) /\ obligations \in Seq(Obligations)
    BY <1>0, <1>7 DEF Record, TypeOK
  <2> HIDE DEF o
  <2>4. \A i \in DOMAIN obligations' : obligations'[i] = o \/
          (i \in DOMAIN obligations /\ obligations'[i] = obligations[i])
    BY <2>2, <2>3
  <2>5. \A i \in DOMAIN obligations : obligations[i] \in Obligations /\ Dated(obligations[i], cycleStatus)
    BY <2>3 DEF FileInv
  <2>6. \A i \in DOMAIN obligations' : Dated(obligations'[i], cycleStatus')
    BY <1>3, <2>2, <2>4, <2>5
  <2> QED BY <1>7, <2>6 DEF FileInv
<1> QED BY <1>5, <1>6, <1>7, FilingSteps

\* A file that passes validation satisfies FileInv, and covers what is due if
\* what is netted in it was owed.
LEMMA InitFile ==
  ASSUME NEW g \in Genesis, Validate(g), InitFrom(g), GrossCovers(g)
  PROVE  FileInv /\ DueCovered
<1>1. /\ params = g.params /\ outcome = g.outcome /\ cycleStatus = g.cycleStatus
      /\ obligations = g.obligations /\ position = g.position
  BY DEF InitFrom
<1>2. FileInv
  <2>1. params.cycleBlocks <= MaxCycleBlocks
    BY <1>1 DEF Validate, ValidateParams
  <2>2. \A c \in Cycles, d \in Denoms : Sound(outcome[c][d])
    BY <1>1, Zenon DEF Validate, ValidateCycles, Sound
  <2>3. \A i \in DOMAIN obligations : Dated(obligations[i], cycleStatus)
    BY <1>1 DEF Validate, ValidateObligations, Dated
  <2> QED BY <2>1, <2>2, <2>3 DEF FileInv
<1>3. DueCovered
  <2>1. TypeOK
    BY InitType DEF Init, TypeInv
  <2> SUFFICES ASSUME NEW c \in Cycles, NEW d \in Denoms
               PROVE  Debits(Due[c][d]) <= outcome[c][d].gross
    BY DEF DueCovered
  <2>2. CASE Unsettled(c, d)
    <3>1. Due[c][d] = position[c][d]
      BY <2>1, <2>2, DueIs DEF DueForm
    <3>2. SliceUnsettled(g, c, d)
      BY <1>1, <2>2 DEF Unsettled, SliceUnsettled
    <3> QED BY <1>1, <3>1, <3>2 DEF GrossCovers
  <2>3. CASE ~Unsettled(c, d)
    <3>1. Due[c][d] = Zeros
      BY <2>1, <2>3, DueIs DEF DueForm, Zeros
    <3>2. outcome[c][d].gross \in Nat
      BY <2>1, Entries DEF Outcomes
    <3> QED BY <3>1, <3>2, ZerosDebits
  <2> QED BY <2>2, <2>3
<1> QED BY <1>2, <1>3

\* Between blocks, what the invariants say is what Validate asks.
LEMMA ExportValid ==
  ASSUME TypeInv, RecordInv, FileInv, DueCovered, CommittedIsOwed, Collateralised, SlicesBalance
  PROVE  ExportIsImportable /\ GrossCovers(ExportGenesis)
<1>0. /\ ExportGenesis.params = params /\ ExportGenesis.currentCycle = currentCycle
      /\ ExportGenesis.cycleCount = cycleSeq /\ ExportGenesis.cycleStatus = cycleStatus
      /\ ExportGenesis.outcome = outcome /\ ExportGenesis.obligations = obligations
      /\ ExportGenesis.position = position /\ ExportGenesis.reserve = reserve
  BY DEF ExportGenesis
<1>1. ValidateParams(ExportGenesis.params)
  BY <1>0 DEF FileInv, ValidateParams
<1>2. ASSUME phase = "deliver" PROVE ValidateCycles(ExportGenesis)
  <2>1. cycleSeq > 0
    BY DEF TypeInv, TypeOK
  <2>2. \A c \in Cycles : /\ c >= cycleSeq => cycleStatus[c] = "none"
                          /\ cycleStatus[c] = "open" => c = currentCycle
    BY DEF RecordInv, ClockInv
  <2>3. cycleStatus[currentCycle] = "open"
    BY <1>2 DEF RecordInv, ClockInv
  <2>4. \A c \in Cycles : cycleStatus[c] = "none" =>
          \A d \in Denoms : outcome[c][d] = NoOutcome /\ \A p \in Participants : position[c][d][p] = 0
    BY DEF RecordInv, UnopenedIsEmpty
  <2>5. \A c \in Cycles, d \in Denoms : /\ outcome[c][d].net <= outcome[c][d].gross
                                        /\ outcome[c][d].status # "held" => outcome[c][d].reason = ""
    BY Zenon DEF FileInv, Sound
  <2> QED BY <1>0, <2>1, <2>2, <2>3, <2>4, <2>5, Zenon DEF ValidateCycles
<1>3. ValidateObligations(ExportGenesis)
  BY <1>0 DEF FileInv, Dated, ValidateObligations
<1>4. ValidatePositions(ExportGenesis)
  <2>1. \A p \in Participants, d \in Denoms : OwedUnsettled(ExportGenesis, p, d) <= reserve[p][d]
    <3>1. \A p \in Participants, d \in Denoms : OwedUnsettled(ExportGenesis, p, d) = locked[p][d]
      BY DEF CommittedIsOwed, LockedFrom
    <3> QED BY <3>1 DEF Collateralised
  <2> QED BY <1>0, <2>1 DEF SlicesBalance, ValidatePositions
<1>5. ExportIsImportable
  BY <1>1, <1>2, <1>3, <1>4 DEF ExportIsImportable, Validate, RecordInv, ClockInv
<1>6. GrossCovers(ExportGenesis)
  <2> SUFFICES ASSUME NEW c \in Cycles, NEW d \in Denoms, SliceUnsettled(ExportGenesis, c, d)
               PROVE  Debits(position[c][d]) <= outcome[c][d].gross
    BY <1>0 DEF GrossCovers
  <2>1. Unsettled(c, d)
    BY <1>0 DEF SliceUnsettled, Unsettled
  <2>2. Due[c][d] = position[c][d]
    BY <2>1, DueIs DEF DueForm, TypeInv
  <2> QED BY <2>2 DEF DueCovered
<1> QED BY <1>5, <1>6

\* A chain can always be restarted from its own export: the file written
\* between any two blocks passes genesis.go's Validate and opens on a clean
\* window.  The hypothesis on the file the chain itself started from, that no
\* unsettled slice nets more than was ever owed into it, is not checked by
\* Validate; it holds of every file the chain exports.
THEOREM ExportAlwaysImportable ==
  ASSUME \A g \in Genesis : GrossCovers(g)
  PROVE  Spec => [](ExportIsImportable /\ GrossCovers(ExportGenesis))
<1> DEFINE Inv == /\ TypeInv /\ RecordInv /\ CommittedIsOwed /\ Collateralised /\ SlicesBalance
                  /\ FileInv /\ DueCovered
<1>1. Init => FileInv /\ DueCovered
  BY InitFile DEF Init
<1>2. TypeInv /\ RecordInv /\ FileInv /\ DueCovered /\ [Next]_vars => FileInv' /\ DueCovered'
  BY FileStep, DueCoveredStep
<1>3. Inv => ExportIsImportable /\ GrossCovers(ExportGenesis)
  BY ExportValid
<1>4. Init => TypeInv /\ RecordInv
  BY InitType, InitRecord
<1>5. TypeInv /\ RecordInv /\ [Next]_vars => TypeInv' /\ RecordInv'
  BY TypeStep, RecordStep
<1>6. Spec => []Inv
  BY <1>1, <1>2, <1>4, <1>5, CommittedAlwaysOwed, AlwaysCollateralised, AlwaysBalanced, PTL
     DEF Spec
<1> QED BY <1>3, <1>6, PTL

----------------------------------------------------------------------------
(* The promise of SettlementPromise is kept *)

\* SubmitObligation, in the gross mode, is a payment out of the payer's wealth.
LEMMA GrossPays ==
  ASSUME TypeInv, NEW from \in Participants, NEW to \in Participants, NEW d \in Denoms,
         NEW amount \in Amounts, SubmitGross(from, to, d, amount), Due' = Due
  PROVE  from # to /\ Promise!PayNow(from, to, d, amount)
<1>1. /\ from # to /\ amount \in Nat /\ amount <= balance[from][d] /\ reserve' = reserve
      /\ balance' = [balance EXCEPT ![from][d] = @ - amount, ![to][d] = @ + amount]
      /\ balance \in [Participants -> [Denoms -> Nat]]
      /\ reserve \in [Participants -> [Denoms -> Nat]]
  BY BoundAssumption DEF SubmitGross, MayOwe, ledgerVars, TypeInv, TypeOK
<1>2. amount <= Wealth[from][d]
  <2>1. Wealth[from][d] = balance[from][d] + reserve[from][d]
    BY DEF Wealth
  <2>2. balance[from][d] \in Nat /\ reserve[from][d] \in Nat
    BY <1>1
  <2> QED BY <1>1, <2>1, <2>2
<1>3. \A p \in Participants, e \in Denoms : Wealth'[p][e] =
        IF e = d /\ p = from THEN Wealth[p][e] - amount
        ELSE IF e = d /\ p = to THEN Wealth[p][e] + amount ELSE Wealth[p][e]
  <2> TAKE p \in Participants, e \in Denoms
  <2>1. Wealth[p][e] = balance[p][e] + reserve[p][e] /\ Wealth'[p][e] = balance'[p][e] + reserve[p][e]
    BY <1>1 DEF Wealth
  <2>2. balance'[p][e] = IF e = d /\ p = from THEN balance[p][e] - amount
                         ELSE IF e = d /\ p = to THEN balance[p][e] + amount ELSE balance[p][e]
    BY <1>1
  <2>3. balance[p][e] \in Nat /\ reserve[p][e] \in Nat
    BY <1>1
  <2> QED BY <1>1, <2>1, <2>2, <2>3
<1>4. /\ Wealth = [p \in Participants |-> [e \in Denoms |-> Wealth[p][e]]]
      /\ Wealth' = [p \in Participants |-> [e \in Denoms |-> Wealth'[p][e]]]
  BY DEF Wealth
<1>5. Wealth' = [Wealth EXCEPT ![from][d] = @ - amount, ![to][d] = @ + amount]
  <2> DEFINE new == [Wealth EXCEPT ![from][d] = @ - amount, ![to][d] = @ + amount]
  <2>0. DOMAIN Wealth = Participants /\ \A p \in Participants : DOMAIN Wealth[p] = Denoms
    BY <1>4
  <2>1. new = [p \in Participants |-> [e \in Denoms |-> new[p][e]]]
    <3>1. new = [p \in Participants |-> new[p]]
      BY <1>4
    <3>2. \A p \in Participants : new[p] = [e \in Denoms |-> new[p][e]]
      BY ONLY <1>4, from \in Participants, to \in Participants, d \in Denoms, Zenon
    <3> HIDE DEF new
    <3> QED BY <3>1, <3>2, Zenon
  <2>2. \A p \in Participants, e \in Denoms : new[p][e] =
        IF e = d /\ p = from THEN Wealth[p][e] - amount
        ELSE IF e = d /\ p = to THEN Wealth[p][e] + amount ELSE Wealth[p][e]
    <3>1. from # to /\ from \in Participants /\ to \in Participants /\ d \in Denoms
      BY <1>1
    <3> QED BY <2>0, <3>1
  <2> HIDE DEF new
  <2>3. ASSUME NEW p \in Participants PROVE Wealth'[p] = new[p]
    <3>1. /\ Wealth'[p] = [e \in Denoms |-> Wealth'[p][e]]
          /\ new[p] = [e \in Denoms |-> new[p][e]]
      BY <1>4, <2>1
    <3>2. \A e \in Denoms : Wealth'[p][e] = new[p][e]
      BY <1>3, <2>2
    <3> HIDE DEF new
    <3> QED BY <3>1, <3>2, Zenon
  <2>4. Wealth' = new
    <3>1. /\ Wealth' = [p \in Participants |-> Wealth'[p]]
          /\ new = [p \in Participants |-> new[p]]
      BY <1>4, <2>1
    <3> QED BY <2>3, <3>1, Zenon
  <2> QED BY <2>4 DEF new
<1> QED BY <1>1, <1>2, <1>5 DEF Promise!PayNow

\* The sum the promise speaks of is the sum of the model.
LEMMA SameSum == \A f, S : Promise!SumFunctionOnSet(f, S) = SumFunctionOnSet(f, S)
BY DEF Promise!SumFunctionOnSet, Promise!FoldFunctionOnSet, Promise!MapThenFoldSet,
     SumFunctionOnSet, FoldFunctionOnSet, MapThenFoldSet

\* settleGroup discharges the slice: every leg, and nobody is overdrawn.
LEMMA SettlementDischarges ==
  ASSUME TypeInv, SlicesBalance, NEW c \in Cycles, NEW d \in Denoms, SettleGroup(c, d),
         balance' = balance, Due[c][d] = position[c][d], Due' = [Due EXCEPT ![c][d] = Zeros]
  PROVE  Promise!Discharge(c, d)
<1>1. /\ reserve' = [p \in Participants |-> [reserve[p] EXCEPT ![d] = @ + position[c][d][p]]]
      /\ \A p \in Participants : LET owed == DebitOf(position[c][d][p]) IN
           owed > 0 => owed <= reserve[p][d]
      /\ \A p \in Participants : position[c][d][p] \in Int
      /\ reserve \in [Participants -> [Denoms -> Nat]]
      /\ balance \in [Participants -> [Denoms -> Nat]]
  BY DEF SettleGroup, CanSettle, TypeInv, TypeOK
<1>2. Promise!SumFunctionOnSet(Due[c][d], Participants) = 0
  BY SameSum DEF SlicesBalance
<1>3. ASSUME NEW p \in Participants PROVE Wealth[p][d] + Due[c][d][p] >= 0
  <2>1. Wealth[p][d] = balance[p][d] + reserve[p][d]
    BY DEF Wealth
  <2>2. balance[p][d] \in Nat /\ reserve[p][d] \in Nat /\ position[c][d][p] \in Int
    BY <1>1
  <2>3. DebitOf(position[c][d][p]) <= reserve[p][d]
    BY <1>1, <2>2, DebitType
  <2>4. DebitOf(position[c][d][p]) \in Nat /\ position[c][d][p] + DebitOf(position[c][d][p]) >= 0
    BY <2>2, DebitType
  <2> QED BY <2>1, <2>2, <2>3, <2>4
<1>4. Wealth' = [p \in Participants |-> [Wealth[p] EXCEPT ![d] = @ + Due[c][d][p]]]
  <2> DEFINE new == [p \in Participants |-> [Wealth[p] EXCEPT ![d] = @ + Due[c][d][p]]]
  <2>1. \A p \in Participants, e \in Denoms :
          Wealth'[p][e] = IF e = d THEN Wealth[p][e] + Due[c][d][p] ELSE Wealth[p][e]
    <3> TAKE p \in Participants, e \in Denoms
    <3>1. Wealth[p][e] = balance[p][e] + reserve[p][e] /\ Wealth'[p][e] = balance[p][e] + reserve'[p][e]
      BY DEF Wealth
    <3>2. reserve'[p][e] = IF e = d THEN reserve[p][e] + position[c][d][p] ELSE reserve[p][e]
      BY <1>1
    <3>3. balance[p][e] \in Nat /\ reserve[p][e] \in Nat /\ position[c][d][p] \in Int
      BY <1>1
    <3> QED BY <3>1, <3>2, <3>3
  <2>2. /\ Wealth = [p \in Participants |-> [e \in Denoms |-> Wealth[p][e]]]
        /\ Wealth' = [p \in Participants |-> [e \in Denoms |-> Wealth'[p][e]]]
    BY DEF Wealth
  <2>3. /\ new = [p \in Participants |-> [e \in Denoms |-> new[p][e]]]
        /\ \A p \in Participants, e \in Denoms :
             new[p][e] = IF e = d THEN Wealth[p][e] + Due[c][d][p] ELSE Wealth[p][e]
    <3>1. \A p \in Participants : Wealth[p] = [e \in Denoms |-> Wealth[p][e]]
      BY <2>2
    <3>2. \A p \in Participants :
            new[p] = [e \in Denoms |-> IF e = d THEN Wealth[p][e] + Due[c][d][p] ELSE Wealth[p][e]]
      BY <3>1
    <3>3. new = [p \in Participants |-> new[p]]
      OBVIOUS
    <3> HIDE DEF new
    <3> QED BY <3>2, <3>3
  <2> HIDE DEF new
  <2>4. ASSUME NEW p \in Participants PROVE Wealth'[p] = new[p]
    <3>1. /\ Wealth'[p] = [e \in Denoms |-> Wealth'[p][e]]
          /\ new[p] = [e \in Denoms |-> new[p][e]]
      BY <2>2, <2>3
    <3>2. \A e \in Denoms : Wealth'[p][e] = new[p][e]
      BY <2>1, <2>3
    <3> QED BY <3>1, <3>2, Zenon
  <2>5. Wealth' = new
    <3>1. /\ Wealth' = [p \in Participants |-> Wealth'[p]]
          /\ new = [p \in Participants |-> new[p]]
      BY <2>2, <2>3
    <3> QED BY <2>4, <3>1, Zenon
  <2> QED BY <2>5 DEF new
<1> QED BY <1>2, <1>3, <1>4 DEF Promise!Discharge, Zeros

\* Every step keeps the promise.
LEMMA PromiseStep ==
  ASSUME TypeInv, RecordInv, SlicesBalance, [Next]_vars
  PROVE  [Promise!PromiseNext]_(Promise!promiseVars)
<1> DEFINE Goal == Promise!PromiseNext \/ UNCHANGED Promise!promiseVars
<1> SUFFICES Goal
  OBVIOUS
<1>0. DueNext /\ currentCycle \in Cycles
  BY DueSteps DEF TypeInv, TypeOK
<1>1. ASSUME Due' = Due, Wealth' = Wealth PROVE Goal
  BY <1>1 DEF Promise!promiseVars
<1>2. ASSUME ExportAndImport, Due' = Due, Wealth' = Wealth PROVE Goal
  BY <1>1, <1>2
<1>3. ASSUME Due' = Due, NEW from \in Participants, NEW to \in Participants, NEW d \in Denoms,
             NEW amount \in Amounts, SubmitGross(from, to, d, amount)
      PROVE  Goal
  <2>1. from # to /\ Promise!PayNow(from, to, d, amount)
    BY <1>3, GrossPays
  <2> QED BY <2>1 DEF Promise!PromiseNext
<1>4. ASSUME NEW from \in Participants, NEW to \in Participants, NEW d \in Denoms,
             NEW amount \in Amounts, SubmitNet(from, to, d, amount), Wealth' = Wealth,
             Due' = [Due EXCEPT ![currentCycle][d] = Moved(Due[currentCycle][d], from, to, amount)]
      PROVE  Goal
  <2>1. from # to
    BY <1>4 DEF SubmitNet, MayOwe
  <2>2. Promise!Owe(from, to, currentCycle, d, amount)
    BY <1>4 DEF Promise!Owe, Moved
  <2> QED BY <1>0, <2>1, <2>2 DEF Promise!PromiseNext
<1>5. ASSUME NEW c \in Cycles, NEW d \in Denoms, Due[c][d] = position[c][d],
             Due' = [Due EXCEPT ![c][d] = Zeros], SettleGroup(c, d), balance' = balance
      PROVE  Goal
  <2>1. Promise!Discharge(c, d)
    BY <1>5, SettlementDischarges
  <2> QED BY <2>1 DEF Promise!PromiseNext
<1>6. ASSUME NEW c \in Cycles, NEW d \in Denoms, Due' = [Due EXCEPT ![c][d] = Zeros],
             Wealth' = Wealth
      PROVE  Goal
  <2>1. Promise!GiveUp(c, d)
    BY <1>6 DEF Promise!GiveUp, Zeros
  <2> QED BY <2>1 DEF Promise!PromiseNext
<1> HIDE DEF Goal
<1> QED BY <1>0, <1>1, <1>2, <1>3, <1>4, <1>5, <1>6 DEF DueNext

\* x/netting implements SettlementPromise: with collateral, cycles, retries,
\* abandonment and restarts in between, all an institution ever sees is
\* payments at once, dues that arise, and slices that are discharged in full
\* or given up in full.
THEOREM SettlementPromiseKept == Spec => KeepsPromise
<1>1. Init => Promise!PromiseInit
  <2> SUFFICES ASSUME Init PROVE Promise!PromiseInit
    OBVIOUS
  <2>1. TypeOK
    BY InitType DEF TypeInv
  <2>2. ASSUME NEW p \in Participants, NEW d \in Denoms PROVE Wealth[p][d] >= 0
    <3>1. balance[p][d] \in Nat /\ reserve[p][d] \in Nat
      BY <2>1 DEF TypeOK
    <3> QED BY <3>1 DEF Wealth
  <2>3. DOMAIN Due = Cycles
    BY DEF Due
  <2> QED BY <2>2, <2>3 DEF Promise!PromiseInit
<1>2. Init => TypeInv /\ RecordInv
  BY InitType, InitRecord
<1>3. TypeInv /\ RecordInv /\ [Next]_vars => TypeInv' /\ RecordInv'
  BY TypeStep, RecordStep
<1>4. TypeInv /\ RecordInv /\ SlicesBalance /\ [Next]_vars => [Promise!PromiseNext]_(Promise!promiseVars)
  BY PromiseStep
<1> QED BY <1>1, <1>2, <1>3, <1>4, AlwaysBalanced, PTL DEF Spec, KeepsPromise, Promise!PromiseSpec

----------------------------------------------------------------------------
(* The aggregate ceiling *)

\* What one obligation adds to what p has netted as debtor.
NettedOne(o, c, d, p) ==
  IF o.cycle = c /\ o.denom = d /\ o.from = p /\ o.mode = "net" THEN o.amount ELSE 0

\* What is counted from the obligations is an integer.
LEMMA NettedType ==
  ASSUME NEW obs \in Seq(Obligations), NEW c, NEW d, NEW p
  PROVE  NettedBy(obs, c, d, p) \in Int
<1> DEFINE n == Len(obs)
           f == [i \in DOMAIN obs |-> NettedOne(obs[i], c, d, p)]
<1>1. n \in Nat /\ DOMAIN obs = 1 .. n /\ \A i \in 1 .. n : obs[i] \in Obligations
  OBVIOUS
<1>2. \A i \in 1 .. n : f[i] \in Int
  BY <1>1 DEF NettedOne, Obligations
<1>3. NettedBy(obs, c, d, p) = SumFunctionOnSet(f, 1 .. n)
  BY <1>1 DEF NettedBy, NettedOne
<1> HIDE DEF f, n
<1>4. IsFiniteSet(1 .. n)
  BY <1>1, FS_Interval
<1> QED BY <1>2, <1>3, <1>4, SumType

\* An obligation that is recorded adds its own amount and nothing else.
LEMMA NettedAppend ==
  ASSUME NEW obs \in Seq(Obligations), NEW o \in Obligations, NEW c, NEW d, NEW p
  PROVE  NettedBy(Append(obs, o), c, d, p) = NettedBy(obs, c, d, p) + NettedOne(o, c, d, p)
<1> DEFINE n == Len(obs)
           new == Append(obs, o)
           f == [i \in DOMAIN obs |-> NettedOne(obs[i], c, d, p)]
           g == [i \in DOMAIN new |-> NettedOne(new[i], c, d, p)]
<1>1. /\ n \in Nat /\ DOMAIN obs = 1 .. n /\ DOMAIN new = 1 .. n + 1 /\ new[n + 1] = o
      /\ \A i \in 1 .. n : new[i] = obs[i] /\ obs[i] \in Obligations
      /\ \A i \in 1 .. n + 1 : new[i] \in Obligations
  <2>1. new \in Seq(Obligations) /\ Len(new) = n + 1
    OBVIOUS
  <2>2. \A i \in 1 .. n : new[i] = obs[i] /\ obs[i] \in Obligations
    OBVIOUS
  <2>3. new[n + 1] = o
    OBVIOUS
  <2> QED BY <2>1, <2>2, <2>3
<1>2. \A x \in Obligations : NettedOne(x, c, d, p) \in Int
  BY DEF NettedOne, Obligations
<1>3. /\ \A i \in 1 .. n : g[i] = f[i] /\ f[i] \in Int
      /\ \A i \in 1 .. n + 1 : g[i] \in Int
      /\ g[n + 1] = NettedOne(o, c, d, p)
  BY <1>1, <1>2
<1>4. NettedBy(obs, c, d, p) = SumFunctionOnSet(f, 1 .. n)
      /\ NettedBy(new, c, d, p) = SumFunctionOnSet(g, 1 .. n + 1)
  BY <1>1 DEF NettedBy, NettedOne
<1> HIDE DEF f, g, new, n
<1>5. SumFunctionOnSet(g, 1 .. n + 1) = g[n + 1] + SumFunctionOnSet(g, (1 .. n + 1) \ {n + 1})
  <2>1. IsFiniteSet(1 .. n + 1) /\ n + 1 \in 1 .. n + 1
    BY <1>1, FS_Interval
  <2>2. \A i \in 1 .. n + 1 : g[i] \in Int
    BY <1>3
  <2> QED BY <2>1, <2>2, SumRemove
<1>6. (1 .. n + 1) \ {n + 1} = 1 .. n
  BY <1>1
<1>7. SumFunctionOnSet(g, 1 .. n) = SumFunctionOnSet(f, 1 .. n)
      /\ SumFunctionOnSet(f, 1 .. n) \in Int
  <2>1. IsFiniteSet(1 .. n)
    BY <1>1, FS_Interval
  <2> QED BY <1>3, <2>1, SumCong, SumType
<1>8. NettedOne(o, c, d, p) \in Int
  BY <1>2
<1>9. SumFunctionOnSet(g, 1 .. n + 1) = NettedOne(o, c, d, p) + SumFunctionOnSet(f, 1 .. n)
  BY <1>3, <1>5, <1>6, <1>7, Zenon
<1>10. \A i, j \in Int : i + j = j + i
  OBVIOUS
<1> QED BY <1>4, <1>7, <1>8, <1>9, <1>10, Zenon DEF new

\* Cut into whatever pieces, what a debtor nets in a window stays below the
\* ceiling: SubmitObligation counts each netted obligation in NettedTotal,
\* nothing else does, and the one that would reach the ceiling is settled gross.
THEOREM CeilingHolds == Spec => NettedWithinCeiling
<1> DEFINE Step(c, d, p) ==
             LET netted == NettedBy(obligations', c, d, p) - NettedBy(obligations, c, d, p) IN
             /\ nettedTotal'[c][d][p] = nettedTotal[c][d][p] + netted \/ ExportAndImport
             /\ netted # 0 /\ params.policy[d].aggregate > 0
                => nettedTotal'[c][d][p] < params.policy[d].aggregate
<1>1. ASSUME TypeInv, Next, NEW c \in Cycles, NEW d \in Denoms, NEW p \in Participants
      PROVE  Step(c, d, p)
  <2>0. /\ TypeOK /\ obligations \in Seq(Obligations) /\ nettedTotal[c][d][p] \in Nat
        /\ NettedBy(obligations, c, d, p) \in Int
        /\ nettedTotal \in [Cycles -> [Denoms -> [Participants -> Nat]]]
        /\ currentCycle \in Cycles
    <3>1. TypeOK /\ obligations \in Seq(Obligations)
      BY <1>1 DEF TypeInv, TypeOK
    <3>2. NettedBy(obligations, c, d, p) \in Int
      BY <3>1, NettedType
    <3>3. /\ nettedTotal \in [Cycles -> [Denoms -> [Participants -> Nat]]]
          /\ currentCycle \in Cycles
      BY <3>1 DEF TypeOK
    <3> QED BY ONLY <3>1, <3>2, <3>3, c \in Cycles, d \in Denoms, p \in Participants
  <2>1. ASSUME obligations' = obligations, nettedTotal' = nettedTotal \/ ExportAndImport
        PROVE  Step(c, d, p)
    BY <2>0, <2>1
  <2>2. ASSUME NEW from \in Participants, NEW to \in Participants, NEW e \in Denoms,
               NEW amount \in Amounts, NEW mode \in {"gross", "net"}, Record(from, to, e, amount, mode)
        PROVE  NettedBy(obligations', c, d, p) - NettedBy(obligations, c, d, p)
                 = IF mode = "net" /\ c = currentCycle /\ d = e /\ p = from THEN amount ELSE 0
    <3> DEFINE o == [cycle |-> currentCycle, from |-> from, to |-> to, denom |-> e,
                     amount |-> amount, mode |-> mode]
    <3>1. amount \in Nat
      BY BoundAssumption
    <3>2. o \in Obligations /\ obligations' = Append(obligations, o)
      BY <2>0, <2>2, <3>1 DEF Record, Obligations
    <3>3. NettedOne(o, c, d, p)
            = IF mode = "net" /\ c = currentCycle /\ d = e /\ p = from THEN amount ELSE 0
      BY DEF NettedOne
    <3> HIDE DEF o
    <3>4. NettedBy(obligations', c, d, p) = NettedBy(obligations, c, d, p) + NettedOne(o, c, d, p)
      BY <2>0, <3>2, NettedAppend
    <3>5. NettedOne(o, c, d, p) \in Int
      BY <3>1, <3>3
    <3> DEFINE before == NettedBy(obligations, c, d, p)
               one    == NettedOne(o, c, d, p)
    <3>6. before \in Int /\ one \in Int
      BY <2>0, <3>5
    <3> HIDE DEF before, one
    <3>7. (before + one) - before = one
      BY <3>6
    <3> QED BY ONLY <3>3, <3>4, <3>7 DEF before, one
  <2>3. ASSUME NEW from \in Participants, NEW to \in Participants, NEW e \in Denoms,
               NEW amount \in Amounts, SubmitGross(from, to, e, amount)
        PROVE  Step(c, d, p)
    <3>1. NettedBy(obligations', c, d, p) - NettedBy(obligations, c, d, p) = 0
      BY <2>2, <2>3 DEF SubmitGross
    <3>2. nettedTotal' = nettedTotal
      BY <2>3 DEF SubmitGross
    <3> QED BY ONLY <2>0, <3>1, <3>2
  <2>4. ASSUME NEW from \in Participants, NEW to \in Participants, NEW e \in Denoms,
               NEW amount \in Amounts, SubmitNet(from, to, e, amount)
        PROVE  Step(c, d, p)
    <3> DEFINE netted == NettedBy(obligations', c, d, p) - NettedBy(obligations, c, d, p)
               here == c = currentCycle /\ d = e /\ p = from
    <3>1. netted = IF here THEN amount ELSE 0
      <4>1. Record(from, to, e, amount, "net")
        BY <2>4 DEF SubmitNet
      <4> QED BY <2>2, <4>1
    <3>2. /\ nettedTotal' = [nettedTotal EXCEPT ![currentCycle][e][from] = @ + amount]
          /\ ModeOf(currentCycle, e, from, amount) = "net"
      BY <2>4 DEF SubmitNet
    <3>3. amount \in Nat
      BY BoundAssumption
    <3>4. nettedTotal'[c][d][p] = IF here THEN nettedTotal[c][d][p] + amount ELSE nettedTotal[c][d][p]
      BY <2>0, <3>2
    <3>5. ASSUME here, params.policy[d].aggregate > 0
          PROVE  nettedTotal'[c][d][p] < params.policy[d].aggregate
      <4>1. params.policy[d].configured /\ ~WouldExceedAggregate(params, c, d, p, amount)
        BY <3>2, <3>5 DEF ModeOf, SettlementModeFor
      <4>2. params.policy[d].aggregate \in Nat
        BY <2>0 DEF TypeOK, ParamSets, Policies
      <4> QED BY <2>0, <3>3, <3>4, <3>5, <4>1, <4>2 DEF WouldExceedAggregate
    <3> HIDE DEF netted, here
    <3>6. nettedTotal'[c][d][p] = nettedTotal[c][d][p] + netted
      BY <2>0, <3>1, <3>4
    <3>7. netted # 0 => here
      BY <3>1
    <3> QED BY <3>5, <3>6, <3>7 DEF netted
  <2>5. ASSUME NEW q \in Participants, NEW coins \in Coins,
               PostReserve(q, coins) \/ WithdrawReserve(q, coins)
        PROVE  Step(c, d, p)
    BY <2>1, <2>5 DEF PostReserve, WithdrawReserve
  <2>6. ASSUME NEW q \in Applicants, ApproveParticipant(q) PROVE Step(c, d, p)
    BY <2>1, <2>6 DEF ApproveParticipant
  <2> HIDE DEF Step
  <2>7. CASE Messages
    BY <2>3, <2>4, <2>5, <2>6, <2>7 DEF Messages
  <2>8. CASE Governance
    BY <2>1, <2>8 DEF Governance, UpdateParams, AbandonHeldSlice
  <2>9. CASE EndBlocker
    <3>1. obligations' = obligations /\ nettedTotal' = nettedTotal
      BY <2>9 DEF EndBlocker, EndBlockIdle, EndBlockCollect, RetryEmpty, RetrySettles, RetryRefused,
           RetryStep, CloseStart, CloseSettles, CloseHolds, CloseStep, EndBlockFinish
    <3> QED BY <2>1, <3>1
  <2>10. CASE ExportAndImport
    BY <2>1, <2>10 DEF ExportAndImport
  <2> QED BY <1>1, <2>7, <2>8, <2>9, <2>10 DEF Next
<1>2. TypeInv /\ [Next]_vars => [\A c \in Cycles, d \in Denoms, p \in Participants : Step(c, d, p)]_vars
  BY <1>1
<1> QED BY <1>2, InitType, TypeStep, PTL DEF Spec, NettedWithinCeiling

----------------------------------------------------------------------------
(* The retry queue is the record *)

\* A slice whose record says held, and that nobody gave up.
Waits(c, d) == outcome[c][d].status = "held" /\ outcome[c][d].reason # "abandoned"

\* The inductive form of QueueMatchesRecord: the status of the cycle is right
\* even while the window of the slice is being closed.
QueueRecord ==
  \A c \in Cycles, d \in Denoms : /\ <<c, d>> \in held <=> Waits(c, d)
                                  /\ <<c, d>> \in held => cycleStatus[c] = "held"

\* A file in which nothing was given up, and the cycle of a held slice says so.
QueuedFile(g) ==
  \A c \in Cycles, d \in Denoms : g.outcome[c][d].status = "held" =>
    g.outcome[c][d].reason # "abandoned" /\ g.cycleStatus[c] = "held"

LEMMA QueueRecordMatches == TypeInv /\ QueueRecord => QueueMatchesRecord
<1> SUFFICES ASSUME TypeInv, QueueRecord PROVE QueueMatchesRecord
  OBVIOUS
<1>1. held \subseteq Slices /\ HeldFrom(ExportGenesis) = {s \in Slices : outcome[s[1]][s[2]].status = "held"}
  BY DEF TypeInv, TypeOK, HeldFrom, ExportGenesis
<1>2. \A s \in Slices : s[1] \in Cycles /\ s[2] \in Denoms /\ s = <<s[1], s[2]>>
  BY DEF Slices
<1>3. \A s \in Slices :
        s \in held <=> outcome[s[1]][s[2]].status = "held" /\ outcome[s[1]][s[2]].reason # "abandoned"
  BY <1>2 DEF QueueRecord, Waits
<1>4. \A s \in held : cycleStatus[s[1]] = "held"
  BY <1>1, <1>2 DEF QueueRecord
<1> QED BY <1>1, <1>3, <1>4 DEF QueueMatchesRecord

\* A step that touches one slice.
LEMMA QueueUpdate ==
  ASSUME TypeInv, QueueRecord, NEW b \in Cycles, NEW e \in Denoms, NEW o,
         outcome' = [outcome EXCEPT ![b][e] = o],
         \A c \in Cycles, d \in Denoms : c # b \/ d # e => (<<c, d>> \in held' <=> <<c, d>> \in held),
         <<b, e>> \in held' <=> o.status = "held" /\ o.reason # "abandoned",
         \A c \in Cycles : c # b => cycleStatus'[c] = cycleStatus[c],
         \A d \in Denoms : <<b, d>> \in held' => cycleStatus'[b] = "held"
  PROVE  QueueRecord'
<1>1. \A c \in Cycles, d \in Denoms : outcome'[c][d] = IF c = b /\ d = e THEN o ELSE outcome[c][d]
  BY DEF TypeInv, TypeOK
<1>2. ASSUME NEW c \in Cycles, NEW d \in Denoms
      PROVE  <<c, d>> \in held' <=> outcome'[c][d].status = "held" /\ outcome'[c][d].reason # "abandoned"
  BY <1>1 DEF QueueRecord, Waits
<1>3. ASSUME NEW c \in Cycles, NEW d \in Denoms, <<c, d>> \in held'
      PROVE  cycleStatus'[c] = "held"
  BY <1>3 DEF QueueRecord
<1> QED BY <1>2, <1>3 DEF QueueRecord, Waits

\* Every step but a restart keeps the queue equal to the record.
LEMMA QueueStep ==
  ASSUME TypeInv, RecordInv, QueueRecord, ~Restarts, [Next]_vars
  PROVE  QueueRecord'
<1>0. /\ TypeOK /\ currentCycle \in Cycles
      /\ \A c \in Cycles, d \in Denoms : outcome[c][d] \in Outcomes
      /\ \A d \in Denoms : Unclosed(d) => <<currentCycle, d>> \notin held
  BY DEF TypeInv, TypeOK, QueueRecord, Waits, Unclosed
<1>1. ASSUME UNCHANGED <<held, outcome, cycleStatus>> PROVE QueueRecord'
  BY <1>1 DEF QueueRecord, Waits
<1>2. CASE Messages
  <2>1. ASSUME NEW from \in Participants, NEW to \in Participants, NEW d \in Denoms,
               NEW amount \in Amounts, SubmitNet(from, to, d, amount)
        PROVE  QueueRecord'
    <3> DEFINE o == Submitted(outcome[currentCycle][d], amount)
    <3>1. /\ outcome' = [outcome EXCEPT ![currentCycle][d] = o]
          /\ held' = held /\ cycleStatus' = cycleStatus /\ phase = "deliver"
      BY <2>1 DEF SubmitNet, MayOwe, holdVars
    <3>2. Unclosed(d)
      BY <3>1 DEF RecordInv, WindowInv
    <3>3. o.status = "open"
      <4>1. outcome[currentCycle][d].status \in {"none", "open"}
        BY <3>2 DEF Unclosed
      <4> QED BY <1>0, <4>1 DEF Submitted, Outcomes
    <3> HIDE DEF o
    <3> QED BY <1>0, <3>1, <3>2, <3>3, QueueUpdate DEF QueueRecord
  <2>2. ASSUME NEW p \in Participants, NEW coins \in Coins,
               PostReserve(p, coins) \/ WithdrawReserve(p, coins)
        PROVE  QueueRecord'
    BY <1>1, <2>2 DEF PostReserve, WithdrawReserve, cycleVars, holdVars
  <2>3. ASSUME NEW from \in Participants, NEW to \in Participants, NEW d \in Denoms,
               NEW amount \in Amounts, SubmitGross(from, to, d, amount)
        PROVE  QueueRecord'
    BY <1>1, <2>3 DEF SubmitGross, cycleVars, holdVars
  <2>4. ASSUME NEW p \in Applicants, ApproveParticipant(p) PROVE QueueRecord'
    BY <1>1, <2>4 DEF ApproveParticipant, cycleVars, holdVars
  <2> QED BY <1>2, <2>1, <2>2, <2>3, <2>4 DEF Messages
<1>3. CASE Governance
  <2>1. ASSUME NEW p \in ParamChoices, UpdateParams(p) PROVE QueueRecord'
    BY <1>1, <2>1 DEF UpdateParams, cycleVars, holdVars
  <2>2. ASSUME NEW c \in Cycles, NEW d \in Denoms, AbandonHeldSlice(c, d) PROVE QueueRecord'
    <3> DEFINE o == AbandonedOutcome(outcome[c][d])
    <3>1. /\ outcome' = [outcome EXCEPT ![c][d] = o] /\ held' = held \ {<<c, d>>}
          /\ cycleStatus' = cycleStatus
      BY <2>2 DEF AbandonHeldSlice
    <3>2. outcome[c][d].status = "held" /\ outcome[c][d] \in Outcomes
      BY <1>0, <2>2, RecordAbandon
    <3>3. o.reason = "abandoned"
      BY <3>2 DEF AbandonedOutcome, Outcomes
    <3> HIDE DEF o
    <3> QED BY <3>1, <3>3, QueueUpdate DEF QueueRecord
  <2>3. \A s \in held : s[1] \in Cycles /\ s[2] \in Denoms
    BY <1>0 DEF TypeOK, Slices
  <2> QED BY <1>3, <2>1, <2>2, <2>3 DEF Governance
<1>4. ASSUME NEW s \in pending, RetryEmpty(s) \/ RetrySettles(s) \/ RetryRefused(s)
      PROVE  QueueRecord'
  <2>0. s[1] \in Cycles /\ s[2] \in Denoms
    BY <1>0 DEF TypeOK, Slices
  <2>1. CASE RetryRefused(s)
    BY <1>1, <2>1 DEF RetryRefused
  <2>2. ASSUME NEW net, MarkRetried(s[1], s[2], net) PROVE QueueRecord'
    <3> DEFINE c == s[1]
               d == s[2]
               o == SettledOutcome(outcome[c][d], net)
               st == IF \E e \in Denoms \ {d} : outcome[c][e].status = "held" THEN "held" ELSE "settled"
    <3>1. /\ outcome' = [outcome EXCEPT ![c][d] = o] /\ held' = held \ {<<c, d>>}
          /\ cycleStatus' = [cycleStatus EXCEPT ![c] = st]
      BY <2>2 DEF MarkRetried
    <3>2. o.status = "settled"
      BY <1>0, <2>0, SettledStatus
    <3>3. \A e \in Denoms : <<c, e>> \in held' => st = "held"
      BY <2>0, <3>1 DEF QueueRecord, Waits
    <3> HIDE DEF o, st, c, d
    <3>4. /\ \A b \in Cycles : b # c => cycleStatus'[b] = cycleStatus[b]
          /\ cycleStatus'[c] = st
      BY <1>0, <2>0, <3>1 DEF TypeOK, c
    <3>5. c \in Cycles /\ d \in Denoms
      BY <2>0 DEF c, d
    <3>6. \A e \in Denoms : <<c, e>> \in held' => cycleStatus'[c] = "held"
      BY <3>3, <3>4
    <3>7. /\ \A b \in Cycles, e \in Denoms : b # c \/ e # d => (<<b, e>> \in held' <=> <<b, e>> \in held)
          /\ <<c, d>> \notin held'
      BY <3>1
    <3> QED BY <3>1, <3>2, <3>4, <3>5, <3>6, <3>7, QueueUpdate
  <2> QED BY <1>4, <2>1, <2>2 DEF RetryEmpty, RetrySettles
<1>5. CASE CloseStart
  <2>1. /\ held' = held /\ outcome' = outcome /\ phase = "retry"
        /\ cycleStatus' = [cycleStatus EXCEPT ![currentCycle] = "settled"]
    BY <1>5 DEF CloseStart, holdVars
  <2>2. \A d \in Denoms : <<currentCycle, d>> \notin held
    BY <1>0, <2>1 DEF RecordInv, WindowInv
  <2>3. \A c \in Cycles : c # currentCycle => cycleStatus'[c] = cycleStatus[c]
    BY <1>0, <2>1 DEF TypeOK
  <2> QED BY <1>0, <2>1, <2>2, <2>3 DEF QueueRecord, Waits
<1>6. ASSUME NEW d \in groups, CloseSettles(d) \/ CloseHolds(d) PROVE QueueRecord'
  <2>0. d \in Denoms /\ <<currentCycle, d>> \notin held
    <3>1. d \in Denoms /\ outcome[currentCycle][d].status \in {"none", "open"}
      BY <1>6, RecordCloseSlice
    <3> QED BY <1>0, <3>1 DEF Unclosed
  <2>1. CASE CloseSettles(d)
    <3> DEFINE o == SettledOutcome(outcome[currentCycle][d], Debits(position[currentCycle][d]))
    <3>1. /\ outcome' = [outcome EXCEPT ![currentCycle][d] = o] /\ held' = held
          /\ cycleStatus' = cycleStatus
      BY <2>1 DEF CloseSettles
    <3>2. o.status = "settled"
      BY <1>0, <2>0, SettledStatus
    <3> HIDE DEF o
    <3> QED BY <1>0, <2>0, <3>1, <3>2, QueueUpdate DEF QueueRecord
  <2>2. CASE CloseHolds(d)
    <3> DEFINE o == HeldOutcome(outcome[currentCycle][d])
    <3>1. /\ outcome' = [outcome EXCEPT ![currentCycle][d] = o]
          /\ held' = held \cup {<<currentCycle, d>>}
          /\ cycleStatus' = [cycleStatus EXCEPT ![currentCycle] = "held"]
      BY <2>2 DEF CloseHolds
    <3>2. o.status = "held" /\ o.reason = "refused"
      BY <1>0, <2>0 DEF HeldOutcome, Outcomes
    <3> HIDE DEF o
    <3>3. /\ \A c \in Cycles : c # currentCycle => cycleStatus'[c] = cycleStatus[c]
          /\ cycleStatus'[currentCycle] = "held"
      BY <1>0, <3>1 DEF TypeOK
    <3>4. /\ \A b \in Cycles, e \in Denoms :
               b # currentCycle \/ e # d => (<<b, e>> \in held' <=> <<b, e>> \in held)
          /\ <<currentCycle, d>> \in held'
      BY <3>1
    <3> QED BY <1>0, <2>0, <3>1, <3>2, <3>3, <3>4, QueueUpdate
  <2> QED BY <1>6, <2>1, <2>2
<1>7. CASE EndBlockFinish
  <2>1. /\ held' = held /\ cycleSeq \in Cycles /\ cycleStatus[cycleSeq] = "none"
        /\ \A c \in Cycles : c # cycleSeq => cycleStatus'[c] = cycleStatus[c]
        /\ \A c \in Cycles, d \in Denoms : c # currentCycle => outcome'[c][d] = outcome[c][d]
    BY <1>7, RecordFinish DEF EndBlockFinish
  <2>2. ASSUME NEW d \in Denoms
        PROVE  /\ outcome'[currentCycle][d].status = "held" <=> outcome[currentCycle][d].status = "held"
               /\ outcome[currentCycle][d].status = "held" => outcome'[currentCycle][d] = outcome[currentCycle][d]
    <3> DEFINE o == outcome[currentCycle][d]
    <3>1. outcome'[currentCycle][d] = CancelledOutcome(o)
      BY <1>0, <1>7 DEF EndBlockFinish, TypeOK
    <3>2. CancelledOutcome(o).status = IF o.status = "open" THEN "settled" ELSE o.status
      BY <1>0, ClosedStatus
    <3>3. o.status = "held" => CancelledOutcome(o) = o
      BY DEF CancelledOutcome
    <3> HIDE DEF o
    <3> QED BY <3>1, <3>2, <3>3 DEF o
  <2>3. \A c \in Cycles, d \in Denoms : Waits(c, d)' <=> Waits(c, d)
    BY <2>1, <2>2 DEF Waits
  <2>4. \A c \in Cycles, d \in Denoms : <<c, d>> \in held => cycleStatus'[c] = "held"
    BY <1>0, <2>1 DEF QueueRecord
  <2> QED BY <2>1, <2>3, <2>4 DEF QueueRecord
<1>8. CASE EndBlockIdle \/ EndBlockCollect \/ UNCHANGED vars
  BY <1>1, <1>8 DEF EndBlockIdle, EndBlockCollect, vars, cycleVars, holdVars
<1>9. CASE ExportAndImport
  BY <1>9 DEF ExportAndImport
<1> QED BY <1>2, <1>3, <1>4, <1>5, <1>6, <1>7, <1>8, <1>9 DEF Next, EndBlocker

\* From a start with nothing given up to the next restart, the queue the end
\* blocker walks and the outcomes a query shows agree: nothing held is
\* forgotten, nothing settled is retried.  A restart rebuilds the queue from
\* the outcomes alone and so takes up again what governance had given up,
\* which is why the hypothesis excludes one.
THEOREM QueueAlwaysMatches ==
  ASSUME ~Restarts, \A g \in Genesis : QueuedFile(g)
  PROVE  Spec => []QueueMatchesRecord
<1>1. Init => TypeInv /\ RecordInv /\ QueueRecord
  <2>1. ASSUME NEW g \in Genesis, InitFrom(g) PROVE QueueRecord
    <3>1. held = HeldFrom(g) /\ outcome = g.outcome /\ cycleStatus = g.cycleStatus
      BY <2>1 DEF InitFrom, RebuiltFrom
    <3>2. \A c \in Cycles, d \in Denoms : <<c, d>> \in held <=> g.outcome[c][d].status = "held"
      BY <3>1 DEF HeldFrom, Slices
    <3> QED BY <3>1, <3>2 DEF QueueRecord, Waits, QueuedFile
  <2> QED BY <2>1, InitType, InitRecord DEF Init
<1>2. TypeInv /\ RecordInv /\ QueueRecord /\ [Next]_vars => TypeInv' /\ RecordInv' /\ QueueRecord'
  BY TypeStep, RecordStep, QueueStep
<1>3. TypeInv /\ QueueRecord => QueueMatchesRecord
  BY QueueRecordMatches
<1> QED BY <1>1, <1>2, <1>3, PTL DEF Spec

----------------------------------------------------------------------------
(* Settlement is final *)

\* A slice that settled stays as it settled: no later obligation, close, retry,
\* abandonment or restart writes its record or its positions again
\* (setSliceOutcome, applyToPositions, AbandonHeldSlice), although the retry
\* queue, the status of the cycle and the record are written separately.
FinalStep ==
  \A c \in Cycles, d \in Denoms : outcome[c][d].status = "settled" =>
    outcome'[c][d] = outcome[c][d] /\ position'[c][d] = position[c][d]
SettlementIsFinal == [][FinalStep]_vars

\* What a message may do to a settled slice: nothing, it is not the open one.
LEMMA FinalMessages ==
  ASSUME TypeInv, TypeInv', RecordInv, Messages
  PROVE  FinalStep
<1>1. ASSUME NEW from \in Participants, NEW to \in Participants, NEW d \in Denoms,
             NEW amount \in Amounts, SubmitNet(from, to, d, amount)
      PROVE  FinalStep
  <2>1. /\ phase = "deliver" /\ currentCycle \in Cycles
        /\ \A e \in Denoms : outcome[currentCycle][e].status # "settled"
    BY <1>1 DEF SubmitNet, MayOwe, RecordInv, WindowInv, Unclosed, TypeInv, TypeOK
  <2>2. \A c \in Cycles : c # currentCycle => outcome'[c] = outcome[c] /\ position'[c] = position[c]
    BY <1>1 DEF SubmitNet, ApplyToPositions, TypeInv, TypeOK
  <2> QED BY <2>1, <2>2 DEF FinalStep
<1>2. ASSUME UNCHANGED <<outcome, position>> PROVE FinalStep
  BY <1>2 DEF FinalStep
<1>3. ASSUME NEW from \in Participants, NEW to \in Participants, NEW d \in Denoms,
             NEW amount \in Amounts, SubmitGross(from, to, d, amount)
      PROVE  FinalStep
  BY <1>2, <1>3 DEF SubmitGross, cycleVars, ledgerVars
<1>4. ASSUME NEW p \in Participants, NEW coins \in Coins,
             PostReserve(p, coins) \/ WithdrawReserve(p, coins)
      PROVE  FinalStep
  BY <1>2, <1>4 DEF PostReserve, WithdrawReserve, cycleVars
<1>5. ASSUME NEW p \in Applicants, ApproveParticipant(p) PROVE FinalStep
  BY <1>2, <1>5 DEF ApproveParticipant, cycleVars, ledgerVars
<1> QED BY <1>1, <1>3, <1>4, <1>5 DEF Messages

\* What the end blocker may do to it: a slice is settled once, by the close of
\* its window or by a retry, and both take it out of their work first.
LEMMA FinalEndBlock ==
  ASSUME TypeInv, RecordInv, EndBlocker
  PROVE  FinalStep
<1>1. CASE EndBlockIdle \/ EndBlockCollect
  BY <1>1 DEF EndBlockIdle, EndBlockCollect, cycleVars, ledgerVars, FinalStep
<1>2. ASSUME NEW s \in pending, NEW net \in Nat, RetryStep(s), MarkRetried(s[1], s[2], net)
      PROVE  FinalStep
  <2>1. position' = position
    BY <1>2 DEF RetryStep
  <2> QED BY <1>2, <2>1, RecordRetry DEF FinalStep
<1>3. ASSUME NEW s \in pending, RetryEmpty(s) \/ RetrySettles(s) PROVE FinalStep
  <2>1. CASE RetryEmpty(s)
    BY <1>2, <2>1 DEF RetryEmpty
  <2>2. CASE RetrySettles(s)
    <3> DEFINE net == Debits(position[s[1]][s[2]])
    <3>1. s[1] \in Cycles /\ s[2] \in Denoms
      BY DEF TypeInv, TypeOK, Slices
    <3>2. net \in Nat
      BY <3>1, DebitsType, Entries DEF TypeInv
    <3>3. RetryStep(s) /\ MarkRetried(s[1], s[2], net)
      BY <2>2 DEF RetrySettles
    <3> HIDE DEF net
    <3> QED BY <1>2, <3>2, <3>3
  <2> QED BY <1>3, <2>1, <2>2
<1>4. ASSUME NEW s \in pending, RetryRefused(s) PROVE FinalStep
  BY <1>4 DEF RetryRefused, RetryStep, FinalStep
<1>5. CASE CloseStart
  BY <1>5, RecordCloseStart DEF FinalStep
<1>6. ASSUME NEW d \in groups, CloseSettles(d) \/ CloseHolds(d) PROVE FinalStep
  <2>1. position' = position
    BY <1>6 DEF CloseSettles, CloseHolds, CloseStep
  <2> QED BY <1>6, <2>1, RecordCloseSlice DEF FinalStep
<1>7. CASE EndBlockFinish
  <2>1. /\ position' = position
        /\ \A c \in Cycles, d \in Denoms : c # currentCycle => outcome'[c][d] = outcome[c][d]
    BY <1>7, RecordFinish
  <2>2. ASSUME NEW d \in Denoms, outcome[currentCycle][d].status = "settled"
        PROVE  outcome'[currentCycle][d] = outcome[currentCycle][d]
    <3>1. outcome'[currentCycle][d] = CancelledOutcome(outcome[currentCycle][d])
      BY <1>7 DEF EndBlockFinish, TypeInv, TypeOK
    <3> QED BY <2>2, <3>1 DEF CancelledOutcome
  <2> QED BY <2>1, <2>2 DEF FinalStep
<1> QED BY <1>1, <1>3, <1>4, <1>5, <1>6, <1>7 DEF EndBlocker

\* Settlement is final: whatever happens afterwards, a settled slice keeps its
\* record and its positions.
THEOREM SettlementAlwaysFinal == Spec => SettlementIsFinal
<1>1. ASSUME TypeInv, TypeInv', RecordInv, [Next]_vars PROVE [FinalStep]_vars
  <2> SUFFICES ASSUME Next PROVE FinalStep
    BY <1>1
  <2>1. CASE Messages
    BY <1>1, <2>1, FinalMessages
  <2>2. CASE Governance
    <3>1. ASSUME NEW p \in ParamChoices, UpdateParams(p) PROVE FinalStep
      BY <3>1 DEF UpdateParams, cycleVars, ledgerVars, FinalStep
    <3>2. ASSUME NEW s \in held, AbandonHeldSlice(s[1], s[2]) PROVE FinalStep
      <4> DEFINE c == s[1]
                 d == s[2]
      <4>1. c \in Cycles /\ d \in Denoms
        BY <1>1 DEF TypeInv, TypeOK, Slices
      <4>2. AbandonHeldSlice(c, d)
        BY <3>2
      <4> HIDE DEF c, d
      <4>3. outcome[c][d].status = "held"
        BY <1>1, <4>1, <4>2, RecordAbandon
      <4>4. \A b \in Cycles, e \in Denoms : b # c \/ e # d =>
              outcome'[b][e] = outcome[b][e] /\ position'[b][e] = position[b][e]
        BY <1>1, <4>1, <4>2 DEF AbandonHeldSlice, TypeInv, TypeOK
      <4> QED BY <4>3, <4>4 DEF FinalStep
    <3> QED BY <2>2, <3>1, <3>2 DEF Governance
  <2>3. CASE EndBlocker
    BY <1>1, <2>3, FinalEndBlock
  <2>4. CASE ExportAndImport
    BY <2>4 DEF ExportAndImport, cycleVars, FinalStep
  <2> QED BY <2>1, <2>2, <2>3, <2>4 DEF Next
<1>2. Init => TypeInv /\ RecordInv
  BY InitType, InitRecord
<1>3. TypeInv /\ RecordInv /\ [Next]_vars => TypeInv' /\ RecordInv'
  BY TypeStep, RecordStep
<1> QED BY <1>1, <1>2, <1>3, PTL DEF Spec, SettlementIsFinal

============================================================================
