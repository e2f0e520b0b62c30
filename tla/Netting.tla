------------------------------ MODULE Netting ------------------------------
(***************************************************************************)
(* x/netting: deferred multilateral net settlement between approved        *)
(* participants, one currency slice at a time, against prefunded reserves. *)
(*                                                                         *)
(* A message is one atomic action: a handler that returns an error is      *)
(* rolled back by the SDK, so a refused message is an action not taken.    *)
(* The end blocker runs after the messages of a block and is modelled as   *)
(* the sequence of its own calls (retryHeldSlices slice by slice,          *)
(* closeCycle slice by slice, escalateOldHolds and openCycle), driven by   *)
(* the variable phase; no message runs in between.                         *)
(*                                                                         *)
(* Absence of a stored amount is the amount zero, as in readInt and        *)
(* GetPosition.  Denominations are numbers in the order of the store keys. *)
(***************************************************************************)
EXTENDS Integers, FiniteSets, Sequences, Functions

CONSTANTS
  Participants,     \* institutions that may hold a reserve
  Denoms,           \* currencies, numbered in store-key order
  MaxCycle,         \* bound: cycles a behaviour may open
  HeightPeriod,     \* heights are counted modulo this (see HeightAssumption)
  MaxObligations,   \* bound: obligations submitted
  Amounts,          \* amounts a message may carry
  InitialBalance,   \* bank balance of a participant in each currency
  MaxSlices,        \* maxSlicesPerBlock
  MaxCycleBlocks,   \* the ceiling on cycle_blocks
  ParamChoices,     \* parameter sets governance may install
  Genesis,          \* genesis states the chain may start from
  Applicants,       \* institutions not admitted by x/paymsg at the start
  Restarts          \* whether the chain may be restarted from its own export

Cycles == 1 .. MaxCycle
Slices == Cycles \X Denoms
NoSlice == <<0, 0>>         \* the empty cursor, and "no slice"
NoPolicy == [gross |-> 0, aggregate |-> 0, configured |-> FALSE]

Policies == [gross : Nat, aggregate : Nat, configured : BOOLEAN]
ParamSets == [cycleBlocks : Nat, policy : [Denoms -> Policies], maxHold : Nat]

SliceStatus == {"none", "open", "settled", "held"}
Reasons == {"", "refused", "abandoned"}
Outcomes == [status : SliceStatus, gross : Nat, net : Nat, reason : Reasons]
NoOutcome == [status |-> "none", gross |-> 0, net |-> 0, reason |-> ""]

Obligations == [cycle : Cycles, from : Participants, to : Participants,
                denom : Denoms, amount : Nat, mode : {"gross", "net"}]

VARIABLES
  params,          \* module parameters
  height,          \* block height, modulo HeightPeriod
  phase,           \* where the block is: messages, or a step of EndBlocker
  pending,         \* held slices retryHeldSlices has collected and not yet tried
  groups,          \* currencies of the closing cycle not yet settled or held
  currentCycle,    \* CurrentCycle
  cycleSeq,        \* CycleSeq, the id of the next cycle
  cycleStatus,     \* Cycle[id].Status
  outcome,         \* Cycle[id].Outcomes, by currency
  obligations,     \* Obligation; an obligation's id is its index
  position,        \* Position[cycle][denom][participant]
  reserve,         \* Reserve[participant][denom]
  locked,          \* Locked[participant][denom]
  held,            \* HeldSlice
  heldSince,       \* HeldSince, zero where there is no stamp
  retryCursor,     \* RetryCursor
  escalateCursor,  \* EscalateCursor
  nettedTotal,     \* NettedTotal[cycle][denom][participant]
  overdue,         \* slices the last boundary reported as EventHoldOverdue
  approved,        \* x/paymsg: institutions admitted
  balance,         \* x/bank: participants' own balances
  custody          \* x/bank: balance of the netting module account

blockVars  == <<params, height, phase, pending, groups>>
cycleVars  == <<currentCycle, cycleSeq, cycleStatus, outcome>>
ledgerVars == <<position, reserve, locked>>
holdVars   == <<held, heldSince, retryCursor, escalateCursor, overdue>>
bankVars   == <<balance, custody>>
vars == <<blockVars, cycleVars, ledgerVars, holdVars, bankVars,
          obligations, nettedTotal, approved>>

----------------------------------------------------------------------------
(* Parameters *)

NettingEnabled(p) == p.cycleBlocks > 0 /\ p.cycleBlocks <= MaxCycleBlocks

\* settlementModeFor: every path that is not an explicit decision to net is gross.
SettlementModeFor(p, d, amount) ==
  IF /\ NettingEnabled(p)
     /\ p.policy[d].configured
     /\ p.policy[d].gross > 0
     /\ amount < p.policy[d].gross
  THEN "net" ELSE "gross"

\* Fault: the ceiling looks at one obligation, not at the running total.
WouldExceedAggregate_PerObligation(p, c, d, from, amount) ==
  /\ p.policy[d].configured /\ p.policy[d].aggregate > 0
  /\ amount >= p.policy[d].aggregate

\* wouldExceedAggregate: what the debtor has netted in this cycle, plus this.
WouldExceedAggregate(p, c, d, from, amount) ==
  /\ p.policy[d].configured /\ p.policy[d].aggregate > 0
  /\ nettedTotal[c][d][from] + amount >= p.policy[d].aggregate

ModeOf(c, d, from, amount) ==
  IF WouldExceedAggregate(params, c, d, from, amount)
  THEN "gross" ELSE SettlementModeFor(params, d, amount)

----------------------------------------------------------------------------
(* Amounts *)

DebitOf(amount) == IF amount < 0 THEN -amount ELSE 0
CreditOf(amount) == IF amount > 0 THEN amount ELSE 0

Debits(pos) == SumFunctionOnSet([p \in Participants |-> DebitOf(pos[p])], Participants)
Credits(pos) == SumFunctionOnSet([p \in Participants |-> CreditOf(pos[p])], Participants)

\* Fault: committed collateral counts as free.
Available_IgnoringLocked(p, d) == reserve[p][d]

Available(p, d) ==
  IF locked[p][d] >= reserve[p][d] THEN 0 ELSE reserve[p][d] - locked[p][d]

----------------------------------------------------------------------------
(* Genesis.  A genesis state carries what ExportGenesis writes; locked, the *)
(* retry queue and the cursors are rebuilt, hold stamps and netted totals   *)
(* are not carried at all.                                                  *)

\* Fault: only held slices are taken for unsettled, the open window forgotten.
SliceUnsettled_HeldOnly(g, c, d) == g.outcome[c][d].status = "held"

SliceUnsettled(g, c, d) ==
  \/ g.cycleStatus[c] = "open"
  \/ g.outcome[c][d].status # "settled"

OwedUnsettled(g, p, d) ==
  SumFunctionOnSet(
    [c \in Cycles |-> IF SliceUnsettled(g, c, d) THEN DebitOf(g.position[c][d][p]) ELSE 0],
    Cycles)

LockedFrom(g) == [p \in Participants |-> [d \in Denoms |-> OwedUnsettled(g, p, d)]]
HeldFrom(g) == {s \in Slices : g.outcome[s[1]][s[2]].status = "held"}

GenesisStates ==
  [params : ParamSets,
   currentCycle : Cycles,
   cycleCount : Nat,
   cycleStatus : [Cycles -> SliceStatus],
   outcome : [Cycles -> [Denoms -> Outcomes]],
   obligations : Seq(Obligations),
   position : [Cycles -> [Denoms -> [Participants -> Int]]],
   reserve : [Participants -> [Denoms -> Nat]]]

ValidateCycles(g) ==
  /\ g.cycleCount > 0
  /\ \A c \in Cycles :
       /\ c >= g.cycleCount => g.cycleStatus[c] = "none"
       /\ g.cycleStatus[c] = "open" => c = g.currentCycle
       /\ g.cycleStatus[c] = "none" =>
            \A d \in Denoms : /\ g.outcome[c][d] = NoOutcome
                              /\ \A p \in Participants : g.position[c][d][p] = 0
       /\ \A d \in Denoms :
            /\ g.outcome[c][d].net <= g.outcome[c][d].gross
            /\ g.outcome[c][d].status # "held" => g.outcome[c][d].reason = ""
  /\ g.cycleStatus[g.currentCycle] = "open"

ValidateObligations(g) ==
  \A i \in DOMAIN g.obligations :
    LET o == g.obligations[i]
    IN  /\ o.from # o.to
        /\ o.amount > 0
        /\ g.cycleStatus[o.cycle] # "none"

\* The two checks that matter: positions sum to zero in every slice, and every
\* unsettled debit is covered by the reserve behind it.
ValidatePositions(g) ==
  /\ \A c \in Cycles, d \in Denoms :
       SumFunctionOnSet(g.position[c][d], Participants) = 0
  /\ \A p \in Participants, d \in Denoms : OwedUnsettled(g, p, d) <= g.reserve[p][d]

ValidateParams(p) == p.cycleBlocks <= MaxCycleBlocks

Validate(g) ==
  /\ ValidateParams(g.params)
  /\ ValidateCycles(g)
  /\ ValidateObligations(g)
  /\ ValidatePositions(g)

ExportGenesis ==
  [params |-> params, currentCycle |-> currentCycle, cycleCount |-> cycleSeq,
   cycleStatus |-> cycleStatus, outcome |-> outcome, obligations |-> obligations,
   position |-> position, reserve |-> reserve]

\* Everything InitGenesis writes that is not simply copied from the file.
RebuiltFrom(g) ==
  [locked |-> LockedFrom(g),
   held |-> HeldFrom(g),
   heldSince |-> [s \in Slices |-> 0],
   nettedTotal |-> [c \in Cycles |-> [d \in Denoms |-> [p \in Participants |-> 0]]]]

ASSUME FiniteAssumption ==
  /\ IsFiniteSet(Participants) /\ IsFiniteSet(Denoms)
  /\ Denoms \subseteq Nat \ {0}
ASSUME BoundAssumption ==
  /\ MaxCycle \in Nat \ {0} /\ MaxObligations \in Nat
  /\ MaxSlices \in Nat \ {0} /\ MaxCycleBlocks \in Nat
  /\ Amounts \subseteq Nat \ {0} /\ InitialBalance \in Nat
ASSUME ParamAssumption == ParamChoices \subseteq ParamSets /\ Restarts \in BOOLEAN
ASSUME ApplicantsAssumption == Applicants \subseteq Participants

\* A file ExportGenesis can have written: no slice of the open cycle has been
\* settled or held, and no slice of a closed one is still open.
Exported(g) ==
  \A c \in Cycles, d \in Denoms :
    g.outcome[c][d].status \in
      (IF g.cycleStatus[c] = "open" THEN {"none", "open"} ELSE {"none", "settled", "held"})

ASSUME GenesisAssumption == \A g \in Genesis : g \in GenesisStates /\ Exported(g)

\* The end blocker reads the height only modulo cycle_blocks, so counting it
\* modulo a common multiple loses nothing.
ASSUME HeightAssumption ==
  /\ HeightPeriod \in Nat \ {0, 1}
  /\ \A p \in ParamChoices \cup {g.params : g \in Genesis} :
       p.cycleBlocks > 0 => HeightPeriod % p.cycleBlocks = 0

InitFrom(g) ==
  /\ params = g.params
  /\ currentCycle = g.currentCycle /\ cycleSeq = g.cycleCount
  /\ cycleStatus = g.cycleStatus /\ outcome = g.outcome
  /\ obligations = g.obligations
  /\ position = g.position /\ reserve = g.reserve
  /\ locked = RebuiltFrom(g).locked
  /\ held = RebuiltFrom(g).held
  /\ heldSince = RebuiltFrom(g).heldSince
  /\ nettedTotal = RebuiltFrom(g).nettedTotal
  /\ retryCursor = NoSlice /\ escalateCursor = NoSlice
  /\ overdue = {}
  /\ height = 1 /\ phase = "deliver" /\ pending = {} /\ groups = {}
  /\ approved = Participants \ Applicants
  /\ balance = [p \in Participants |-> [d \in Denoms |-> InitialBalance]]
  /\ custody = [d \in Denoms |-> SumFunctionOnSet([p \in Participants |-> g.reserve[p][d]],
                                                  Participants)]

Init == \E g \in Genesis : Validate(g) /\ InitFrom(g)

----------------------------------------------------------------------------
(* Messages *)

\* A message's coins: some positive amount in at least one currency.
Coins == {k \in [Denoms -> Amounts \cup {0}] : \E d \in Denoms : k[d] > 0}

PostReserve(p, coins) ==
  /\ phase = "deliver"
  /\ p \in approved
  /\ \A d \in Denoms : coins[d] <= balance[p][d]
  /\ balance' = [balance EXCEPT ![p] = [d \in Denoms |-> @[d] - coins[d]]]
  /\ custody' = [d \in Denoms |-> custody[d] + coins[d]]
  /\ reserve' = [reserve EXCEPT ![p] = [d \in Denoms |-> @[d] + coins[d]]]
  /\ UNCHANGED <<blockVars, cycleVars, holdVars, position, locked,
                 obligations, nettedTotal, approved>>

WithdrawReserve(p, coins) ==
  /\ phase = "deliver"
  /\ \A d \in Denoms : coins[d] <= Available(p, d)
  /\ \A d \in Denoms : coins[d] <= custody[d]
  /\ reserve' = [reserve EXCEPT ![p] = [d \in Denoms |-> @[d] - coins[d]]]
  /\ custody' = [d \in Denoms |-> custody[d] - coins[d]]
  /\ balance' = [balance EXCEPT ![p] = [d \in Denoms |-> @[d] + coins[d]]]
  /\ UNCHANGED <<blockVars, cycleVars, holdVars, position, locked,
                 obligations, nettedTotal, approved>>

\* The checks every submission passes before its mode is decided.
MayOwe(from, to) ==
  /\ phase = "deliver"
  /\ Len(obligations) < MaxObligations
  /\ from # to
  /\ from \in approved /\ to \in approved

Record(from, to, d, amount, mode) ==
  obligations' = Append(obligations,
    [cycle |-> currentCycle, from |-> from, to |-> to, denom |-> d,
     amount |-> amount, mode |-> mode])

SubmitGross(from, to, d, amount) ==
  /\ MayOwe(from, to)
  /\ ModeOf(currentCycle, d, from, amount) = "gross"
  /\ amount <= balance[from][d]
  /\ balance' = [balance EXCEPT ![from][d] = @ - amount, ![to][d] = @ + amount]
  /\ Record(from, to, d, amount, "gross")
  /\ UNCHANGED <<blockVars, cycleVars, ledgerVars, holdVars, custody,
                 nettedTotal, approved>>

\* Fault: an offsetting credit releases nothing before the close.
LockDelta_NeverReleases(before, after) ==
  IF after < before THEN DebitOf(after) - DebitOf(before) ELSE 0

\* The change adjustLocked applies when a position moves.
LockDelta(before, after) == DebitOf(after) - DebitOf(before)

NetDebitCap(from, d, amount) ==
  LET before == position[currentCycle][d][from]
  IN  locked[from][d] + LockDelta(before, before - amount) <= reserve[from][d]

Moved(row, from, to, amount) == [row EXCEPT ![from] = @ - amount, ![to] = @ + amount]

\* applyToPositions: both positions, and both sides' collateral.
ApplyToPositions(from, to, d, amount) ==
  LET pos == position[currentCycle][d]
      fromDelta == LockDelta(pos[from], pos[from] - amount)
      toDelta == LockDelta(pos[to], pos[to] + amount)
  IN  /\ NetDebitCap(from, d, amount)
      /\ locked[from][d] + fromDelta >= 0
      /\ locked[to][d] + toDelta >= 0
      /\ position' = [position EXCEPT ![currentCycle][d] = Moved(@, from, to, amount)]
      /\ locked' = [locked EXCEPT ![from][d] = @ + fromDelta, ![to][d] = @ + toDelta]

\* recordSubmission: the first obligation in a currency opens its slice.
Submitted(o, amount) ==
  [o EXCEPT !.gross = @ + amount, !.status = IF @ = "none" THEN "open" ELSE @]

SubmitNet(from, to, d, amount) ==
  /\ MayOwe(from, to)
  /\ ModeOf(currentCycle, d, from, amount) = "net"
  /\ ApplyToPositions(from, to, d, amount)
  /\ outcome' = [outcome EXCEPT ![currentCycle][d] = Submitted(@, amount)]
  /\ nettedTotal' = [nettedTotal EXCEPT ![currentCycle][d][from] = @ + amount]
  /\ Record(from, to, d, amount, "net")
  /\ UNCHANGED <<blockVars, currentCycle, cycleSeq, cycleStatus, reserve,
                 holdVars, bankVars, approved>>

UpdateParams(p) ==
  /\ phase = "deliver"
  /\ ValidateParams(p)
  /\ p # params
  /\ params' = p
  /\ UNCHANGED <<height, phase, pending, groups, cycleVars, ledgerVars, holdVars,
                 bankVars, obligations, nettedTotal, approved>>

\* markSliceAbandoned: the status stays as it was.
AbandonedOutcome(o) ==
  IF o.status = "none" THEN o ELSE [o EXCEPT !.net = 0, !.reason = "abandoned"]

\* Governance gives up on a held slice: collateral released, positions removed,
\* obligations and the slice's status left alone.
AbandonHeldSlice(c, d) ==
  /\ phase = "deliver"
  /\ <<c, d>> \in held
  /\ \A p \in Participants : DebitOf(position[c][d][p]) <= locked[p][d]
  /\ locked' = [p \in Participants |->
                  [locked[p] EXCEPT ![d] = @ - DebitOf(position[c][d][p])]]
  /\ position' = [position EXCEPT ![c][d] = [p \in Participants |-> 0]]
  /\ held' = held \ {<<c, d>>}
  /\ heldSince' = [heldSince EXCEPT ![<<c, d>>] = 0]
  /\ outcome' = [outcome EXCEPT ![c][d] = AbandonedOutcome(@)]
  /\ UNCHANGED <<blockVars, currentCycle, cycleSeq, cycleStatus, reserve,
                 retryCursor, escalateCursor, overdue, bankVars,
                 obligations, nettedTotal, approved>>

\* x/paymsg grants a pending application; it has no message that withdraws one.
ApproveParticipant(p) ==
  /\ phase = "deliver"
  /\ p \notin approved
  /\ approved' = approved \cup {p}
  /\ UNCHANGED <<blockVars, cycleVars, ledgerVars, holdVars, bankVars,
                 obligations, nettedTotal>>

----------------------------------------------------------------------------
(* The end blocker *)

Before(s, t) == s[1] < t[1] \/ (s[1] = t[1] /\ s[2] < t[2])
First(S) == CHOOSE s \in S : \A t \in S \ {s} : Before(s, t)

\* A bounded walk of S that resumes after the cursor: what it visits, and
\* where the next one starts.
Ahead(S, cursor) == {s \in S : Before(cursor, s)}
Visited(S, cursor) ==
  {s \in Ahead(S, cursor) :
     Cardinality({t \in Ahead(S, cursor) : Before(t, s)}) < MaxSlices}
Last(S) == CHOOSE s \in S : \A t \in S \ {s} : Before(t, s)
\* Fault: a bounded walk that starts over every time.
AdvanceCursor_AlwaysRestarts(S, cursor) == NoSlice

AdvanceCursor(S, cursor) ==
  IF Cardinality(Visited(S, cursor)) < MaxSlices THEN NoSlice
  ELSE Last(Visited(S, cursor))

NextHeight == (height + 1) % HeightPeriod
AtBoundary == NettingEnabled(params) /\ height % params.cycleBlocks = 0

\* EndBlocker on a block that closes no window: only the height moves.
EndBlockIdle ==
  /\ phase = "deliver"
  /\ ~AtBoundary
  /\ height' = NextHeight
  /\ UNCHANGED <<params, phase, pending, groups, cycleVars, ledgerVars, holdVars,
                 bankVars, obligations, nettedTotal, approved>>

\* retryHeldSlices: collect first, then act.
EndBlockCollect ==
  /\ phase = "deliver"
  /\ cycleSeq <= MaxCycle
  /\ AtBoundary
  /\ phase' = "retry"
  /\ pending' = Visited(held, retryCursor)
  /\ retryCursor' = AdvanceCursor(held, retryCursor)
  /\ UNCHANGED <<params, height, groups, cycleVars, ledgerVars, held, heldSince,
                 escalateCursor, overdue, bankVars, obligations, nettedTotal, approved>>

HasPositions(c, d) == \E p \in Participants : position[c][d][p] # 0

\* Fault: the zero-sum check is dropped.
CanSettle_Unbalanced(c, d) ==
  \A p \in Participants :
    LET owed == DebitOf(position[c][d][p])
    IN  owed > 0 => owed <= reserve[p][d] /\ owed <= locked[p][d]

\* settleGroup's refusals: unbalanced, or a debtor short of reserve or of lock.
CanSettle(c, d) ==
  /\ Debits(position[c][d]) = Credits(position[c][d])
  /\ \A p \in Participants :
       LET owed == DebitOf(position[c][d][p])
       IN  owed > 0 => owed <= reserve[p][d] /\ owed <= locked[p][d]

\* Fault: creditors are credited and debtors keep their reserve.
SettleGroup_CreditsOnly(c, d) ==
  /\ CanSettle(c, d)
  /\ reserve' = [p \in Participants |->
                   [reserve[p] EXCEPT ![d] = @ + CreditOf(position[c][d][p])]]
  /\ locked' = [p \in Participants |->
                  [locked[p] EXCEPT ![d] = @ - DebitOf(position[c][d][p])]]

\* trySettle commits the branch only when every leg succeeded.
SettleGroup(c, d) ==
  /\ CanSettle(c, d)
  /\ reserve' = [p \in Participants |->
                   [reserve[p] EXCEPT ![d] = @ + position[c][d][p]]]
  /\ locked' = [p \in Participants |->
                  [locked[p] EXCEPT ![d] = @ - DebitOf(position[c][d][p])]]

SettledOutcome(o, net) == [o EXCEPT !.status = "settled", !.net = net, !.reason = ""]

MarkRetried(c, d, net) ==
  /\ held' = held \ {<<c, d>>}
  /\ heldSince' = [heldSince EXCEPT ![<<c, d>>] = 0]
  /\ outcome' = [outcome EXCEPT ![c][d] = SettledOutcome(@, net)]
  /\ cycleStatus' = [cycleStatus EXCEPT ![c] =
       IF \E e \in Denoms \ {d} : outcome[c][e].status = "held" THEN "held" ELSE "settled"]

RetryStep(s) ==
  /\ phase = "retry"
  /\ s \in pending /\ s = First(pending)
  /\ pending' = pending \ {s}
  /\ UNCHANGED <<params, height, phase, groups, currentCycle, cycleSeq, position,
                 retryCursor, escalateCursor, overdue, bankVars, obligations,
                 nettedTotal, approved>>

\* A held slice with no positions left has nothing to settle.
RetryEmpty(s) ==
  /\ RetryStep(s)
  /\ ~HasPositions(s[1], s[2])
  /\ MarkRetried(s[1], s[2], 0)
  /\ UNCHANGED <<reserve, locked>>

RetrySettles(s) ==
  /\ RetryStep(s)
  /\ HasPositions(s[1], s[2])
  /\ SettleGroup(s[1], s[2])
  /\ MarkRetried(s[1], s[2], Debits(position[s[1]][s[2]]))

RetryRefused(s) ==
  /\ RetryStep(s)
  /\ HasPositions(s[1], s[2])
  /\ ~CanSettle(s[1], s[2])
  /\ UNCHANGED <<reserve, locked, held, heldSince, outcome, cycleStatus>>

\* Fault: the closing cycle's status is never written.
CloseStart_LeavesOpen ==
  /\ phase = "retry"
  /\ pending = {}
  /\ phase' = "close"
  /\ groups' = {d \in Denoms : HasPositions(currentCycle, d)}
  /\ UNCHANGED <<params, height, pending, cycleVars, ledgerVars,
                 holdVars, bankVars, obligations, nettedTotal, approved>>

\* closeCycle: the positions are collected before anything is settled.
CloseStart ==
  /\ phase = "retry"
  /\ pending = {}
  /\ phase' = "close"
  /\ groups' = {d \in Denoms : HasPositions(currentCycle, d)}
  /\ cycleStatus' = [cycleStatus EXCEPT ![currentCycle] = "settled"]
  /\ UNCHANGED <<params, height, pending, currentCycle, cycleSeq, outcome, ledgerVars,
                 holdVars, bankVars, obligations, nettedTotal, approved>>

CloseStep(d) ==
  /\ phase = "close"
  /\ d \in groups /\ \A e \in groups : d <= e
  /\ groups' = groups \ {d}
  /\ UNCHANGED <<params, height, phase, pending, currentCycle, cycleSeq, position,
                 retryCursor, escalateCursor, overdue, bankVars, obligations,
                 nettedTotal, approved>>

CloseSettles(d) ==
  /\ CloseStep(d)
  /\ SettleGroup(currentCycle, d)
  /\ outcome' = [outcome EXCEPT ![currentCycle][d] =
                   SettledOutcome(@, Debits(position[currentCycle][d]))]
  /\ UNCHANGED <<cycleStatus, held, heldSince>>

HeldOutcome(o) == [o EXCEPT !.status = "held", !.net = 0, !.reason = "refused"]

\* Fault: the slice is recorded as held and never queued.
CloseHolds_NotQueued(d) ==
  /\ CloseStep(d)
  /\ ~CanSettle(currentCycle, d)
  /\ outcome' = [outcome EXCEPT ![currentCycle][d] = HeldOutcome(@)]
  /\ cycleStatus' = [cycleStatus EXCEPT ![currentCycle] = "held"]
  /\ UNCHANGED <<reserve, locked, held, heldSince>>

\* Fault: the branch of a slice that fails half way is written all the same:
\* the debtors that had cover are debited and nobody is credited.
CloseHolds_HalfDone(d) ==
  LET pos == position[currentCycle][d]
      Debited(p) == IF Debits(pos) = Credits(pos) /\ DebitOf(pos[p]) <= reserve[p][d]
                    THEN DebitOf(pos[p]) ELSE 0
  IN  /\ CloseStep(d)
      /\ ~CanSettle(currentCycle, d)
      /\ reserve' = [p \in Participants |-> [reserve[p] EXCEPT ![d] = @ - Debited(p)]]
      /\ locked' = [p \in Participants |-> [locked[p] EXCEPT ![d] = @ - Debited(p)]]
      /\ outcome' = [outcome EXCEPT ![currentCycle][d] = HeldOutcome(@)]
      /\ cycleStatus' = [cycleStatus EXCEPT ![currentCycle] = "held"]
      /\ held' = held \cup {<<currentCycle, d>>}
      /\ heldSince' = [heldSince EXCEPT ![<<currentCycle, d>>] = currentCycle]

\* The slice joins the retry queue; an existing stamp is left alone.
CloseHolds(d) ==
  /\ CloseStep(d)
  /\ ~CanSettle(currentCycle, d)
  /\ outcome' = [outcome EXCEPT ![currentCycle][d] = HeldOutcome(@)]
  /\ cycleStatus' = [cycleStatus EXCEPT ![currentCycle] = "held"]
  /\ held' = held \cup {<<currentCycle, d>>}
  /\ heldSince' = [heldSince EXCEPT ![<<currentCycle, d>>] = IF @ = 0 THEN currentCycle ELSE @]
  /\ UNCHANGED <<reserve, locked>>

Stamped == {s \in Slices : heldSince[s] # 0}
Stale(S) == {s \in S : currentCycle - heldSince[s] >= params.maxHold /\ currentCycle > heldSince[s]}

\* escalateOldHolds: an event per overdue hold and nothing else.
EscalateOldHolds ==
  IF params.maxHold > 0
  THEN /\ overdue' = Stale(Visited(Stamped, escalateCursor))
       /\ escalateCursor' = AdvanceCursor(Stamped, escalateCursor)
  ELSE overdue' = {} /\ UNCHANGED escalateCursor

\* A currency whose positions all cancelled: total compression.
CancelledOutcome(o) ==
  IF o.status = "open" THEN [o EXCEPT !.status = "settled", !.net = 0] ELSE o

\* Fault: a currency whose positions all cancelled is left open.
EndBlockFinish_LeavesCancelled ==
  /\ phase = "close"
  /\ groups = {}
  /\ EscalateOldHolds
  /\ cycleStatus' = [cycleStatus EXCEPT ![cycleSeq] = "open"]
  /\ currentCycle' = cycleSeq
  /\ cycleSeq' = cycleSeq + 1
  /\ height' = NextHeight
  /\ phase' = "deliver"
  /\ UNCHANGED <<params, pending, groups, outcome, ledgerVars, held, heldSince,
                 retryCursor, bankVars, obligations, nettedTotal, approved>>

\* The end of closeCycle, escalateOldHolds, openCycle and the next block.
EndBlockFinish ==
  /\ phase = "close"
  /\ groups = {}
  /\ outcome' = [outcome EXCEPT ![currentCycle] =
       [d \in Denoms |-> CancelledOutcome(@[d])]]
  /\ EscalateOldHolds
  /\ cycleStatus' = [cycleStatus EXCEPT ![cycleSeq] = "open"]
  /\ currentCycle' = cycleSeq
  /\ cycleSeq' = cycleSeq + 1
  /\ height' = NextHeight
  /\ phase' = "deliver"
  /\ UNCHANGED <<params, pending, groups, ledgerVars, held, heldSince, retryCursor,
                 bankVars, obligations, nettedTotal, approved>>

----------------------------------------------------------------------------
(* The chain is exported between blocks and restarted from its own file.    *)
(* In a block that closes no window, what its messages left is what is      *)
(* committed.                                                               *)
ExportAndImport ==
  /\ Restarts
  /\ phase = "deliver" /\ ~AtBoundary
  /\ Validate(ExportGenesis)
  /\ locked' = RebuiltFrom(ExportGenesis).locked
  /\ held' = RebuiltFrom(ExportGenesis).held
  /\ heldSince' = RebuiltFrom(ExportGenesis).heldSince
  /\ nettedTotal' = RebuiltFrom(ExportGenesis).nettedTotal
  /\ retryCursor' = NoSlice /\ escalateCursor' = NoSlice /\ overdue' = {}
  /\ UNCHANGED <<blockVars, cycleVars, position, reserve, bankVars, obligations, approved>>

Messages ==
  \/ \E p \in Participants, coins \in Coins :
       PostReserve(p, coins) \/ WithdrawReserve(p, coins)
  \/ \E from, to \in Participants, d \in Denoms, amount \in Amounts :
       SubmitGross(from, to, d, amount) \/ SubmitNet(from, to, d, amount)
  \/ \E p \in Applicants : ApproveParticipant(p)

Governance ==
  \/ \E p \in ParamChoices : UpdateParams(p)
  \/ \E s \in held : AbandonHeldSlice(s[1], s[2])

EndBlocker ==
  \/ EndBlockIdle \/ EndBlockCollect
  \/ \E s \in pending : RetryEmpty(s) \/ RetrySettles(s) \/ RetryRefused(s)
  \/ CloseStart
  \/ \E d \in groups : CloseSettles(d) \/ CloseHolds(d)
  \/ EndBlockFinish

Next == Messages \/ Governance \/ EndBlocker \/ ExportAndImport

Spec == Init /\ [][Next]_vars

\* Consensus keeps producing blocks; nobody is obliged to send a message.
FairSpec == Spec /\ WF_vars(EndBlocker)

----------------------------------------------------------------------------
(* Properties *)

\* Every variable holds a value of the kind the store keeps: amounts of
\* reserve and of collateral are never negative (setReserve, setLocked), a
\* position may have either sign, and outside the end blocker no half-finished
\* settlement work is left over.
TypeOK ==
  /\ params \in ParamSets
  /\ height \in 0 .. HeightPeriod - 1
  /\ phase \in {"deliver", "retry", "close"}
  /\ pending \subseteq Slices /\ (phase # "retry" => pending = {})
  /\ groups \subseteq Denoms /\ (phase # "close" => groups = {})
  /\ currentCycle \in Cycles /\ cycleSeq \in Nat \ {0}
  /\ cycleStatus \in [Cycles -> SliceStatus]
  /\ outcome \in [Cycles -> [Denoms -> Outcomes]]
  /\ obligations \in Seq(Obligations)
  /\ position \in [Cycles -> [Denoms -> [Participants -> Int]]]
  /\ reserve \in [Participants -> [Denoms -> Nat]]
  /\ locked \in [Participants -> [Denoms -> Nat]]
  /\ held \subseteq Slices
  /\ heldSince \in [Slices -> Nat]
  /\ retryCursor \in Slices \cup {NoSlice}
  /\ escalateCursor \in Slices \cup {NoSlice}
  /\ overdue \subseteq Slices
  /\ nettedTotal \in [Cycles -> [Denoms -> [Participants -> Nat]]]
  /\ approved \subseteq Participants
  /\ balance \in [Participants -> [Denoms -> Nat]]
  /\ custody \in [Denoms -> Nat]

\* The safety argument of keeper.go: what a participant has committed to
\* unsettled windows never exceeds the reserve this module holds for it,
\* whatever withdrawals, offsetting obligations, settlements and restarts
\* come in between.
Collateralised ==
  \A p \in Participants, d \in Denoms : locked[p][d] <= reserve[p][d]

\* The committed figure, kept incrementally by adjustLocked, settleGroup and
\* AbandonHeldSlice, is at every step exactly what the unsettled slices owe,
\* which is what InitGenesis would rebuild.
CommittedIsOwed == locked = LockedFrom(ExportGenesis)

\* Netting neither creates nor destroys value: the positions of every slice,
\* settled or not, sum to zero.
SlicesBalance ==
  \A c \in Cycles, d \in Denoms : SumFunctionOnSet(position[c][d], Participants) = 0

\* Every reserve on the books is in the module account, and nothing else is:
\* settlement rearranges claims and moves no coin.
CustodyBacksReserves ==
  \A d \in Denoms :
    custody[d] = SumFunctionOnSet([p \in Participants |-> reserve[p][d]], Participants)

\* The claim of trySettle and of msg_server_obligation.go: on a chain that
\* started empty, no slice is ever held, in whatever order institutions post,
\* owe, withdraw, are admitted and see the parameters change.
SettlementCannotFail == held = {}

\* What a running chain exports between blocks always passes the validation
\* it will meet when it is imported.
ExportIsImportable ==
  phase = "deliver" =>
    Validate(ExportGenesis) /\ (\A c \in Cycles : c >= cycleSeq => cycleStatus[c] = "none")

\* The retry queue is the record: a slice is queued exactly when its outcome
\* is held and nobody abandoned it, and a cycle with a queued slice is held.
QueueMatchesRecord ==
  /\ held = {s \in HeldFrom(ExportGenesis) : outcome[s[1]][s[2]].reason # "abandoned"}
  /\ \A s \in held : s[1] # currentCycle => cycleStatus[s[1]] = "held"

\* What p has netted as debtor in a cycle, counted from the obligations.
NettedBy(obs, c, d, p) ==
  SumFunctionOnSet(
    [i \in DOMAIN obs |-> IF obs[i].cycle = c /\ obs[i].denom = d
                             /\ obs[i].from = p /\ obs[i].mode = "net"
                          THEN obs[i].amount ELSE 0],
    DOMAIN obs)

\* The aggregate ceiling: from one start of the chain to the next, what a
\* debtor nets in a cycle stays below the ceiling of its currency, however the
\* payment was cut up (wouldExceedAggregate, addNettedTotal).
NettedWithinCeiling ==
  [][\A c \in Cycles, d \in Denoms, p \in Participants :
       LET netted == NettedBy(obligations', c, d, p) - NettedBy(obligations, c, d, p) IN
       /\ nettedTotal'[c][d][p] = nettedTotal[c][d][p] + netted \/ ExportAndImport
       /\ netted # 0 /\ params.policy[d].aggregate > 0
          => nettedTotal'[c][d][p] < params.policy[d].aggregate]_vars

\* The promise: wealth is own balance plus reserve, and what is due is the
\* position of a slice that still has to settle.
Due == [c \in Cycles |-> [d \in Denoms |-> [p \in Participants |->
         IF SliceUnsettled(ExportGenesis, c, d) THEN position[c][d][p] ELSE 0]]]
Wealth == [p \in Participants |-> [d \in Denoms |-> balance[p][d] + reserve[p][d]]]

Promise == INSTANCE SettlementPromise WITH wealth <- Wealth, due <- Due

\* x/netting keeps the promise of SettlementPromise: every step of a message,
\* of the end blocker or of a restart is one of its steps or moves nobody's
\* wealth and nothing that is due.
KeepsPromise == Promise!PromiseSpec

\* A window in which something was netted is settled in the end, under block
\* production alone, as long as governance leaves cycle_blocks alone.  The
\* last cycle of the bounded model has no successor to close it.
WindowsSettle ==
  \A c \in 1 .. MaxCycle - 1, d \in Denoms :
    outcome[c][d].status = "open" ~> outcome[c][d].status = "settled"

\* The round robin of bounds.go: a held slice that can settle is reached and
\* cleared within one sweep of the queue, even behind slices that never will
\* be.  The sweep needs as many windows as there are held slices, and one to
\* wrap; the antecedent asks that the bounded model still has them.
FundedHoldsClear ==
  \A s \in Slices :
    (/\ phase = "deliver" /\ s \in held /\ CanSettle(s[1], s[2])
     /\ currentCycle + Cardinality(held) + 1 <= MaxCycle)
      ~> s \notin held

\* A hold older than the bound is reported at some boundary unless it clears
\* first (escalateOldHolds, "emitted every cycle rather than once").
OverdueReported ==
  \A s \in Slices :
    (/\ phase = "deliver" /\ heldSince[s] # 0
     /\ currentCycle - heldSince[s] >= params.maxHold
     /\ currentCycle + Cardinality(Stamped) + 1 <= MaxCycle)
      ~> (s \in overdue \/ s \notin held)
=============================================================================
