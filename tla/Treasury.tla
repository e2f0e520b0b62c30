------------------------------ MODULE Treasury ------------------------------
(* x/treasury: accounts under shared control, commitments out of them, and   *)
(* escrows beside them, all in one module account.                           *)
(*                                                                           *)
(* The module keeps its own ledger of what each treasury holds and how much  *)
(* of it is locked, by additions and subtractions; what is locked is what    *)
(* live locks still have to pay.  An escrow is a lock too, under the same    *)
(* numbers, but belongs to no treasury: its treasury is zero, which no       *)
(* treasury has.                                                             *)
(*                                                                           *)
(* A message that fails leaves no trace.  A message with several coins does  *)
(* for each what a message with one does, so coins are taken one at a time.  *)
(* Who holds the money outside the module is left out, and so are names,     *)
(* reasons and the indexes that only queries read.                           *)
EXTENDS Integers, FiniteSets, FiniteSetsExt, Functions

CONSTANTS
  Accounts,
  Blocked,        \* accounts the bank pays nothing into
  Governance,     \* the authority over parameters
  Denoms,
  Amounts,
  Officers,       \* accounts a treasury is handed to
  Payees,         \* accounts that are paid or promised something
  Grants,         \* accounts and the roles an admin may give them
  Schedules,      \* schedules an admin may propose for a lock
  Policies,       \* limits an admin may set on spending
  Deals,          \* depositor, beneficiary and moderator of an escrow
  ParamChoices,   \* parameters governance may propose
  GenesisParams,  \* parameters of the genesis file
  Supply,         \* what there is of each currency, in and out of the module
  None,           \* an absent entry
  MaxTreasuries,  \* bound: treasuries created
  MaxLocks,       \* bound: locks and escrows opened
  MaxTime         \* bound: seconds

Treasuries == 1 .. MaxTreasuries
LockIds == 1 .. MaxLocks

ValidateParams(p) == p.maxLocks > 0 /\ p.maxRoles > 0 /\ p.minSeconds > 0 /\ p.maxAddresses > 0

ParamSets == [maxLocks : Nat, maxRoles : Nat, minSeconds : Nat, maxAddresses : Nat,
              routeFees : BOOLEAN, feeTreasury : Nat]
Limits == Nat \cup {None}
PolicySets == [perTx : Limits, limit : Limits, period : Nat,
               allow : SUBSET Accounts, deny : SUBSET Accounts]
ScheduleSets == [kind : {"time", "vesting"}, start : Nat, cliff : Nat, end : Nat,
                 intervals : Nat, revocable : BOOLEAN]
\* A lock of a treasury, or an escrow, which has none.
Locks == [kind : {"time", "vesting", "conditional"}, treasury : 0 .. MaxTreasuries,
          beneficiary : Accounts, denom : Denoms, amount : Nat, released : Nat,
          start : Nat, cliff : Nat, end : Nat, intervals : Nat,
          revocable : BOOLEAN, active : BOOLEAN, depositor : Accounts \cup {None},
          moderator : Accounts \cup {None}, disputed : BOOLEAN]

\* What has been spent since when.
Windows == [spent : Nat, start : Nat]

ASSUME NoneAssumption == None \notin Locks /\ None \notin Windows

ASSUME TreasuryAssumption ==
  /\ IsFiniteSet(Accounts) /\ Blocked \subseteq Accounts /\ Governance \in Accounts
  /\ Officers \subseteq Accounts /\ Payees \subseteq Accounts
  /\ Amounts \subseteq Nat \ {0}
  /\ Grants \subseteq Accounts \X {"admin", "spender", "pauser"}
  /\ Schedules \subseteq ScheduleSets /\ Policies \subseteq PolicySets
  /\ Deals \subseteq Accounts \X Accounts \X Accounts
  /\ ParamChoices \subseteq ParamSets
  /\ GenesisParams \in ParamSets /\ ValidateParams(GenesisParams)
  /\ Supply \in [Denoms -> Nat]
  /\ MaxTreasuries \in Nat /\ MaxLocks \in Nat /\ MaxTime \in Nat \ {0}

VARIABLES
  params,
  treasuries,   \* by number: who is admin, whether it is paused
  treasurySeq,  \* the next number
  roles,        \* by treasury and account
  total,        \* what a treasury holds
  locked,       \* how much of that is committed
  policy,       \* by treasury and currency
  window,       \* what was spent since when, by treasury and currency
  locks,        \* by number, escrows among them
  lockSeq,      \* the next number
  activeLocks,  \* live locks of each treasury
  now,          \* block time
  custody,      \* the module account
  collected,    \* the fee collector
  outside,      \* everybody else
  spends        \* history: what the policy in force has let through, by second

controlVars == <<params, treasuries, treasurySeq, roles>>
ledgerVars == <<total, locked>>
policyVars == <<policy, window, spends>>
lockVars == <<locks, lockSeq, activeLocks>>
bankVars == <<custody, collected, outside>>
vars == <<controlVars, ledgerVars, policyVars, lockVars, bankVars, now>>

ByDenom(x) == [t \in Treasuries |-> [d \in Denoms |-> x]]

Init ==
  /\ params = GenesisParams
  /\ treasuries = [t \in Treasuries |-> None] /\ treasurySeq = 1
  /\ roles = [t \in Treasuries |-> [a \in Accounts |-> None]]
  /\ total = ByDenom(0) /\ locked = ByDenom(0)
  /\ policy = ByDenom(None) /\ window = ByDenom(None)
  /\ spends = ByDenom([s \in 1 .. MaxTime |-> 0])
  /\ locks = [i \in LockIds |-> None] /\ lockSeq = 1
  /\ activeLocks = [t \in 0 .. MaxTreasuries |-> 0]
  /\ now = 1
  /\ custody = [d \in Denoms |-> 0] /\ collected = [d \in Denoms |-> 0] /\ outside = Supply
----------------------------------------------------------------------------
(* Who may do what. *)

Exists(t) == t \in Treasuries /\ treasuries[t] # None

\* The admin needs no grant to be one.
roleOf(t, a) == IF a = treasuries[t].admin THEN "admin" ELSE roles[t][a]

MayAdminister(t, a) == Exists(t) /\ roleOf(t, a) = "admin"
Moving(t) == Exists(t) /\ ~treasuries[t].paused

\* The bank moves coins out of the module account, to anybody it may pay.
Pay(a, d, amount) ==
  /\ a \notin Blocked /\ amount <= custody[d]
  /\ custody' = [custody EXCEPT ![d] = @ - amount]
  /\ outside' = [outside EXCEPT ![d] = @ + amount]
  /\ UNCHANGED collected

TakeIn(d, amount) ==
  /\ amount <= outside[d]
  /\ custody' = [custody EXCEPT ![d] = @ + amount]
  /\ outside' = [outside EXCEPT ![d] = @ - amount]
  /\ UNCHANGED collected
----------------------------------------------------------------------------
(* Control of a treasury. *)

CreateTreasury(admin) ==
  /\ treasurySeq <= MaxTreasuries
  /\ treasuries' = [treasuries EXCEPT ![treasurySeq] = [admin |-> admin, paused |-> FALSE]]
  /\ treasurySeq' = treasurySeq + 1
  /\ UNCHANGED <<params, roles, ledgerVars, policyVars, lockVars, bankVars, now>>

SetAdmin(by, t, admin) ==
  /\ MayAdminister(t, by)
  /\ treasuries' = [treasuries EXCEPT ![t].admin = admin]
  /\ UNCHANGED <<params, treasurySeq, roles, ledgerVars, policyVars, lockVars, bankVars, now>>

SetPaused(by, t, paused) ==
  /\ Exists(t) /\ roleOf(t, by) \in {"admin", "pauser"}
  /\ treasuries' = [treasuries EXCEPT ![t].paused = paused]
  /\ UNCHANGED <<params, treasurySeq, roles, ledgerVars, policyVars, lockVars, bankVars, now>>

AssignRole(by, t, a, role) ==
  /\ MayAdminister(t, by)
  /\ roles[t][a] # None \/ Cardinality({b \in Accounts : roles[t][b] # None}) < params.maxRoles
  /\ roles' = [roles EXCEPT ![t][a] = role]
  /\ UNCHANGED <<params, treasuries, treasurySeq, ledgerVars, policyVars, lockVars, bankVars, now>>

RevokeRole(by, t, a) ==
  /\ MayAdminister(t, by) /\ roles[t][a] # None
  /\ roles' = [roles EXCEPT ![t][a] = None]
  /\ UNCHANGED <<params, treasuries, treasurySeq, ledgerVars, policyVars, lockVars, bankVars, now>>

UpdateParams(by, p) ==
  /\ by = Governance /\ ValidateParams(p)
  /\ params' = p
  /\ UNCHANGED <<treasuries, treasurySeq, roles, ledgerVars, policyVars, lockVars, bankVars, now>>
----------------------------------------------------------------------------
(* Money in and out. *)

Available(t, d) == total[t][d] - locked[t][d]

Deposit(t, d, amount) ==
  /\ Moving(t)
  /\ TakeIn(d, amount)
  /\ total' = [total EXCEPT ![t][d] = @ + amount]
  /\ UNCHANGED <<controlVars, locked, policyVars, lockVars, now>>

SetSpendPolicy(by, t, d, p) ==
  /\ MayAdminister(t, by)
  /\ p.limit # None => p.period > 0
  /\ Cardinality(p.allow) + Cardinality(p.deny) <= params.maxAddresses
  /\ policy' = [policy EXCEPT ![t][d] = p]
  /\ spends' = [spends EXCEPT ![t][d] = [s \in 1 .. MaxTime |-> 0]]
  /\ UNCHANGED <<controlVars, ledgerVars, window, lockVars, bankVars, now>>

\* A window is over once its period has passed; the next one opens when
\* something is spent.
spendWindowAt(t, d) ==
  LET w == window[t][d] IN
  IF w = None \/ (policy[t][d].period > 0 /\ now - w.start >= policy[t][d].period)
  THEN [spent |-> 0, start |-> now] ELSE w

Permitted(t, d, recipient) ==
  LET p == policy[t][d] IN
  /\ recipient \notin Blocked
  /\ p # None => /\ p.allow = {} \/ recipient \in p.allow
                 /\ recipient \notin p.deny

\* Fault: what this window has paid already is not counted.
WithinLimits_Apart(t, d, amount) ==
  LET p == policy[t][d] IN
  p # None => /\ p.perTx # None => amount <= p.perTx
              /\ p.limit # None => amount <= p.limit

WithinLimits(t, d, amount) ==
  LET p == policy[t][d] IN
  p # None => /\ p.perTx # None => amount <= p.perTx
              /\ p.limit # None => spendWindowAt(t, d).spent + amount <= p.limit

HasLimit(t, d) == policy[t][d] # None /\ policy[t][d].limit # None

SpendIsAllowed(t, d, recipient, amount) ==
  /\ Permitted(t, d, recipient) /\ WithinLimits(t, d, amount) /\ amount <= Available(t, d)

Spend(by, t, recipient, d, amount) ==
  /\ Moving(t) /\ roleOf(t, by) \in {"admin", "spender"}
  /\ SpendIsAllowed(t, d, recipient, amount)
  /\ IF HasLimit(t, d)
     THEN /\ window' = [window EXCEPT ![t][d] =
                          [spendWindowAt(t, d) EXCEPT !.spent = @ + amount]]
          /\ spends' = [spends EXCEPT ![t][d][now] = @ + amount]
     ELSE UNCHANGED <<window, spends>>
  /\ total' = [total EXCEPT ![t][d] = @ - amount]
  /\ Pay(recipient, d, amount)
  /\ UNCHANGED <<controlVars, locked, policy, lockVars, now>>

Least(a, b) == IF a < b THEN a ELSE b

\* Fault: what is left of the period is not taken into account.
MaxSingleSpend_Single(t, d) ==
  LET p == policy[t][d] IN
  IF p = None \/ p.perTx = None THEN Available(t, d) ELSE Least(p.perTx, Available(t, d))

\* What a query says can be spent at once: the tightest of three limits.
MaxSingleSpend(t, d) ==
  LET p == policy[t][d]
      one == IF p = None \/ p.perTx = None THEN Available(t, d) ELSE Least(p.perTx, Available(t, d))
  IN IF p = None \/ p.limit = None THEN one
     ELSE LET left == p.limit - spendWindowAt(t, d).spent IN
          Least(one, IF left < 0 THEN 0 ELSE left)
----------------------------------------------------------------------------
(* Commitments out of a treasury. *)

ValidateSchedule(s) ==
  /\ s.start > 0 /\ s.start < s.end /\ s.start <= s.cliff /\ s.cliff <= s.end
  /\ s.end - s.start >= params.minSeconds
  /\ s.intervals <= s.end - s.start

\* By whole intervals if there are any, else by the second; rounded down.
Accrued(l) ==
  LET elapsed == now - l.start
      duration == l.end - l.start
  IN IF l.intervals > 1
     THEN (l.amount * ((elapsed * l.intervals) \div duration)) \div l.intervals
     ELSE (l.amount * elapsed) \div duration

\* The whole at the end, and before the cliff nothing.
VestedAmount(l) ==
  IF now >= l.end THEN l.amount
  ELSE IF now >= l.cliff /\ l.kind = "vesting" THEN Accrued(l) ELSE 0

Claimable(l) == IF VestedAmount(l) > l.released THEN VestedAmount(l) - l.released ELSE 0
Remaining(l) == l.amount - l.released
Live(i) == locks[i] # None /\ locks[i].active

CreateLock(by, t, beneficiary, d, amount, s) ==
  /\ beneficiary \notin Blocked
  /\ Moving(t) /\ MayAdminister(t, by)
  /\ ValidateSchedule(s)
  /\ activeLocks[t] < params.maxLocks
  /\ amount <= Available(t, d)
  /\ lockSeq <= MaxLocks
  /\ locked' = [locked EXCEPT ![t][d] = @ + amount]
  /\ locks' = [locks EXCEPT ![lockSeq] =
       [kind |-> s.kind, treasury |-> t, beneficiary |-> beneficiary, denom |-> d,
        amount |-> amount, released |-> 0, start |-> s.start, cliff |-> s.cliff, end |-> s.end,
        intervals |-> s.intervals, revocable |-> s.revocable, active |-> TRUE,
        depositor |-> None, moderator |-> None, disputed |-> FALSE]]
  /\ lockSeq' = lockSeq + 1
  /\ activeLocks' = [activeLocks EXCEPT ![t] = @ + 1]
  /\ UNCHANGED <<controlVars, total, policyVars, bankVars, now>>

releaseActiveLock(t) == [activeLocks EXCEPT ![t] = IF @ = 0 THEN 0 ELSE @ - 1]

\* Fault: what a beneficiary is paid is no longer locked, but still held.
releaseToBeneficiary_Kept(t, d, amount) ==
  /\ amount <= locked[t][d] /\ amount <= total[t][d]
  /\ locked' = [locked EXCEPT ![t][d] = @ - amount]
  /\ UNCHANGED total

releaseToBeneficiary(t, d, amount) ==
  /\ amount <= locked[t][d] /\ amount <= total[t][d]
  /\ locked' = [locked EXCEPT ![t][d] = @ - amount]
  /\ total' = [total EXCEPT ![t][d] = @ - amount]

ClaimLock(by, i) ==
  LET l == locks[i]
      paid == Claimable(l)
      closes == l.released + paid = l.amount
  IN
  /\ Live(i) /\ by = l.beneficiary
  /\ Moving(l.treasury)
  /\ paid > 0
  /\ releaseToBeneficiary(l.treasury, l.denom, paid)
  /\ Pay(by, l.denom, paid)
  /\ locks' = [locks EXCEPT ![i].released = @ + paid, ![i].active = ~closes]
  /\ activeLocks' = IF closes THEN releaseActiveLock(l.treasury) ELSE activeLocks
  /\ UNCHANGED <<controlVars, policyVars, lockSeq, now>>

\* Fault: what has vested and was not claimed yet goes back too.
Vested_Returned(l) == 0

\* What a beneficiary keeps of a lock that is revoked.
Vested(l) == Claimable(l)

\* The beneficiary is paid what has vested, the rest can be spent again.
RevokeLock(by, i) ==
  LET l == locks[i]
      t == l.treasury
      d == l.denom
      paid == Vested(l)
  IN
  /\ Live(i) /\ l.revocable
  /\ Moving(t) /\ MayAdminister(t, by)
  /\ Remaining(l) <= locked[t][d] /\ paid <= total[t][d]
  /\ locked' = [locked EXCEPT ![t][d] = @ - Remaining(l)]
  /\ total' = [total EXCEPT ![t][d] = @ - paid]
  /\ IF paid > 0 THEN Pay(l.beneficiary, d, paid) ELSE UNCHANGED bankVars
  /\ locks' = [locks EXCEPT ![i].released = @ + paid, ![i].active = FALSE]
  /\ activeLocks' = releaseActiveLock(t)
  /\ UNCHANGED <<controlVars, policyVars, lockSeq, now>>
----------------------------------------------------------------------------
(* Escrows. *)

OpenEscrow(depositor, beneficiary, moderator, d, amount) ==
  /\ beneficiary # depositor /\ moderator \notin {depositor, beneficiary}
  /\ lockSeq <= MaxLocks
  /\ TakeIn(d, amount)
  /\ locks' = [locks EXCEPT ![lockSeq] =
       [kind |-> "conditional", treasury |-> 0, beneficiary |-> beneficiary, denom |-> d,
        amount |-> amount, released |-> 0, start |-> 0, cliff |-> 0, end |-> 0,
        intervals |-> 0, revocable |-> FALSE, active |-> TRUE,
        depositor |-> depositor, moderator |-> moderator, disputed |-> FALSE]]
  /\ lockSeq' = lockSeq + 1
  /\ UNCHANGED <<controlVars, ledgerVars, policyVars, activeLocks, now>>

conditional(i) == Live(i) /\ locks[i].kind = "conditional"

\* The whole amount goes to one of the parties.
settle(i, recipient) ==
  /\ Pay(recipient, locks[i].denom, locks[i].amount)
  /\ locks' = [locks EXCEPT ![i].released = locks[i].amount, ![i].active = FALSE,
                            ![i].disputed = FALSE]
  /\ UNCHANGED <<controlVars, ledgerVars, policyVars, lockSeq, activeLocks, now>>

ReleaseEscrow(by, i) ==
  /\ conditional(i) /\ by = locks[i].depositor /\ ~locks[i].disputed
  /\ settle(i, locks[i].beneficiary)

DisputeEscrow(by, i) ==
  /\ conditional(i) /\ by \in {locks[i].depositor, locks[i].beneficiary}
  /\ ~locks[i].disputed
  /\ locks' = [locks EXCEPT ![i].disputed = TRUE]
  /\ UNCHANGED <<controlVars, ledgerVars, policyVars, lockSeq, activeLocks, bankVars, now>>

ResolveEscrow(by, i, payBeneficiary) ==
  /\ conditional(i) /\ by \in {locks[i].moderator, Governance} /\ locks[i].disputed
  /\ settle(i, IF payBeneficiary THEN locks[i].beneficiary ELSE locks[i].depositor)
----------------------------------------------------------------------------
(* Blocks, fees and restarts. *)

PayFee(d, amount) ==
  /\ amount <= outside[d]
  /\ outside' = [outside EXCEPT ![d] = @ - amount]
  /\ collected' = [collected EXCEPT ![d] = @ + amount]
  /\ UNCHANGED <<controlVars, ledgerVars, policyVars, lockVars, custody, now>>

\* Fault: the fees reach the module account and no treasury.
SweepIntoOperatingTreasury_Uncredited ==
  /\ custody' = [d \in Denoms |-> custody[d] + collected[d]]
  /\ UNCHANGED <<total, outside>>

\* Before anything else in a block the fees of the last one go to the treasury
\* the parameters name, paused or not; without one they are distributed.
SweepIntoOperatingTreasury ==
  LET t == params.feeTreasury IN
  IF params.routeFees /\ Exists(t)
  THEN /\ custody' = [d \in Denoms |-> custody[d] + collected[d]]
       /\ total' = [total EXCEPT ![t] = [d \in Denoms |-> @[d] + collected[d]]]
       /\ UNCHANGED outside
  ELSE /\ outside' = [d \in Denoms |-> outside[d] + collected[d]]
       /\ UNCHANGED <<custody, total>>

\* Two blocks may fall into one second.
NextBlock ==
  /\ now' \in {now, now + 1} /\ now' <= MaxTime
  /\ SweepIntoOperatingTreasury
  /\ collected' = [d \in Denoms |-> 0]
  /\ UNCHANGED <<controlVars, locked, policyVars, lockVars>>

\* The chain stops and is started from its export.  Live locks are counted
\* again, the escrows among them under treasury zero.
ExportAndImport ==
  /\ activeLocks' = [t \in 0 .. MaxTreasuries |->
                       Cardinality({i \in LockIds : Live(i) /\ locks[i].treasury = t})]
  /\ UNCHANGED <<controlVars, ledgerVars, policyVars, locks, lockSeq, bankVars, now>>

Next ==
  \/ \E a \in Officers : CreateTreasury(a)
  \/ \E by \in Accounts, t \in Treasuries :
       \/ \E a \in Officers : SetAdmin(by, t, a)
       \/ \E a \in Accounts : RevokeRole(by, t, a)
       \/ \E paused \in BOOLEAN : SetPaused(by, t, paused)
       \/ \E g \in Grants : AssignRole(by, t, g[1], g[2])
       \/ \E d \in Denoms, p \in Policies : SetSpendPolicy(by, t, d, p)
       \/ \E a \in Payees, d \in Denoms, amount \in Amounts :
            \/ Spend(by, t, a, d, amount)
            \/ \E s \in Schedules : CreateLock(by, t, a, d, amount, s)
  \/ \E by \in Accounts, p \in ParamChoices : UpdateParams(by, p)
  \/ \E d \in Denoms, amount \in Amounts :
       \/ PayFee(d, amount)
       \/ \E t \in Treasuries : Deposit(t, d, amount)
       \/ \E deal \in Deals : OpenEscrow(deal[1], deal[2], deal[3], d, amount)
  \/ \E by \in Accounts, i \in LockIds :
       \/ ClaimLock(by, i) \/ RevokeLock(by, i)
       \/ ReleaseEscrow(by, i) \/ DisputeEscrow(by, i)
       \/ \E payBeneficiary \in BOOLEAN : ResolveEscrow(by, i, payBeneficiary)
  \/ NextBlock \/ ExportAndImport

Spec == Init /\ [][Next]_vars
----------------------------------------------------------------------------
(* What is promised *)

CommittedBy(t, d) ==
  [i \in LockIds |-> IF Live(i) /\ locks[i].treasury = t /\ locks[i].denom = d
                     THEN Remaining(locks[i]) ELSE 0]
HeldBy(d) == [t \in Treasuries |-> total[t][d]]

\* "a treasury can never have committed more than it holds"
LockedIsHeld == \A t \in Treasuries, d \in Denoms : locked[t][d] <= total[t][d]

\* "the locked figure equals what the live locks commit"
LockedIsCommitted ==
  \A t \in Treasuries, d \in Denoms :
    locked[t][d] = SumFunctionOnSet(CommittedBy(t, d), LockIds)

\* What the module account holds is what the treasuries hold and what open
\* escrows are for.
CustodyIsOwned ==
  \A d \in Denoms :
    custody[d] = SumFunctionOnSet(HeldBy(d), Treasuries)
                   + SumFunctionOnSet(CommittedBy(0, d), LockIds)

\* The cap on live locks counts the live locks of each treasury.
LocksAreCounted ==
  \A t \in Treasuries :
    activeLocks[t] = Cardinality({i \in LockIds : Live(i) /\ locks[i].treasury = t})

\* The ledger agrees with itself, with the locks and with the bank, whatever
\* order deposits, spends, locks, claims, revocations, escrows, fees and
\* restarts come in: nobody's claim fails for want of money, and no money is
\* left that nobody can reach (ledger.go, assertLedgerInvariants of its tests).
LedgerAgrees == LockedIsHeld /\ LockedIsCommitted /\ CustodyIsOwned /\ LocksAreCounted

\* A limit per period bounds every stretch of a period to twice the limit: a
\* window opens at the first payment, so the end of one and the start of the
\* next fit into one stretch, and no more than two windows do.
RateIsLimited ==
  \A t \in Treasuries, d \in Denoms :
    HasLimit(t, d) =>
      \A s \in 1 .. MaxTime :
        SumFunctionOnSet(spends[t][d], {u \in 1 .. MaxTime : s <= u /\ u < s + policy[t][d].period})
          <= 2 * policy[t][d].limit

\* "a client can never be shown an allowance the chain would then refuse", nor
\* a smaller one than it would accept: the query works the limits out again.
CapacityIsHonoured ==
  \A t \in Treasuries, d \in Denoms : \A amount \in 1 .. Supply[d] :
    WithinLimits(t, d, amount) /\ amount <= Available(t, d) <=> amount <= MaxSingleSpend(t, d)

\* However spends are spaced, and whenever the policy, the commitments or the
\* balance change between them, the limit bounds what leaves, and what is said
\* to be left of it is what is left (enforceSpendPolicy, SpendCapacityAt).
SpendingIsLimited == RateIsLimited /\ CapacityIsHonoured

(* What TreasuryPromise sees of all this. *)
Free == [t \in Treasuries |-> [d \in Denoms |-> Available(t, d)]]
Pledged == [i \in LockIds |-> IF Live(i) THEN Remaining(locks[i]) ELSE 0]
PaidOut == [i \in LockIds |-> IF locks[i] = None THEN 0 ELSE locks[i].released]
Earned == [i \in LockIds |-> IF locks[i] = None THEN 0 ELSE VestedAmount(locks[i])]
Firm == [i \in LockIds |-> locks[i] = None \/ ~locks[i].revocable]

Promise == INSTANCE TreasuryPromise WITH
  Promises <- LockIds, free <- Free, pledged <- Pledged, paid <- PaidOut, earned <- Earned,
  firm <- Firm

\* Beneath roles, schedules and cases the module keeps a simple promise
\* (TreasuryPromise): what is set aside is paid out under its own promise, never
\* before it vested, and goes back to the treasury only if it was revocable and
\* only what had not vested by then (ClaimLock, RevokeLock, settle).
KeepsPromises == Promise!PromiseSpec
=============================================================================
