--------------------------- MODULE TreasuryProofs ---------------------------
(***************************************************************************)
(* The ledger of x/treasury agrees with its locks and with the bank, for   *)
(* any number of accounts, currencies, treasuries, locks and escrows; it   *)
(* keeps TreasuryPromise; and a limit per period bounds every stretch of   *)
(* one to twice the limit.                                                 *)
(***************************************************************************)
EXTENDS Treasury, SumTheorems

TypeInv ==
  /\ total \in [Treasuries -> [Denoms -> Nat]] /\ locked \in [Treasuries -> [Denoms -> Nat]]
  /\ custody \in [Denoms -> Nat] /\ collected \in [Denoms -> Nat] /\ outside \in [Denoms -> Nat]
  /\ locks \in [LockIds -> Locks \cup {None}]
  /\ lockSeq \in Nat \ {0}
  /\ \A i \in LockIds : i >= lockSeq => locks[i] = None
  /\ activeLocks \in [0 .. MaxTreasuries -> Nat]
  /\ now \in 1 .. MaxTime

\* A lock never pays out more than it is for.  An escrow belongs to nobody and
\* pays at once; every other lock belongs to a treasury and lasts a while.
WellFormed(l) ==
  /\ l.released <= l.amount
  /\ l.kind = "conditional" => l.treasury = 0 /\ (l.active => l.released = 0)
  /\ l.kind # "conditional" => l.treasury \in Treasuries /\ l.start < l.end /\ l.start <= l.cliff

LocksInv == \A i \in LockIds : locks[i] # None => WellFormed(locks[i])

IInv == TypeInv /\ LocksInv /\ LedgerAgrees
----------------------------------------------------------------------------
(* Arithmetic. *)

\* A quotient of natural numbers is one, and at most what the divisor fits in.
LEMMA DivBound ==
  ASSUME NEW a \in Nat, NEW b \in Nat \ {0}, NEW c \in Nat, a <= c * b
  PROVE  a \div b \in 0 .. c
<1> DEFINE q == a \div b
<1>1. q \in Nat /\ b * q <= a
  BY SMT
<1> HIDE DEF q
<1>2. ASSUME q >= c + 1 PROVE FALSE
  <2>1. b * q >= b * (c + 1)
    BY <1>1, <1>2, SMT
  <2>2. b * (c + 1) = c * b + b
    BY SMT
  <2> QED BY <1>1, <2>1, <2>2, SMT
<1>3. q <= c
  BY <1>1, <1>2
<1> QED BY <1>1, <1>3 DEF q

\* A product grows with a factor.
LEMMA ProductBound ==
  ASSUME NEW a \in Nat, NEW b \in Nat, NEW c \in Nat, b <= c
  PROVE  a * b \in Nat /\ a * b <= a * c
BY SMT

\* What has accrued before the end is between nothing and the whole (VestedAmount).
LEMMA AccruedBounds ==
  ASSUME NEW l \in Locks, now \in Nat, l.start < l.end, l.start <= now, now < l.end
  PROVE  Accrued(l) \in 0 .. l.amount
<1> DEFINE elapsed == now - l.start
           duration == l.end - l.start
           done == (elapsed * l.intervals) \div duration
<1>1. /\ l.amount \in Nat /\ l.intervals \in Nat
      /\ elapsed \in Nat /\ duration \in Nat \ {0} /\ elapsed <= duration
  BY DEF Locks
<1>2. Accrued(l) = IF l.intervals > 1 THEN (l.amount * done) \div l.intervals
                                      ELSE (l.amount * elapsed) \div duration
  BY DEF Accrued
<1> HIDE DEF elapsed, duration
<1>3. CASE l.intervals > 1
  <2>1. elapsed * l.intervals \in Nat /\ elapsed * l.intervals <= l.intervals * duration
    BY <1>1, ProductBound, SMT
  <2>2. done \in 0 .. l.intervals
    BY <1>1, <2>1, DivBound
  <2> HIDE DEF done
  <2>3. l.amount * done \in Nat /\ l.amount * done <= l.amount * l.intervals
    BY <1>1, <2>2, ProductBound
  <2>4. (l.amount * done) \div l.intervals \in 0 .. l.amount
    BY <1>1, <1>3, <2>3, DivBound
  <2> QED BY <1>2, <1>3, <2>4
<1>4. CASE ~(l.intervals > 1)
  <2>1. l.amount * elapsed \in Nat /\ l.amount * elapsed <= l.amount * duration
    BY <1>1, ProductBound
  <2>2. (l.amount * elapsed) \div duration \in 0 .. l.amount
    BY <1>1, <2>1, DivBound
  <2> QED BY <1>2, <1>4, <2>2
<1> QED BY <1>3, <1>4

\* What has vested is between nothing and the whole (VestedAmount).
LEMMA VestedBounds ==
  ASSUME NEW l \in Locks, WellFormed(l), now \in Nat
  PROVE  VestedAmount(l) \in 0 .. l.amount
<1>1. l.amount \in Nat /\ l.start \in Nat /\ l.end \in Nat /\ l.cliff \in Nat
  BY DEF Locks
<1>2. CASE now < l.end /\ now >= l.cliff /\ l.kind = "vesting"
  <2>1. l.start <= l.cliff /\ l.start < l.end
    BY <1>2 DEF WellFormed
  <2>2. l.start <= now
    BY <1>1, <1>2, <2>1
  <2>3. Accrued(l) \in 0 .. l.amount
    BY <1>2, <2>1, <2>2, AccruedBounds
  <2> QED BY <1>1, <1>2, <2>3 DEF VestedAmount
<1>3. CASE ~(now < l.end /\ now >= l.cliff /\ l.kind = "vesting")
  BY <1>1, <1>3 DEF VestedAmount
<1> QED BY <1>2, <1>3

\* What can be claimed is at most what is still owed (ClaimableAmount).
LEMMA ClaimBounds ==
  ASSUME NEW l \in Locks, WellFormed(l), now \in Nat
  PROVE  Claimable(l) \in 0 .. Remaining(l)
<1>1. VestedAmount(l) \in Nat /\ VestedAmount(l) <= l.amount /\ l.amount \in Nat
  BY VestedBounds DEF Locks
<1>2. l.released \in Nat /\ l.released <= l.amount
  BY DEF Locks, WellFormed
<1> QED BY <1>1, <1>2 DEF Claimable, Remaining
----------------------------------------------------------------------------
(* Sums and counts over one changed entry. *)

\* There are finitely many treasuries and locks.
LEMMA FiniteIds == IsFiniteSet(LockIds) /\ IsFiniteSet(Treasuries)
BY TreasuryAssumption, FS_Interval DEF LockIds, Treasuries

\* What is held, locked and moved are numbers.
LEMMA NumbersHeld ==
  ASSUME IInv
  PROVE  /\ total \in [Treasuries -> [Denoms -> Nat]] /\ locked \in [Treasuries -> [Denoms -> Nat]]
         /\ custody \in [Denoms -> Nat] /\ outside \in [Denoms -> Nat]
         /\ activeLocks \in [0 .. MaxTreasuries -> Nat]
BY DEF IInv, TypeInv

\* What is changed in one place is changed there by as much, and nowhere else.
LEMMA TableUpdate ==
  ASSUME NEW D, NEW f \in [D -> Nat], NEW g, NEW d \in D, NEW x \in Nat, g = [f EXCEPT ![d] = x]
  PROVE  g \in [D -> Nat] /\ \A e \in D : g[e] = IF e = d THEN x ELSE f[e]
OBVIOUS

\* The same of a table of tables.
LEMMA LedgerUpdate ==
  ASSUME NEW T, NEW D, NEW f \in [T -> [D -> Nat]], NEW g, NEW t \in T, NEW d \in D,
         NEW x \in Nat, g = [f EXCEPT ![t][d] = x]
  PROVE  /\ g \in [T -> [D -> Nat]]
         /\ \A u \in T, e \in D : g[u][e] = IF u = t /\ e = d THEN x ELSE f[u][e]
OBVIOUS

\* What a lock commits is a number, and so are the sums (CommittedBy, HeldBy).
LEMMA SumsOfNumbers ==
  ASSUME TypeInv, LocksInv, NEW t \in 0 .. MaxTreasuries, NEW d \in Denoms
  PROVE  /\ IsFiniteSet(LockIds) /\ IsFiniteSet(Treasuries)
         /\ \A i \in LockIds : CommittedBy(t, d)[i] \in Nat
         /\ \A u \in Treasuries : HeldBy(d)[u] \in Nat
         /\ SumFunctionOnSet(CommittedBy(t, d), LockIds) \in Nat
         /\ SumFunctionOnSet(HeldBy(d), Treasuries) \in Nat
<1>1. IsFiniteSet(LockIds) /\ IsFiniteSet(Treasuries)
  BY FiniteIds
<1>2. ASSUME NEW i \in LockIds PROVE CommittedBy(t, d)[i] \in Nat
  <2>1. ASSUME locks[i] # None PROVE Remaining(locks[i]) \in Nat
    <3>1. locks[i] \in Locks /\ WellFormed(locks[i])
      BY <2>1 DEF TypeInv, LocksInv
    <3> QED BY <3>1 DEF Locks, WellFormed, Remaining
  <2> QED BY <2>1 DEF CommittedBy, Live
<1>3. \A u \in Treasuries : HeldBy(d)[u] \in Nat
  BY DEF HeldBy, TypeInv
<1>4. SumFunctionOnSet(CommittedBy(t, d), LockIds) \in Nat
  BY <1>1, <1>2, SumNat
<1>5. SumFunctionOnSet(HeldBy(d), Treasuries) \in Nat
  BY <1>1, <1>3, SumNat
<1> QED BY <1>1, <1>2, <1>3, <1>4, <1>5

\* Nothing but lock i changes what is committed.
OnlyLock(i) == \A j \in LockIds : j # i => locks'[j] = locks[j]

\* One lock changes: the sum changes by what that lock does (CommittedBy).
LEMMA CommitUpdate ==
  ASSUME TypeInv, LocksInv, TypeInv', LocksInv', NEW i \in LockIds, OnlyLock(i),
         NEW t \in 0 .. MaxTreasuries, NEW d \in Denoms
  PROVE  SumFunctionOnSet(CommittedBy(t, d), LockIds)' =
           SumFunctionOnSet(CommittedBy(t, d), LockIds)
             + (CommittedBy(t, d)'[i] - CommittedBy(t, d)[i])
<1> DEFINE f == CommittedBy(t, d)
           g == CommittedBy(t, d)'
           k == g[i] - f[i]
<1>1. IsFiniteSet(LockIds) /\ \A j \in LockIds : f[j] \in Int
  BY SumsOfNumbers
<1>2. g[i] \in Int
  <2>1. ASSUME locks'[i] # None PROVE Remaining(locks[i])' \in Nat
    <3>1. locks'[i] \in Locks /\ WellFormed(locks[i])'
      BY <2>1 DEF TypeInv, LocksInv
    <3> QED BY <3>1 DEF Locks, WellFormed, Remaining
  <2> QED BY <2>1 DEF CommittedBy, Live
<1>3. \A j \in LockIds : j # i => g[j] = f[j]
  BY DEF CommittedBy, Live, Remaining, OnlyLock
<1>4. k \in Int /\ g[i] = f[i] + k
  BY <1>1, <1>2
<1> HIDE DEF f, g, k
<1>5. SumFunctionOnSet(g, LockIds) = SumFunctionOnSet(f, LockIds) + k
  BY <1>1, <1>3, <1>4, SumUpdate
<1> QED BY <1>5 DEF f, g, k

\* One balance changes: the sum over the treasuries changes by as much (HeldBy).
LEMMA HeldUpdate ==
  ASSUME TypeInv, TypeInv', NEW t \in Treasuries, NEW d \in Denoms,
         \A u \in Treasuries : u # t => total'[u][d] = total[u][d]
  PROVE  SumFunctionOnSet(HeldBy(d), Treasuries)' =
           SumFunctionOnSet(HeldBy(d), Treasuries) + (total'[t][d] - total[t][d])
<1> DEFINE f == HeldBy(d)
           g == HeldBy(d)'
           k == total'[t][d] - total[t][d]
<1>1. IsFiniteSet(Treasuries)
  BY FiniteIds
<1>2. /\ \A u \in Treasuries : f[u] \in Int
      /\ \A u \in Treasuries : u # t => g[u] = f[u]
      /\ g[t] = f[t] + k /\ k \in Int
  <2>1. /\ \A u \in Treasuries : total[u][d] \in Nat
        /\ \A u \in Treasuries : total'[u][d] \in Nat
    BY DEF TypeInv
  <2>2. /\ \A u \in Treasuries : f[u] = total[u][d]
        /\ \A u \in Treasuries : g[u] = total'[u][d]
    BY DEF HeldBy
  <2>3. total'[t][d] = total[t][d] + k /\ k \in Int
    BY <2>1
  <2> HIDE DEF f, g, k
  <2>4. \A u \in Treasuries : f[u] \in Int
    BY <2>1, <2>2
  <2> QED BY <2>2, <2>3, <2>4
<1> HIDE DEF f, g, k
<1>3. SumFunctionOnSet(g, Treasuries) = SumFunctionOnSet(f, Treasuries) + k
  BY <1>1, <1>2, SumUpdate
<1> QED BY <1>3 DEF f, g, k

\* Balances that stay add up to what they did.
LEMMA HeldSame ==
  ASSUME NEW d \in Denoms, \A u \in Treasuries : total'[u][d] = total[u][d]
  PROVE  SumFunctionOnSet(HeldBy(d), Treasuries)' = SumFunctionOnSet(HeldBy(d), Treasuries)
<1>1. HeldBy(d)' = HeldBy(d)
  BY DEF HeldBy
<1> QED BY <1>1

LiveOf(t) == {i \in LockIds : Live(i) /\ locks[i].treasury = t}

\* A lock that opens is one more, one that closes one less (activeLocks).
LEMMA CountUpdate ==
  ASSUME TypeInv, NEW i \in LockIds, OnlyLock(i), NEW t \in Treasuries
  PROVE  /\ Cardinality(LiveOf(t)) \in Nat
         /\ i \in LiveOf(t)' /\ i \notin LiveOf(t)
              => Cardinality(LiveOf(t)') = Cardinality(LiveOf(t)) + 1
         /\ i \notin LiveOf(t)' /\ i \in LiveOf(t)
              => Cardinality(LiveOf(t)') = Cardinality(LiveOf(t)) - 1
         /\ (i \in LiveOf(t)' <=> i \in LiveOf(t))
              => Cardinality(LiveOf(t)') = Cardinality(LiveOf(t))
<1>1. IsFiniteSet(LiveOf(t))
  <2>1. LiveOf(t) \subseteq LockIds
    BY DEF LiveOf
  <2> QED BY <2>1, FiniteIds, FS_Subset
<1>2. LiveOf(t)' \ {i} = LiveOf(t) \ {i}
  BY DEF LiveOf, Live, OnlyLock
<1>3. CASE i \in LiveOf(t)' /\ i \notin LiveOf(t)
  <2>1. LiveOf(t)' = LiveOf(t) \cup {i}
    BY <1>2, <1>3
  <2> QED BY <1>1, <1>3, <2>1, FS_AddElement, FS_CardinalityType
<1>4. CASE i \notin LiveOf(t)' /\ i \in LiveOf(t)
  <2>1. LiveOf(t)' = LiveOf(t) \ {i}
    BY <1>2, <1>4
  <2> QED BY <1>1, <1>4, <2>1, FS_RemoveElement, FS_CardinalityType
<1>5. CASE i \in LiveOf(t)' <=> i \in LiveOf(t)
  <2>1. LiveOf(t)' = LiveOf(t)
    BY <1>2, <1>5
  <2> QED BY <1>1, <1>5, <2>1, FS_CardinalityType
<1> QED BY <1>3, <1>4, <1>5
----------------------------------------------------------------------------
(* What a step does to the ledger when it changes one lock. *)

\* Lock i commits k more to treasury t in currency d, and nothing else changes.
Commits(i, t, d, k) ==
  /\ OnlyLock(i)
  /\ \A u \in 0 .. MaxTreasuries, e \in Denoms :
       CommittedBy(u, e)'[i] = CommittedBy(u, e)[i] + (IF u = t /\ e = d THEN k ELSE 0)

\* The locked figures follow the locks, and so does what escrows hold (commit,
\* uncommit, releaseToBeneficiary).
LEMMA LockedFollows ==
  ASSUME TypeInv, LocksInv, LockedIsCommitted, TypeInv', LocksInv',
         NEW i \in LockIds, NEW t \in 0 .. MaxTreasuries, NEW d \in Denoms, NEW k \in Int,
         Commits(i, t, d, k),
         \A u \in Treasuries, e \in Denoms :
           locked'[u][e] = locked[u][e] + (IF u = t /\ e = d THEN k ELSE 0)
  PROVE  /\ LockedIsCommitted'
         /\ \A e \in Denoms :
              SumFunctionOnSet(CommittedBy(0, e), LockIds)' =
                SumFunctionOnSet(CommittedBy(0, e), LockIds) + (IF 0 = t /\ e = d THEN k ELSE 0)
<1>1. ASSUME NEW u \in 0 .. MaxTreasuries, NEW e \in Denoms
      PROVE  SumFunctionOnSet(CommittedBy(u, e), LockIds)' =
               SumFunctionOnSet(CommittedBy(u, e), LockIds) + (IF u = t /\ e = d THEN k ELSE 0)
  <2>1. SumFunctionOnSet(CommittedBy(u, e), LockIds)' =
          SumFunctionOnSet(CommittedBy(u, e), LockIds)
            + (CommittedBy(u, e)'[i] - CommittedBy(u, e)[i])
    BY CommitUpdate DEF Commits
  <2>2. CommittedBy(u, e)[i] \in Nat
    BY SumsOfNumbers
  <2>3. CommittedBy(u, e)'[i] = CommittedBy(u, e)[i] + (IF u = t /\ e = d THEN k ELSE 0)
    BY DEF Commits
  <2>4. CommittedBy(u, e)'[i] - CommittedBy(u, e)[i] = (IF u = t /\ e = d THEN k ELSE 0)
    BY <2>2, <2>3
  <2> QED BY <2>1, <2>4
<1>2. Treasuries \subseteq 0 .. MaxTreasuries /\ 0 \in 0 .. MaxTreasuries
  BY TreasuryAssumption DEF Treasuries
<1>3. LockedIsCommitted'
  <2> SUFFICES ASSUME NEW u \in Treasuries, NEW e \in Denoms
               PROVE  locked'[u][e] = SumFunctionOnSet(CommittedBy(u, e), LockIds)'
    BY DEF LockedIsCommitted
  <2> QED BY <1>1, <1>2 DEF LockedIsCommitted
<1> QED BY <1>1, <1>2, <1>3

\* The module account follows the balances and the escrows.
LEMMA CustodyFollows ==
  ASSUME TypeInv, LocksInv, CustodyIsOwned, NEW h, NEW k,
         \A e \in Denoms :
           /\ h[e] \in Int /\ k[e] \in Int
           /\ SumFunctionOnSet(HeldBy(e), Treasuries)'
                = SumFunctionOnSet(HeldBy(e), Treasuries) + h[e]
           /\ SumFunctionOnSet(CommittedBy(0, e), LockIds)'
                = SumFunctionOnSet(CommittedBy(0, e), LockIds) + k[e]
           /\ custody'[e] = custody[e] + h[e] + k[e]
  PROVE  CustodyIsOwned'
<1> SUFFICES ASSUME NEW e \in Denoms
             PROVE  custody'[e] = SumFunctionOnSet(HeldBy(e), Treasuries)'
                                    + SumFunctionOnSet(CommittedBy(0, e), LockIds)'
  BY DEF CustodyIsOwned
<1> DEFINE H == SumFunctionOnSet(HeldBy(e), Treasuries)
           E == SumFunctionOnSet(CommittedBy(0, e), LockIds)
<1>1. H \in Nat /\ E \in Nat /\ custody[e] = H + E
  <2>1. 0 \in 0 .. MaxTreasuries
    BY TreasuryAssumption
  <2> QED BY <2>1, SumsOfNumbers DEF CustodyIsOwned
<1>2. H' = H + h[e] /\ E' = E + k[e] /\ custody'[e] = custody[e] + h[e] + k[e]
  OBVIOUS
<1> HIDE DEF H, E
<1>3. custody'[e] = H' + E'
  BY <1>1, <1>2
<1> QED BY <1>3 DEF H, E

\* The counters follow the locks (ActiveLockCount, releaseActiveLock).
LEMMA CountsFollow ==
  ASSUME TypeInv, LocksAreCounted, NEW i \in LockIds, OnlyLock(i),
         \A t \in Treasuries :
           activeLocks'[t] =
             IF i \in LiveOf(t)' /\ i \notin LiveOf(t) THEN activeLocks[t] + 1
             ELSE IF i \notin LiveOf(t)' /\ i \in LiveOf(t) THEN activeLocks[t] - 1
             ELSE activeLocks[t]
  PROVE  LocksAreCounted'
<1> SUFFICES ASSUME NEW t \in Treasuries PROVE activeLocks'[t] = Cardinality(LiveOf(t)')
  BY DEF LocksAreCounted, LiveOf
<1>1. activeLocks[t] = Cardinality(LiveOf(t))
  BY DEF LocksAreCounted, LiveOf
<1> QED BY <1>1, CountUpdate
----------------------------------------------------------------------------
(* Steps that leave the locks alone. *)

\* Neither the ledger nor the module account is touched.
LEMMA QuietStep ==
  ASSUME IInv, UNCHANGED <<ledgerVars, lockVars, custody>>,
         outside' \in [Denoms -> Nat], collected' \in [Denoms -> Nat], now' \in 1 .. MaxTime
  PROVE  IInv'
<1>1. TypeInv' /\ LocksInv'
  BY DEF IInv, TypeInv, LocksInv, ledgerVars, lockVars
<1>2. LockedIsHeld' /\ LocksAreCounted'
  BY DEF IInv, LedgerAgrees, LockedIsHeld, LocksAreCounted, Live, ledgerVars, lockVars
<1>3. \A t, d : CommittedBy(t, d)' = CommittedBy(t, d) /\ HeldBy(d)' = HeldBy(d)
  BY DEF CommittedBy, HeldBy, Live, Remaining, ledgerVars, lockVars
<1>4. LockedIsCommitted' /\ CustodyIsOwned'
  BY <1>3 DEF IInv, LedgerAgrees, LockedIsCommitted, CustodyIsOwned, ledgerVars
<1> QED BY <1>1, <1>2, <1>4 DEF IInv, LedgerAgrees

\* Control of a treasury and the parameters (msg_server_treasury.go).
LEMMA ControlSteps ==
  ASSUME IInv,
         \/ \E a \in Accounts : CreateTreasury(a)
         \/ \E by \in Accounts, t \in Treasuries :
              \/ \E a \in Accounts : SetAdmin(by, t, a) \/ RevokeRole(by, t, a)
              \/ \E paused \in BOOLEAN : SetPaused(by, t, paused)
              \/ \E g \in Grants : AssignRole(by, t, g[1], g[2])
              \/ \E d \in Denoms, p \in Policies : SetSpendPolicy(by, t, d, p)
         \/ \E by \in Accounts, p \in ParamChoices : UpdateParams(by, p)
  PROVE  IInv'
<1>1. UNCHANGED <<ledgerVars, lockVars, bankVars, now>>
  <2>1. CASE \E by \in Accounts, t \in Treasuries :
               \/ \E a \in Accounts : SetAdmin(by, t, a) \/ RevokeRole(by, t, a)
               \/ \E paused \in BOOLEAN : SetPaused(by, t, paused)
    BY <2>1 DEF SetAdmin, RevokeRole, SetPaused
  <2>2. CASE \E by \in Accounts, t \in Treasuries :
               \/ \E g \in Grants : AssignRole(by, t, g[1], g[2])
               \/ \E d \in Denoms, p \in Policies : SetSpendPolicy(by, t, d, p)
    BY <2>2 DEF AssignRole, SetSpendPolicy
  <2>3. CASE \/ \E a \in Accounts : CreateTreasury(a)
             \/ \E by \in Accounts, p \in ParamChoices : UpdateParams(by, p)
    BY <2>3 DEF CreateTreasury, UpdateParams
  <2> QED BY <2>1, <2>2, <2>3
<1>2. UNCHANGED <<ledgerVars, lockVars, custody>> /\ UNCHANGED <<outside, collected, now>>
  BY <1>1 DEF bankVars
<1> QED BY <1>2, QuietStep DEF IInv, TypeInv

\* Fees are collected outside the module (the ante handler of the bank).
LEMMA PayFeeStep ==
  ASSUME IInv, NEW d \in Denoms, NEW amount \in Amounts, PayFee(d, amount)
  PROVE  IInv'
<1>1. UNCHANGED <<ledgerVars, lockVars, custody>> /\ UNCHANGED now
  BY DEF PayFee
<1>2. outside' \in [Denoms -> Nat] /\ collected' \in [Denoms -> Nat]
  <2>1. /\ amount \in Nat /\ outside[d] >= amount
        /\ outside' = [outside EXCEPT ![d] = @ - amount]
        /\ collected' = [collected EXCEPT ![d] = @ + amount]
    BY TreasuryAssumption DEF PayFee
  <2>2. outside \in [Denoms -> Nat] /\ collected \in [Denoms -> Nat]
    BY DEF IInv, TypeInv
  <2>3. outside[d] - amount \in Nat /\ collected[d] + amount \in Nat
    BY <2>1, <2>2
  <2> QED BY <2>1, <2>2, <2>3
<1>3. now' \in 1 .. MaxTime
  BY <1>1 DEF IInv, TypeInv
<1> QED BY <1>1, <1>2, <1>3, QuietStep

\* Balances move with the module account and no lock changes (creditBalance,
\* debitAvailable).
LEMMA BalanceStep ==
  ASSUME IInv, UNCHANGED <<locked, lockVars>>,
         total' \in [Treasuries -> [Denoms -> Nat]], LockedIsHeld',
         custody' \in [Denoms -> Nat], outside' \in [Denoms -> Nat],
         collected' \in [Denoms -> Nat], now' \in 1 .. MaxTime,
         NEW t \in Treasuries,
         \A u \in Treasuries, e \in Denoms : u # t => total'[u][e] = total[u][e],
         \A e \in Denoms : custody'[e] = custody[e] + (total'[t][e] - total[t][e])
  PROVE  IInv'
<1>1. TypeInv' /\ LocksInv'
  BY DEF IInv, TypeInv, LocksInv, lockVars
<1>2. LocksAreCounted'
  BY DEF IInv, LedgerAgrees, LocksAreCounted, Live, lockVars
<1>3. \A u, e : CommittedBy(u, e)' = CommittedBy(u, e)
  BY DEF CommittedBy, Live, Remaining, lockVars
<1>4. LockedIsCommitted'
  BY <1>3 DEF IInv, LedgerAgrees, LockedIsCommitted
<1>5. CustodyIsOwned'
  <2> DEFINE h == [e \in Denoms |-> total'[t][e] - total[t][e]]
             k == [e \in Denoms |-> 0]
  <2>1. ASSUME NEW e \in Denoms
        PROVE  /\ h[e] \in Int /\ k[e] \in Int
               /\ SumFunctionOnSet(HeldBy(e), Treasuries)'
                    = SumFunctionOnSet(HeldBy(e), Treasuries) + h[e]
               /\ SumFunctionOnSet(CommittedBy(0, e), LockIds)'
                    = SumFunctionOnSet(CommittedBy(0, e), LockIds) + k[e]
               /\ custody'[e] = custody[e] + h[e] + k[e]
    <3>1. h[e] \in Int /\ k[e] = 0 /\ h[e] = total'[t][e] - total[t][e]
      BY DEF IInv, TypeInv
    <3>2. SumFunctionOnSet(HeldBy(e), Treasuries)'
            = SumFunctionOnSet(HeldBy(e), Treasuries) + (total'[t][e] - total[t][e])
      BY <1>1, HeldUpdate DEF IInv
    <3>3. SumFunctionOnSet(CommittedBy(0, e), LockIds) \in Nat
      BY SumsOfNumbers, TreasuryAssumption DEF IInv
    <3>4. SumFunctionOnSet(CommittedBy(0, e), LockIds)' = SumFunctionOnSet(CommittedBy(0, e), LockIds)
      BY <1>3
    <3>5. custody[e] \in Nat /\ custody'[e] = custody[e] + h[e]
      BY <3>1 DEF IInv, TypeInv
    <3> HIDE DEF h, k
    <3> QED BY <3>1, <3>2, <3>3, <3>4, <3>5
  <2> HIDE DEF h, k
  <2> QED BY <2>1, CustodyFollows DEF IInv, LedgerAgrees
<1> QED BY <1>1, <1>2, <1>4, <1>5 DEF IInv, LedgerAgrees

\* A deposit reaches the module account and the balance together (Deposit).
LEMMA DepositStep ==
  ASSUME IInv, NEW t \in Treasuries, NEW d \in Denoms, NEW amount \in Amounts,
         Deposit(t, d, amount)
  PROVE  IInv'
<1>1. amount \in Nat
  BY TreasuryAssumption
<1>2. UNCHANGED <<locked, lockVars>> /\ UNCHANGED <<collected, now>>
  BY DEF Deposit, TakeIn
<1>3. /\ custody' \in [Denoms -> Nat] /\ outside' \in [Denoms -> Nat]
      /\ \A e \in Denoms : custody'[e] = custody[e] + (IF e = d THEN amount ELSE 0)
  <2>1. /\ custody' = [custody EXCEPT ![d] = custody[d] + amount] /\ amount <= outside[d]
        /\ outside' = [outside EXCEPT ![d] = outside[d] - amount]
    BY DEF Deposit, TakeIn
  <2>2. /\ \A e \in Denoms : custody[e] \in Nat
        /\ custody[d] + amount \in Nat /\ outside[d] - amount \in Nat
    BY <1>1, <2>1, NumbersHeld
  <2>3. /\ custody' \in [Denoms -> Nat] /\ outside' \in [Denoms -> Nat]
        /\ \A e \in Denoms : custody'[e] = IF e = d THEN custody[d] + amount ELSE custody[e]
    BY <2>1, <2>2, NumbersHeld, TableUpdate
  <2> QED BY <1>1, <2>2, <2>3
<1>4. /\ total' \in [Treasuries -> [Denoms -> Nat]]
      /\ \A u \in Treasuries, e \in Denoms :
           total'[u][e] = total[u][e] + (IF u = t /\ e = d THEN amount ELSE 0)
  <2>1. total' = [total EXCEPT ![t][d] = total[t][d] + amount]
    BY DEF Deposit
  <2>2. \A u \in Treasuries, e \in Denoms : total[u][e] \in Nat
    BY NumbersHeld
  <2>3. total[t][d] + amount \in Nat
    BY <1>1, <2>2
  <2>4. /\ total' \in [Treasuries -> [Denoms -> Nat]]
        /\ \A u \in Treasuries, e \in Denoms :
             total'[u][e] = IF u = t /\ e = d THEN total[t][d] + amount ELSE total[u][e]
    BY <2>1, <2>3, NumbersHeld, LedgerUpdate
  <2> QED BY ONLY <1>1, <2>2, <2>4
<1> \A u \in Treasuries, e \in Denoms : total[u][e] \in Nat /\ locked[u][e] \in Nat
  BY DEF IInv, TypeInv
<1>5. LockedIsHeld'
  <2> SUFFICES ASSUME NEW u \in Treasuries, NEW e \in Denoms PROVE locked'[u][e] <= total'[u][e]
    BY DEF LockedIsHeld
  <2>1. locked'[u][e] = locked[u][e] /\ locked[u][e] <= total[u][e]
    BY <1>2 DEF IInv, LedgerAgrees, LockedIsHeld
  <2> QED BY <1>1, <1>4, <2>1
<1>6. ASSUME NEW e \in Denoms PROVE custody'[e] = custody[e] + (total'[t][e] - total[t][e])
  <2>1. custody[e] \in Nat
    BY DEF IInv, TypeInv
  <2> QED BY <1>1, <1>3, <1>4, <2>1
<1>7. \A u \in Treasuries, e \in Denoms : u # t => total'[u][e] = total[u][e]
  BY <1>4
<1>8. collected' \in [Denoms -> Nat] /\ now' \in 1 .. MaxTime
  BY <1>2 DEF IInv, TypeInv
<1> QED BY <1>2, <1>3, <1>4, <1>5, <1>6, <1>7, <1>8, BalanceStep

\* A spend leaves both together and takes nothing that is locked (Spend).
LEMMA SpendStep ==
  ASSUME IInv, NEW by \in Accounts, NEW t \in Treasuries, NEW a \in Payees, NEW d \in Denoms,
         NEW amount \in Amounts, Spend(by, t, a, d, amount)
  PROVE  IInv'
<1>1. amount \in Nat /\ amount <= total[t][d] - locked[t][d] /\ amount <= custody[d]
  BY TreasuryAssumption DEF Spend, SpendIsAllowed, Available, Pay
<1>2. UNCHANGED <<locked, lockVars>> /\ UNCHANGED <<collected, now>>
  BY DEF Spend, Pay
<1>3. /\ custody' \in [Denoms -> Nat] /\ outside' \in [Denoms -> Nat]
      /\ \A e \in Denoms : custody'[e] = custody[e] - (IF e = d THEN amount ELSE 0)
  <2>1. /\ custody' = [custody EXCEPT ![d] = custody[d] - amount]
        /\ outside' = [outside EXCEPT ![d] = outside[d] + amount]
    BY DEF Spend, Pay
  <2>2. /\ \A e \in Denoms : custody[e] \in Nat
        /\ custody[d] - amount \in Nat /\ outside[d] + amount \in Nat
    BY <1>1, NumbersHeld
  <2>3. /\ custody' \in [Denoms -> Nat] /\ outside' \in [Denoms -> Nat]
        /\ \A e \in Denoms : custody'[e] = IF e = d THEN custody[d] - amount ELSE custody[e]
    BY <2>1, <2>2, NumbersHeld, TableUpdate
  <2> QED BY <1>1, <2>2, <2>3
<1>4. /\ total' \in [Treasuries -> [Denoms -> Nat]]
      /\ \A u \in Treasuries, e \in Denoms :
           total'[u][e] = total[u][e] - (IF u = t /\ e = d THEN amount ELSE 0)
  <2>1. total' = [total EXCEPT ![t][d] = total[t][d] - amount]
    BY DEF Spend
  <2>2. \A u \in Treasuries, e \in Denoms : total[u][e] \in Nat /\ locked[u][e] \in Nat
    BY NumbersHeld
  <2>3. total[t][d] - amount \in Nat
    BY <1>1, <2>2
  <2>4. /\ total' \in [Treasuries -> [Denoms -> Nat]]
        /\ \A u \in Treasuries, e \in Denoms :
             total'[u][e] = IF u = t /\ e = d THEN total[t][d] - amount ELSE total[u][e]
    BY <2>1, <2>3, NumbersHeld, LedgerUpdate
  <2> QED BY ONLY <1>1, <2>2, <2>4
<1> \A u \in Treasuries, e \in Denoms : total[u][e] \in Nat /\ locked[u][e] \in Nat
  BY DEF IInv, TypeInv
<1>5. LockedIsHeld'
  <2> SUFFICES ASSUME NEW u \in Treasuries, NEW e \in Denoms PROVE locked'[u][e] <= total'[u][e]
    BY DEF LockedIsHeld
  <2>1. locked'[u][e] = locked[u][e] /\ locked[u][e] <= total[u][e]
    BY <1>2 DEF IInv, LedgerAgrees, LockedIsHeld
  <2> QED BY <1>1, <1>4, <2>1
<1>6. ASSUME NEW e \in Denoms PROVE custody'[e] = custody[e] + (total'[t][e] - total[t][e])
  <2>1. custody[e] \in Nat
    BY DEF IInv, TypeInv
  <2> QED BY <1>1, <1>3, <1>4, <2>1
<1>7. \A u \in Treasuries, e \in Denoms : u # t => total'[u][e] = total[u][e]
  BY <1>4
<1>8. collected' \in [Denoms -> Nat] /\ now' \in 1 .. MaxTime
  BY <1>2 DEF IInv, TypeInv
<1> QED BY <1>2, <1>3, <1>4, <1>5, <1>6, <1>7, <1>8, BalanceStep

\* Fees reach the module account and the treasury they are for, or neither.
LEMMA NextBlockStep ==
  ASSUME IInv, NextBlock
  PROVE  IInv'
<1> DEFINE t == params.feeTreasury
<1>1. UNCHANGED <<locked, lockVars>> /\ now' \in 1 .. MaxTime
  BY DEF NextBlock, IInv, TypeInv
<1>2. collected' \in [Denoms -> Nat]
  BY DEF NextBlock
<1>3. CASE params.routeFees /\ Exists(t)
  <2>1. t \in Treasuries
    BY <1>3 DEF Exists
  <2>2. /\ custody' = [e \in Denoms |-> custody[e] + collected[e]]
        /\ total' = [total EXCEPT ![t] = [e \in Denoms |-> @[e] + collected[e]]]
        /\ outside' = outside
    BY <1>3 DEF NextBlock, SweepIntoOperatingTreasury
  <2>3. /\ custody' \in [Denoms -> Nat] /\ outside' \in [Denoms -> Nat]
        /\ total' \in [Treasuries -> [Denoms -> Nat]]
    BY <2>1, <2>2 DEF IInv, TypeInv
  <2>4. \A u \in Treasuries, e \in Denoms :
          total'[u][e] = total[u][e] + (IF u = t THEN collected[e] ELSE 0)
    BY <2>1, <2>2 DEF IInv, TypeInv
  <2>5. \A u \in Treasuries, e \in Denoms :
          total[u][e] \in Nat /\ locked[u][e] \in Nat /\ collected[e] \in Nat
    BY DEF IInv, TypeInv
  <2> HIDE DEF t
  <2>6. LockedIsHeld'
    <3> SUFFICES ASSUME NEW u \in Treasuries, NEW e \in Denoms PROVE locked'[u][e] <= total'[u][e]
      BY DEF LockedIsHeld
    <3>1. locked'[u][e] = locked[u][e] /\ locked[u][e] <= total[u][e]
      BY <1>1 DEF IInv, LedgerAgrees, LockedIsHeld
    <3> QED BY <2>4, <2>5, <3>1
  <2>7. \A u \in Treasuries, e \in Denoms : u # t => total'[u][e] = total[u][e]
    BY <2>4, <2>5
  <2>8. ASSUME NEW e \in Denoms PROVE custody'[e] = custody[e] + (total'[t][e] - total[t][e])
    <3>1. custody[e] \in Nat
      BY DEF IInv, TypeInv
    <3> QED BY <2>1, <2>2, <2>4, <2>5, <3>1
  <2> QED BY <1>1, <1>2, <2>1, <2>3, <2>6, <2>7, <2>8, BalanceStep
<1>4. CASE ~(params.routeFees /\ Exists(t))
  <2>1. UNCHANGED <<ledgerVars, lockVars, custody>>
    BY <1>1, <1>4 DEF NextBlock, SweepIntoOperatingTreasury, ledgerVars
  <2>2. outside' \in [Denoms -> Nat]
    BY <1>4 DEF NextBlock, SweepIntoOperatingTreasury, IInv, TypeInv
  <2> QED BY <1>1, <1>2, <2>1, <2>2, QuietStep
<1> QED BY <1>3, <1>4

\* A restart counts what is there (InitGenesis).
LEMMA RestartStep ==
  ASSUME IInv, ExportAndImport
  PROVE  IInv'
<1>1. UNCHANGED <<ledgerVars, locks, lockSeq, bankVars, now>>
  BY DEF ExportAndImport
<1>2. IsFiniteSet(LockIds) /\ Treasuries \subseteq 0 .. MaxTreasuries
  BY FiniteIds DEF Treasuries
<1>3. \A t \in 0 .. MaxTreasuries : Cardinality({i \in LockIds : Live(i) /\ locks[i].treasury = t}) \in Nat
  BY <1>2, FS_Subset, FS_CardinalityType
<1>4. activeLocks' \in [0 .. MaxTreasuries -> Nat]
  BY <1>3 DEF ExportAndImport
<1>5. TypeInv' /\ LocksInv'
  BY <1>1, <1>4 DEF IInv, TypeInv, LocksInv, ledgerVars, bankVars
<1>6. \A t, d : CommittedBy(t, d)' = CommittedBy(t, d) /\ HeldBy(d)' = HeldBy(d)
  BY <1>1 DEF CommittedBy, HeldBy, Live, Remaining, ledgerVars
<1>7. LockedIsHeld' /\ LockedIsCommitted' /\ CustodyIsOwned'
  BY <1>1, <1>6 DEF IInv, LedgerAgrees, LockedIsHeld, LockedIsCommitted, CustodyIsOwned,
                    ledgerVars, bankVars
<1>8. LocksAreCounted'
  BY <1>1, <1>2 DEF ExportAndImport, LocksAreCounted, Live
<1> QED BY <1>5, <1>7, <1>8 DEF IInv, LedgerAgrees
----------------------------------------------------------------------------
(* Steps that change a lock of a treasury. *)

\* A lock of treasury t commits k more, and whatever it pays out leaves the
\* balance and the module account together.
LEMMA LockStep ==
  ASSUME IInv, TypeInv', LocksInv', NEW i \in LockIds, NEW t \in Treasuries, NEW d \in Denoms,
         NEW k \in Int, NEW paid \in Nat, Commits(i, t, d, k),
         k <= 0 \/ k <= total[t][d] - locked[t][d], paid = 0 \/ k <= 0 - paid,
         \A u \in Treasuries, e \in Denoms :
           /\ locked'[u][e] = locked[u][e] + (IF u = t /\ e = d THEN k ELSE 0)
           /\ total'[u][e] = total[u][e] - (IF u = t /\ e = d THEN paid ELSE 0)
           /\ custody'[e] = custody[e] - (IF e = d THEN paid ELSE 0),
         LocksAreCounted'
  PROVE  IInv'
<1>0. \A u \in Treasuries, e \in Denoms :
        total[u][e] \in Nat /\ locked[u][e] \in Nat /\ locked[u][e] <= total[u][e] /\ custody[e] \in Nat
  BY DEF IInv, TypeInv, LedgerAgrees, LockedIsHeld
<1>1. LockedIsHeld'
  <2> SUFFICES ASSUME NEW u \in Treasuries, NEW e \in Denoms PROVE locked'[u][e] <= total'[u][e]
    BY DEF LockedIsHeld
  <2>1. CASE u = t /\ e = d
    <3>1. locked'[t][d] = locked[t][d] + k /\ total'[t][d] = total[t][d] - paid
      OBVIOUS
    <3> QED BY <1>0, <2>1, <3>1
  <2>2. CASE ~(u = t /\ e = d)
    BY <1>0, <2>2
  <2> QED BY <2>1, <2>2
<1>2. t \in 0 .. MaxTreasuries /\ t # 0
  BY TreasuryAssumption DEF Treasuries
<1>3. /\ LockedIsCommitted'
      /\ \A e \in Denoms :
           SumFunctionOnSet(CommittedBy(0, e), LockIds)' =
             SumFunctionOnSet(CommittedBy(0, e), LockIds) + (IF 0 = t /\ e = d THEN k ELSE 0)
  BY <1>2, LockedFollows DEF IInv, LedgerAgrees
<1>4. CustodyIsOwned'
  <2> DEFINE h == [e \in Denoms |-> total'[t][e] - total[t][e]]
             z == [e \in Denoms |-> 0]
  <2>1. ASSUME NEW e \in Denoms
        PROVE  /\ h[e] \in Int /\ z[e] \in Int
               /\ SumFunctionOnSet(HeldBy(e), Treasuries)'
                    = SumFunctionOnSet(HeldBy(e), Treasuries) + h[e]
               /\ SumFunctionOnSet(CommittedBy(0, e), LockIds)'
                    = SumFunctionOnSet(CommittedBy(0, e), LockIds) + z[e]
               /\ custody'[e] = custody[e] + h[e] + z[e]
    <3>1. h[e] = total'[t][e] - total[t][e] /\ z[e] = 0
      OBVIOUS
    <3>2. h[e] = 0 - (IF e = d THEN paid ELSE 0) /\ h[e] \in Int
      BY <1>0, <3>1
    <3>3. \A u \in Treasuries : u # t => total'[u][e] = total[u][e]
      BY <1>0
    <3>4. SumFunctionOnSet(HeldBy(e), Treasuries)'
            = SumFunctionOnSet(HeldBy(e), Treasuries) + (total'[t][e] - total[t][e])
      BY <3>3, HeldUpdate DEF IInv
    <3>5. SumFunctionOnSet(CommittedBy(0, e), LockIds)' =
            SumFunctionOnSet(CommittedBy(0, e), LockIds) + 0
      BY <1>2, <1>3
    <3>6. custody[e] \in Nat /\ custody'[e] = custody[e] - (IF e = d THEN paid ELSE 0)
      BY <1>0
    <3> HIDE DEF h, z
    <3>7. custody'[e] = custody[e] + h[e] + z[e]
      BY <3>1, <3>2, <3>6
    <3> QED BY <3>1, <3>2, <3>4, <3>5, <3>7
  <2> HIDE DEF h, z
  <2> QED BY <2>1, CustodyFollows DEF IInv, LedgerAgrees
<1> QED BY <1>1, <1>3, <1>4 DEF IInv, LedgerAgrees

\* A lock commits what nothing else has committed (CreateLock).
LEMMA CreateLockStep ==
  ASSUME IInv, NEW by \in Accounts, NEW t \in Treasuries, NEW a \in Payees, NEW d \in Denoms,
         NEW amount \in Amounts, NEW s \in Schedules, CreateLock(by, t, a, d, amount, s)
  PROVE  IInv'
<1> DEFINE i == lockSeq
           new == [kind |-> s.kind, treasury |-> t, beneficiary |-> a, denom |-> d,
                   amount |-> amount, released |-> 0, start |-> s.start, cliff |-> s.cliff,
                   end |-> s.end, intervals |-> s.intervals, revocable |-> s.revocable,
                   active |-> TRUE, depositor |-> None, moderator |-> None, disputed |-> FALSE]
<1>1. i \in LockIds /\ locks[i] = None
  BY DEF CreateLock, IInv, TypeInv, LockIds
<1>2. /\ locks' = [locks EXCEPT ![i] = new] /\ lockSeq' = i + 1
      /\ locked' = [locked EXCEPT ![t][d] = @ + amount]
      /\ activeLocks' = [activeLocks EXCEPT ![t] = @ + 1]
      /\ UNCHANGED <<total, bankVars, now>>
  BY DEF CreateLock
<1>3. amount \in Nat /\ amount <= total[t][d] - locked[t][d]
  BY TreasuryAssumption DEF CreateLock, Available
<1>4. t \in 0 .. MaxTreasuries /\ a \in Accounts /\ s \in ScheduleSets
  BY TreasuryAssumption DEF Treasuries
<1>5. new \in Locks /\ new # None
  <2>1. /\ s.kind \in {"time", "vesting", "conditional"} /\ s.revocable \in BOOLEAN
        /\ s.start \in Nat /\ s.cliff \in Nat /\ s.end \in Nat /\ s.intervals \in Nat
    BY <1>4 DEF ScheduleSets
  <2>2. new \in Locks
    BY <1>3, <1>4, <2>1 DEF Locks
  <2> HIDE DEF new
  <2> QED BY <2>2, NoneAssumption
<1>6. WellFormed(new)
  BY <1>3, <1>4 DEF WellFormed, CreateLock, ValidateSchedule, ScheduleSets
<1> HIDE DEF new
<1>7. locks'[i] = new /\ OnlyLock(i)
  BY <1>1, <1>2 DEF OnlyLock, IInv, TypeInv
<1>8. TypeInv'
  <2>1. locks' \in [LockIds -> Locks \cup {None}]
    BY <1>2, <1>5 DEF IInv, TypeInv
  <2>2. locked' \in [Treasuries -> [Denoms -> Nat]]
    BY <1>2, <1>3 DEF IInv, TypeInv
  <2>3. activeLocks' \in [0 .. MaxTreasuries -> Nat]
    BY <1>2, <1>4 DEF IInv, TypeInv
  <2>4. lockSeq' \in Nat \ {0} /\ \A j \in LockIds : j >= lockSeq' => locks'[j] = None
    BY <1>1, <1>2, <1>7 DEF IInv, TypeInv, OnlyLock, LockIds
  <2> QED BY <1>2, <2>1, <2>2, <2>3, <2>4 DEF IInv, TypeInv, bankVars
<1>9. LocksInv'
  BY <1>6, <1>7 DEF IInv, LocksInv, OnlyLock
<1>10. new.active = TRUE /\ new.treasury = t /\ new.denom = d /\ new.amount = amount /\ new.released = 0
  BY DEF new
<1> HIDE DEF i
<1>11. Commits(i, t, d, amount)
  <2> SUFFICES ASSUME NEW u \in 0 .. MaxTreasuries, NEW e \in Denoms
               PROVE  CommittedBy(u, e)'[i]
                        = CommittedBy(u, e)[i] + (IF u = t /\ e = d THEN amount ELSE 0)
    BY <1>7 DEF Commits
  <2>1. CommittedBy(u, e)[i] = 0
    BY <1>1 DEF CommittedBy, Live
  <2>2. CommittedBy(u, e)'[i] = IF t = u /\ d = e THEN amount - 0 ELSE 0
    BY <1>1, <1>5, <1>7, <1>10 DEF CommittedBy, Live, Remaining
  <2> QED BY <1>3, <2>1, <2>2
<1>12. LocksAreCounted'
  <2>1. ASSUME NEW u \in Treasuries
        PROVE  i \notin LiveOf(u) /\ (i \in LiveOf(u)' <=> u = t)
    BY <1>1, <1>5, <1>7, <1>10 DEF LiveOf, Live
  <2>2. \A u \in Treasuries : activeLocks'[u] = IF u = t THEN activeLocks[u] + 1 ELSE activeLocks[u]
    BY <1>2, <1>4 DEF IInv, TypeInv, Treasuries
  <2> QED BY <1>1, <1>7, <2>1, <2>2, CountsFollow DEF IInv, LedgerAgrees
<1>13. \A u \in Treasuries, e \in Denoms :
         /\ locked'[u][e] = locked[u][e] + (IF u = t /\ e = d THEN amount ELSE 0)
         /\ total'[u][e] = total[u][e] - (IF u = t /\ e = d THEN 0 ELSE 0)
         /\ custody'[e] = custody[e] - (IF e = d THEN 0 ELSE 0)
  <2>1. \A u \in Treasuries, e \in Denoms :
          total[u][e] \in Nat /\ locked[u][e] \in Nat /\ custody[e] \in Nat
    BY NumbersHeld
  <2>2. locked[t][d] + amount \in Nat /\ locked' = [locked EXCEPT ![t][d] = locked[t][d] + amount]
    BY <1>2, <1>3, <2>1
  <2>3. \A u \in Treasuries, e \in Denoms :
          locked'[u][e] = IF u = t /\ e = d THEN locked[t][d] + amount ELSE locked[u][e]
    BY <2>2, NumbersHeld, LedgerUpdate
  <2>4. total' = total /\ custody' = custody
    BY <1>2 DEF bankVars
  <2> QED BY <1>3, <2>1, <2>3, <2>4
<1> QED BY <1>1, <1>3, <1>8, <1>9, <1>11, <1>12, <1>13, LockStep

\* What ClaimLock and RevokeLock have in common: a live lock is paid out in part
\* and stays live, or is closed and commits nothing any more.
LEMMA LockPays ==
  ASSUME IInv, NEW i \in LockIds, NEW t \in Treasuries, NEW d, NEW paid,
         NEW active \in BOOLEAN, NEW k \in Int,
         Live(i), locks[i].treasury = t, locks[i].denom = d,
         paid \in 0 .. Remaining(locks[i]),
         k = IF active THEN 0 - paid ELSE 0 - Remaining(locks[i]),
         locks' = [locks EXCEPT ![i].released = @ + paid, ![i].active = active],
         paid <= total[t][d], paid <= custody[d], locked[t][d] + k >= 0,
         locked' = [locked EXCEPT ![t][d] = @ + k],
         total' = [total EXCEPT ![t][d] = @ - paid],
         custody' = [custody EXCEPT ![d] = @ - paid],
         outside' \in [Denoms -> Nat],
         activeLocks' = (IF active THEN activeLocks ELSE releaseActiveLock(t)),
         UNCHANGED <<lockSeq, collected, now>>
  PROVE  IInv'
<1> DEFINE l == locks[i]
           new == [l EXCEPT !.released = @ + paid, !.active = active]
<1>1. l \in Locks /\ WellFormed(l) /\ l.active /\ l # None
  BY DEF IInv, TypeInv, LocksInv, Live
<1>2. /\ t \in 0 .. MaxTreasuries /\ d \in Denoms /\ l.kind # "conditional"
      /\ l.amount \in Nat /\ l.released \in Nat /\ l.released <= l.amount
  <2>1. t # 0 /\ t \in 0 .. MaxTreasuries
    BY TreasuryAssumption DEF Treasuries
  <2> QED BY <1>1, <2>1 DEF Locks, WellFormed
<1>3. paid \in Nat /\ l.released + paid <= l.amount
  BY <1>2 DEF Remaining
<1>4. new \in Locks /\ new # None
  <2>1. l.released + paid \in Nat
    BY <1>2, <1>3
  <2>2. new \in Locks
    BY <1>1, <2>1 DEF Locks
  <2> HIDE DEF new
  <2> QED BY <2>2, NoneAssumption
<1>5. /\ new.active = active /\ new.released = l.released + paid /\ new.amount = l.amount
      /\ new.treasury = t /\ new.denom = d /\ new.kind = l.kind /\ new.start = l.start
      /\ new.cliff = l.cliff /\ new.end = l.end
  BY <1>1 DEF Locks
<1>6. WellFormed(new)
  BY <1>1, <1>2, <1>3, <1>5 DEF WellFormed
<1>7. locks'[i] = new /\ locks' = [locks EXCEPT ![i] = new] /\ OnlyLock(i)
  BY <1>1 DEF OnlyLock, IInv, TypeInv, Locks
<1> HIDE DEF new, l
<1>8. TypeInv'
  <2>1. locks' \in [LockIds -> Locks \cup {None}]
    BY <1>4, <1>7 DEF IInv, TypeInv
  <2>0. locked[t][d] \in Nat /\ total[t][d] \in Nat
    BY <1>2 DEF IInv, TypeInv
  <2>6. locked[t][d] + k \in Nat /\ total[t][d] - paid \in Nat
    BY <1>3, <2>0
  <2>2. locked' \in [Treasuries -> [Denoms -> Nat]] /\ total' \in [Treasuries -> [Denoms -> Nat]]
    <3>1. /\ locked' = [locked EXCEPT ![t][d] = locked[t][d] + k]
          /\ total' = [total EXCEPT ![t][d] = total[t][d] - paid]
      BY Zenon
    <3>2. locked \in [Treasuries -> [Denoms -> Nat]] /\ total \in [Treasuries -> [Denoms -> Nat]]
      BY NumbersHeld
    <3> DEFINE x == locked[t][d] + k
               y == total[t][d] - paid
    <3>3. x \in Nat /\ y \in Nat
      BY <2>6
    <3> HIDE DEF x, y
    <3>4. locked' = [locked EXCEPT ![t][d] = x] /\ total' = [total EXCEPT ![t][d] = y]
      BY <3>1 DEF x, y
    <3>5. t \in Treasuries /\ d \in Denoms
      BY <1>2
    <3> QED BY ONLY <3>2, <3>3, <3>4, <3>5, LedgerUpdate
  <2>3. activeLocks' \in [0 .. MaxTreasuries -> Nat]
    <3>1. activeLocks' = activeLocks \/ activeLocks' = releaseActiveLock(t)
      OBVIOUS
    <3>2. activeLocks \in [0 .. MaxTreasuries -> Nat]
      BY NumbersHeld
    <3> QED BY ONLY <1>2, <3>1, <3>2 DEF releaseActiveLock
  <2>4. \A j \in LockIds : j >= lockSeq => locks'[j] = None
    BY <1>1, <1>7 DEF IInv, TypeInv, OnlyLock, l
  <2>5. custody' \in [Denoms -> Nat]
    <3>0. custody[d] \in Nat
      BY <1>2, NumbersHeld
    <3>1. custody[d] - paid \in Nat
      BY <1>3, <3>0
    <3> QED BY <1>2, <3>1, NumbersHeld, TableUpdate
  <2> QED BY <2>1, <2>2, <2>3, <2>4, <2>5 DEF IInv, TypeInv
<1>9. LocksInv'
  BY <1>6, <1>7 DEF IInv, LocksInv, OnlyLock
<1>10. Commits(i, t, d, k)
  <2> SUFFICES ASSUME NEW u \in 0 .. MaxTreasuries, NEW e \in Denoms
               PROVE  CommittedBy(u, e)'[i]
                        = CommittedBy(u, e)[i] + (IF u = t /\ e = d THEN k ELSE 0)
    BY <1>7 DEF Commits
  <2>1. CommittedBy(u, e)[i] = IF u = t /\ e = d THEN l.amount - l.released ELSE 0
    BY <1>1 DEF CommittedBy, Live, Remaining, l
  <2>2. CommittedBy(u, e)'[i] =
          IF active /\ u = t /\ e = d THEN l.amount - (l.released + paid) ELSE 0
    BY <1>4, <1>5, <1>7 DEF CommittedBy, Live, Remaining
  <2>3. k = IF active THEN 0 - paid ELSE 0 - (l.amount - l.released)
    BY DEF Remaining, l
  <2> QED BY <1>2, <1>3, <2>1, <2>2, <2>3
<1>11. LocksAreCounted'
  <2>1. ASSUME NEW u \in Treasuries
        PROVE  (i \in LiveOf(u) <=> u = t) /\ (i \in LiveOf(u)' <=> u = t /\ active)
    BY <1>1, <1>4, <1>5, <1>7 DEF LiveOf, Live, l
  <2>2. activeLocks[t] = Cardinality(LiveOf(t)) /\ activeLocks[t] # 0
    <3>1. activeLocks[t] = Cardinality(LiveOf(t)) /\ LiveOf(t) # {}
      BY <1>2, <2>1 DEF IInv, LedgerAgrees, LocksAreCounted, LiveOf
    <3>2. IsFiniteSet(LiveOf(t))
      <4>1. LiveOf(t) \subseteq LockIds
        BY DEF LiveOf
      <4> QED BY <4>1, FiniteIds, FS_Subset
    <3> QED BY <3>1, <3>2, FS_EmptySet
  <2>3. \A u \in Treasuries :
          activeLocks'[u] = IF u = t /\ ~active THEN activeLocks[u] - 1 ELSE activeLocks[u]
    <3>1. \A u \in Treasuries : u \in 0 .. MaxTreasuries
      BY DEF Treasuries
    <3> QED BY <1>2, <2>2, <3>1, NumbersHeld DEF releaseActiveLock
  <2> QED BY <1>2, <1>7, <2>1, <2>3, CountsFollow DEF IInv, LedgerAgrees
<1>12. \A u \in Treasuries, e \in Denoms :
         /\ locked'[u][e] = locked[u][e] + (IF u = t /\ e = d THEN k ELSE 0)
         /\ total'[u][e] = total[u][e] - (IF u = t /\ e = d THEN paid ELSE 0)
         /\ custody'[e] = custody[e] - (IF e = d THEN paid ELSE 0)
  <2>1. \A u \in Treasuries, e \in Denoms :
          locked[u][e] \in Nat /\ total[u][e] \in Nat /\ custody[e] \in Nat
    BY DEF IInv, TypeInv
  <2>2. \A u \in Treasuries, e \in Denoms :
          /\ locked'[u][e] = IF u = t /\ e = d THEN locked[t][d] + k ELSE locked[u][e]
          /\ total'[u][e] = IF u = t /\ e = d THEN total[t][d] - paid ELSE total[u][e]
          /\ custody'[e] = IF e = d THEN custody[d] - paid ELSE custody[e]
    BY <1>2, NumbersHeld
  <2> QED BY <1>2, <1>3, <2>1, <2>2
<1>13. k <= 0 /\ k <= 0 - paid
  BY <1>2, <1>3 DEF Remaining, l
<1>14. paid \in Nat /\ d \in Denoms
  BY <1>2, <1>3
<1>15. IInv /\ i \in LockIds /\ t \in Treasuries /\ k \in Int
  OBVIOUS
<1> QED BY ONLY <1>8, <1>9, <1>10, <1>11, <1>12, <1>13, <1>14, <1>15, LockStep

\* What a live lock of a treasury is (getLock, getTreasury).
LEMMA LiveLock ==
  ASSUME IInv, NEW i \in LockIds, Live(i)
  PROVE  /\ locks[i] \in Locks /\ WellFormed(locks[i]) /\ locks[i].denom \in Denoms
         /\ locks[i].amount \in Nat /\ locks[i].released \in Nat
         /\ Remaining(locks[i]) \in Nat /\ Claimable(locks[i]) \in 0 .. Remaining(locks[i])
<1>1. locks[i] \in Locks /\ WellFormed(locks[i]) /\ now \in Nat
  BY DEF IInv, TypeInv, LocksInv, Live
<1>2. Claimable(locks[i]) \in 0 .. Remaining(locks[i])
  BY <1>1, ClaimBounds
<1>3. /\ locks[i].amount \in Nat /\ locks[i].released \in Nat /\ locks[i].released <= locks[i].amount
      /\ locks[i].denom \in Denoms
  BY <1>1 DEF Locks, WellFormed
<1> QED BY <1>1, <1>2, <1>3 DEF Remaining

\* A claim pays out of the lock, the balance and the module account (ClaimLock).
LEMMA ClaimLockStep ==
  ASSUME IInv, NEW by \in Accounts, NEW i \in LockIds, ClaimLock(by, i)
  PROVE  IInv'
<1> DEFINE l == locks[i]
           t == l.treasury
           d == l.denom
           paid == Claimable(l)
           active == l.released + paid # l.amount
           k == 0 - paid
<1>1. Live(i) /\ t \in Treasuries
  BY DEF ClaimLock, Moving, Exists
<1>2. /\ paid \in 0 .. Remaining(l) /\ Remaining(l) \in Nat /\ d \in Denoms
      /\ l.amount \in Nat /\ l.released \in Nat
  BY <1>1, LiveLock
<1>3. k = IF active THEN 0 - paid ELSE 0 - Remaining(l)
  BY <1>2 DEF Remaining
<1>4. /\ paid <= locked[t][d] /\ paid <= total[t][d] /\ paid <= custody[d]
      /\ locked' = [locked EXCEPT ![t][d] = @ - paid]
      /\ total' = [total EXCEPT ![t][d] = @ - paid]
      /\ custody' = [custody EXCEPT ![d] = @ - paid]
      /\ outside' = [outside EXCEPT ![d] = @ + paid]
      /\ UNCHANGED <<lockSeq, collected, now>>
  BY DEF ClaimLock, releaseToBeneficiary, Pay
<1>5. /\ locks' = [locks EXCEPT ![i].released = @ + paid, ![i].active = active]
      /\ activeLocks' = (IF active THEN activeLocks ELSE releaseActiveLock(t))
  BY DEF ClaimLock
<1>6. locked[t][d] \in Nat /\ outside[d] \in Nat
  BY <1>1, <1>2 DEF IInv, TypeInv
<1> HIDE DEF paid
<1>7. locked' = [locked EXCEPT ![t][d] = @ + k] /\ locked[t][d] + k >= 0
  <2>1. locked[t][d] - paid = locked[t][d] + k
    BY <1>2, <1>6
  <2>2. locked[t][d] - paid >= 0
    BY <1>2, <1>4, <1>6
  <2> HIDE DEF t, d, k, l
  <2> QED BY <1>4, <2>1, <2>2
<1>8. outside' \in [Denoms -> Nat]
  BY <1>2, <1>4 DEF IInv, TypeInv
<1>9. active \in BOOLEAN /\ k \in Int
  BY <1>2
<1> HIDE DEF active, k, t, d
<1>10. l.treasury = t /\ l.denom = d
  BY DEF t, d
<1> QED BY <1>1, <1>2, <1>3, <1>4, <1>5, <1>7, <1>8, <1>9, <1>10, LockPays

\* A lock that is revoked commits nothing any more (RevokeLock).
LEMMA RevokeLockStep ==
  ASSUME IInv, NEW by \in Accounts, NEW i \in LockIds, RevokeLock(by, i)
  PROVE  IInv'
<1> DEFINE l == locks[i]
           t == l.treasury
           d == l.denom
           paid == Claimable(l)
           k == 0 - Remaining(l)
<1>1. Live(i) /\ t \in Treasuries
  BY DEF RevokeLock, Moving, Exists
<1>2. /\ paid \in 0 .. Remaining(l) /\ Remaining(l) \in Nat /\ d \in Denoms
  BY <1>1, LiveLock
<1>3. /\ Remaining(l) <= locked[t][d] /\ paid <= total[t][d]
      /\ locked' = [locked EXCEPT ![t][d] = @ - Remaining(l)]
      /\ total' = [total EXCEPT ![t][d] = @ - paid]
      /\ locks' = [locks EXCEPT ![i].released = @ + paid, ![i].active = FALSE]
      /\ activeLocks' = releaseActiveLock(t)
      /\ UNCHANGED <<lockSeq, now>>
  BY DEF RevokeLock, Vested
<1>4. IF paid > 0 THEN Pay(l.beneficiary, d, paid) ELSE UNCHANGED bankVars
  BY DEF RevokeLock, Vested
<1>5. locked[t][d] \in Nat /\ outside[d] \in Nat /\ custody[d] \in Nat
  BY <1>1, <1>2 DEF IInv, TypeInv
<1> HIDE DEF paid
<1>6. /\ paid <= custody[d] /\ UNCHANGED collected
      /\ custody' = [custody EXCEPT ![d] = @ - paid]
      /\ outside' \in [Denoms -> Nat]
  <2>1. CASE paid > 0
    <3>1. /\ paid <= custody[d] /\ UNCHANGED collected
          /\ custody' = [custody EXCEPT ![d] = @ - paid]
          /\ outside' = [outside EXCEPT ![d] = @ + paid]
      BY <1>4, <2>1 DEF Pay
    <3>2. outside[d] + paid \in Nat
      BY <1>2, <1>5
    <3>3. outside' \in [Denoms -> Nat]
      BY <1>2, <3>1, <3>2, NumbersHeld, TableUpdate
    <3> QED BY <3>1, <3>3
  <2>2. CASE ~(paid > 0)
    <3>1. paid = 0
      BY <1>2, <2>2
    <3> QED BY <1>2, <1>4, <1>5, <2>2, <3>1 DEF bankVars, IInv, TypeInv
  <2> QED BY <2>1, <2>2
<1>7. locked' = [locked EXCEPT ![t][d] = @ + k] /\ locked[t][d] + k >= 0
  <2>1. locked[t][d] - Remaining(l) = locked[t][d] + k
    BY <1>2, <1>5
  <2>2. locked[t][d] - Remaining(l) >= 0
    BY <1>2, <1>3, <1>5
  <2> HIDE DEF t, d, k, l
  <2> QED BY <1>3, <2>1, <2>2
<1>8. k \in Int
  BY <1>2
<1>9. l.treasury = t /\ l.denom = d /\ k = 0 - Remaining(l)
  OBVIOUS
<1> HIDE DEF k, t, d
<1> QED BY <1>1, <1>2, <1>3, <1>6, <1>7, <1>8, <1>9, LockPays
----------------------------------------------------------------------------
(* Steps that change an escrow. *)

\* An escrow takes or gives k, and so does the module account.
LEMMA EscrowStep ==
  ASSUME IInv, TypeInv', LocksInv', NEW i \in LockIds, NEW d \in Denoms, NEW k \in Int,
         Commits(i, 0, d, k), UNCHANGED <<ledgerVars, activeLocks>>,
         \A e \in Denoms : custody'[e] = custody[e] + (IF e = d THEN k ELSE 0),
         \A t \in Treasuries : i \notin LiveOf(t) /\ i \notin LiveOf(t)'
  PROVE  IInv'
<1>1. LockedIsHeld'
  BY DEF IInv, LedgerAgrees, LockedIsHeld, ledgerVars
<1>2. 0 \in 0 .. MaxTreasuries /\ \A u \in Treasuries : u # 0
  BY TreasuryAssumption DEF Treasuries
<1>3. ASSUME NEW u \in Treasuries, NEW e \in Denoms
      PROVE  locked'[u][e] = locked[u][e] + (IF u = 0 /\ e = d THEN k ELSE 0)
  <2>1. locked[u][e] \in Nat
    BY DEF IInv, TypeInv
  <2> QED BY <1>2, <2>1 DEF ledgerVars
<1>4. /\ LockedIsCommitted'
      /\ \A e \in Denoms :
           SumFunctionOnSet(CommittedBy(0, e), LockIds)' =
             SumFunctionOnSet(CommittedBy(0, e), LockIds) + (IF 0 = 0 /\ e = d THEN k ELSE 0)
  BY <1>2, <1>3, LockedFollows DEF IInv, LedgerAgrees
<1>5. CustodyIsOwned'
  <2> DEFINE h == [e \in Denoms |-> 0]
             z == [e \in Denoms |-> IF e = d THEN k ELSE 0]
  <2>1. ASSUME NEW e \in Denoms
        PROVE  /\ h[e] \in Int /\ z[e] \in Int
               /\ SumFunctionOnSet(HeldBy(e), Treasuries)'
                    = SumFunctionOnSet(HeldBy(e), Treasuries) + h[e]
               /\ SumFunctionOnSet(CommittedBy(0, e), LockIds)'
                    = SumFunctionOnSet(CommittedBy(0, e), LockIds) + z[e]
               /\ custody'[e] = custody[e] + h[e] + z[e]
    <3>1. h[e] = 0 /\ z[e] = (IF e = d THEN k ELSE 0) /\ z[e] \in Int
      OBVIOUS
    <3>2. SumFunctionOnSet(HeldBy(e), Treasuries)' = SumFunctionOnSet(HeldBy(e), Treasuries)
      BY HeldSame DEF ledgerVars
    <3>3. SumFunctionOnSet(HeldBy(e), Treasuries) \in Nat /\ custody[e] \in Nat
      BY <1>2, SumsOfNumbers DEF IInv, TypeInv
    <3>4. SumFunctionOnSet(CommittedBy(0, e), LockIds)' =
            SumFunctionOnSet(CommittedBy(0, e), LockIds) + z[e]
      BY <1>4, <3>1
    <3>5. custody'[e] = custody[e] + z[e]
      BY <3>1
    <3> HIDE DEF h, z
    <3> QED BY <3>1, <3>2, <3>3, <3>4, <3>5
  <2> HIDE DEF h, z
  <2> QED BY <2>1, CustodyFollows DEF IInv, LedgerAgrees
<1>6. LocksAreCounted'
  BY CountsFollow DEF IInv, LedgerAgrees, Commits
<1> QED BY <1>1, <1>4, <1>5, <1>6 DEF IInv, LedgerAgrees

\* A dispute moves no money (DisputeEscrow).
LEMMA DisputeEscrowStep ==
  ASSUME IInv, NEW by \in Accounts, NEW i \in LockIds, DisputeEscrow(by, i)
  PROVE  IInv'
<1> DEFINE new == [locks[i] EXCEPT !.disputed = TRUE]
<1>1. locks[i] \in Locks /\ WellFormed(locks[i]) /\ locks[i].active /\ locks[i] # None
  BY DEF DisputeEscrow, conditional, Live, IInv, TypeInv, LocksInv
<1>2. locks' = [locks EXCEPT ![i] = new]
      /\ UNCHANGED <<ledgerVars, lockSeq, activeLocks, bankVars, now>>
  BY DEF DisputeEscrow
<1>3. new \in Locks /\ new # None
  <2>1. new \in Locks
    BY <1>1 DEF Locks
  <2> HIDE DEF new
  <2> QED BY <2>1, NoneAssumption
<1>4. /\ new.active = locks[i].active /\ new.released = locks[i].released
      /\ new.amount = locks[i].amount /\ new.treasury = locks[i].treasury
      /\ new.denom = locks[i].denom /\ new.kind = locks[i].kind /\ new.start = locks[i].start
      /\ new.cliff = locks[i].cliff /\ new.end = locks[i].end
  BY <1>1 DEF Locks
<1> HIDE DEF new
<1>5. locks'[i] = new /\ OnlyLock(i)
  BY <1>2 DEF OnlyLock, IInv, TypeInv
<1>6. \A j \in LockIds : (locks'[j] = None <=> locks[j] = None)
  BY <1>1, <1>3, <1>5 DEF OnlyLock
<1>7. TypeInv'
  <2>1. locks' \in [LockIds -> Locks \cup {None}]
    BY <1>2, <1>3 DEF IInv, TypeInv
  <2> QED BY <1>2, <1>6, <2>1 DEF IInv, TypeInv, ledgerVars, bankVars
<1>8. LocksInv'
  BY <1>1, <1>4, <1>5 DEF IInv, LocksInv, OnlyLock, WellFormed
<1>9. \A j \in LockIds : /\ Live(j)' <=> Live(j)
                         /\ locks[j] # None => /\ locks'[j].treasury = locks[j].treasury
                                               /\ locks'[j].denom = locks[j].denom
                                               /\ locks'[j].amount = locks[j].amount
                                               /\ locks'[j].released = locks[j].released
  BY <1>4, <1>5, <1>6 DEF OnlyLock, Live
<1>10. \A t, d : CommittedBy(t, d)' = CommittedBy(t, d) /\ HeldBy(d)' = HeldBy(d)
  BY <1>2, <1>9 DEF CommittedBy, HeldBy, Live, Remaining, ledgerVars
<1>11. \A t : LiveOf(t)' = LiveOf(t)
  BY <1>9 DEF LiveOf, Live
<1>12. LockedIsHeld' /\ LockedIsCommitted' /\ CustodyIsOwned'
  BY <1>2, <1>10 DEF IInv, LedgerAgrees, LockedIsHeld, LockedIsCommitted, CustodyIsOwned,
                     ledgerVars, bankVars
<1>13. LocksAreCounted'
  BY <1>2, <1>11 DEF IInv, LedgerAgrees, LocksAreCounted, LiveOf
<1> QED BY <1>7, <1>8, <1>12, <1>13 DEF IInv, LedgerAgrees

\* An escrow is paid into the module account in full (OpenEscrow).
LEMMA OpenEscrowStep ==
  ASSUME IInv, NEW deal \in Deals, NEW d \in Denoms, NEW amount \in Amounts,
         OpenEscrow(deal[1], deal[2], deal[3], d, amount)
  PROVE  IInv'
<1> DEFINE i == lockSeq
           new == [kind |-> "conditional", treasury |-> 0, beneficiary |-> deal[2], denom |-> d,
                   amount |-> amount, released |-> 0, start |-> 0, cliff |-> 0, end |-> 0,
                   intervals |-> 0, revocable |-> FALSE, active |-> TRUE,
                   depositor |-> deal[1], moderator |-> deal[3], disputed |-> FALSE]
<1>1. i \in LockIds /\ locks[i] = None
  BY DEF OpenEscrow, IInv, TypeInv, LockIds
<1>2. /\ locks' = [locks EXCEPT ![i] = new] /\ lockSeq' = i + 1
      /\ amount <= outside[d]
      /\ custody' = [custody EXCEPT ![d] = @ + amount]
      /\ outside' = [outside EXCEPT ![d] = @ - amount]
      /\ UNCHANGED <<ledgerVars, activeLocks, collected, now>>
  BY DEF OpenEscrow, TakeIn
<1>3. /\ amount \in Nat /\ 0 \in 0 .. MaxTreasuries
      /\ deal[1] \in Accounts /\ deal[2] \in Accounts /\ deal[3] \in Accounts
  BY TreasuryAssumption
<1>4. new \in Locks /\ new # None
  <2>1. new \in Locks
    BY <1>3 DEF Locks
  <2> HIDE DEF new
  <2> QED BY <2>1, NoneAssumption
<1>5. WellFormed(new)
  BY <1>3 DEF WellFormed
<1>6. /\ new.active = TRUE /\ new.treasury = 0 /\ new.denom = d
      /\ new.amount = amount /\ new.released = 0
  OBVIOUS
<1> HIDE DEF new
<1>7. locks'[i] = new /\ OnlyLock(i)
  BY <1>1, <1>2 DEF OnlyLock, IInv, TypeInv
<1>8. TypeInv'
  <2>1. locks' \in [LockIds -> Locks \cup {None}]
    BY <1>2, <1>4 DEF IInv, TypeInv
  <2>2. lockSeq' \in Nat \ {0} /\ \A j \in LockIds : j >= lockSeq' => locks'[j] = None
    BY <1>1, <1>2, <1>7 DEF IInv, TypeInv, OnlyLock, LockIds
  <2>3. custody' \in [Denoms -> Nat] /\ outside' \in [Denoms -> Nat]
    BY <1>2, <1>3 DEF IInv, TypeInv
  <2> QED BY <1>2, <2>1, <2>2, <2>3 DEF IInv, TypeInv, ledgerVars
<1>9. LocksInv'
  BY <1>5, <1>7 DEF IInv, LocksInv, OnlyLock
<1> HIDE DEF i
<1>10. Commits(i, 0, d, amount)
  <2> SUFFICES ASSUME NEW u \in 0 .. MaxTreasuries, NEW e \in Denoms
               PROVE  CommittedBy(u, e)'[i]
                        = CommittedBy(u, e)[i] + (IF u = 0 /\ e = d THEN amount ELSE 0)
    BY <1>7 DEF Commits
  <2>1. CommittedBy(u, e)[i] = 0
    BY <1>1 DEF CommittedBy, Live
  <2>2. CommittedBy(u, e)'[i] = IF 0 = u /\ d = e THEN amount - 0 ELSE 0
    BY <1>1, <1>4, <1>6, <1>7 DEF CommittedBy, Live, Remaining
  <2> QED BY <1>3, <2>1, <2>2
<1>11. \A t \in Treasuries : i \notin LiveOf(t) /\ i \notin LiveOf(t)'
  BY <1>1, <1>4, <1>6, <1>7 DEF LiveOf, Live, Treasuries
<1>12. ASSUME NEW e \in Denoms PROVE custody'[e] = custody[e] + (IF e = d THEN amount ELSE 0)
  <2>1. custody[e] \in Nat
    BY DEF IInv, TypeInv
  <2> QED BY <1>2, <1>3, <2>1 DEF IInv, TypeInv
<1> QED BY <1>1, <1>2, <1>3, <1>8, <1>9, <1>10, <1>11, <1>12, EscrowStep

\* An escrow pays what it holds, at once and once (settle).
LEMMA SettleStep ==
  ASSUME IInv, NEW i \in LockIds, NEW a, conditional(i), settle(i, a)
  PROVE  IInv'
<1> DEFINE l == locks[i]
           d == l.denom
           k == 0 - l.amount
           new == [l EXCEPT !.released = l.amount, !.active = FALSE, !.disputed = FALSE]
<1>1. /\ l \in Locks /\ WellFormed(l) /\ l.active /\ l # None
      /\ l.kind = "conditional"
  BY DEF conditional, Live, IInv, TypeInv, LocksInv
<1>2. l.released = 0 /\ l.treasury = 0 /\ l.amount \in Nat /\ d \in Denoms
  BY <1>1 DEF WellFormed, Locks
<1>3. locks' = [locks EXCEPT ![i] = new]
  BY <1>1 DEF settle, Locks, IInv, TypeInv
<1>4. /\ l.amount <= custody[d]
      /\ custody' = [custody EXCEPT ![d] = @ - l.amount]
      /\ outside' = [outside EXCEPT ![d] = @ + l.amount]
      /\ UNCHANGED <<ledgerVars, lockSeq, activeLocks, collected, now>>
  BY DEF settle, Pay
<1>5. new \in Locks /\ new # None
  <2>1. new \in Locks
    BY <1>1, <1>2 DEF Locks
  <2> HIDE DEF new
  <2> QED BY <2>1, NoneAssumption
<1>6. /\ new.active = FALSE /\ new.released = l.amount /\ new.amount = l.amount
      /\ new.treasury = 0 /\ new.kind = "conditional"
  BY <1>1, <1>2 DEF Locks
<1>7. WellFormed(new)
  BY <1>2, <1>6 DEF WellFormed
<1> HIDE DEF new
<1>8. locks'[i] = new /\ OnlyLock(i)
  BY <1>3 DEF OnlyLock, IInv, TypeInv
<1>9. TypeInv'
  <2>1. locks' \in [LockIds -> Locks \cup {None}]
    BY <1>3, <1>5 DEF IInv, TypeInv
  <2>2. custody' \in [Denoms -> Nat] /\ outside' \in [Denoms -> Nat]
    BY <1>2, <1>4 DEF IInv, TypeInv
  <2>3. \A j \in LockIds : j >= lockSeq => locks'[j] = None
    BY <1>1, <1>8 DEF IInv, TypeInv, OnlyLock
  <2> QED BY <1>4, <2>1, <2>2, <2>3 DEF IInv, TypeInv, ledgerVars
<1>10. LocksInv'
  BY <1>7, <1>8 DEF IInv, LocksInv, OnlyLock
<1>11. k \in Int
  BY <1>2
<1>12. Commits(i, 0, d, k)
  <2> SUFFICES ASSUME NEW u \in 0 .. MaxTreasuries, NEW e \in Denoms
               PROVE  CommittedBy(u, e)'[i]
                        = CommittedBy(u, e)[i] + (IF u = 0 /\ e = d THEN k ELSE 0)
    BY <1>8 DEF Commits
  <2>1. CommittedBy(u, e)[i] = IF 0 = u /\ d = e THEN l.amount - 0 ELSE 0
    BY <1>1, <1>2 DEF CommittedBy, Live, Remaining
  <2>2. CommittedBy(u, e)'[i] = 0
    BY <1>6, <1>8 DEF CommittedBy, Live
  <2> QED BY <1>2, <2>1, <2>2
<1>13. \A t \in Treasuries : i \notin LiveOf(t) /\ i \notin LiveOf(t)'
  BY <1>2, <1>6, <1>8 DEF LiveOf, Live, Treasuries
<1>14. ASSUME NEW e \in Denoms PROVE custody'[e] = custody[e] + (IF e = d THEN k ELSE 0)
  <2>1. custody[e] \in Nat
    BY DEF IInv, TypeInv
  <2>2. custody'[e] = IF e = d THEN custody[d] - l.amount ELSE custody[e]
    BY <1>4 DEF IInv, TypeInv
  <2> QED BY <1>2, <2>1, <2>2
<1> HIDE DEF d, k, l
<1>15. d \in Denoms
  BY <1>2
<1> QED BY <1>4, <1>9, <1>10, <1>11, <1>12, <1>13, <1>14, <1>15, EscrowStep
----------------------------------------------------------------------------
(* The ledger. *)

\* Nothing is held, promised or counted at the start.
LEMMA InitStep ==
  ASSUME Init
  PROVE  IInv
<1>1. TypeInv /\ LocksInv
  BY TreasuryAssumption DEF Init, TypeInv, LocksInv, ByDenom, LockIds
<1>2. ASSUME NEW t, NEW d PROVE SumFunctionOnSet(CommittedBy(t, d), LockIds) = 0
  <2>1. \A i \in LockIds : CommittedBy(t, d)[i] = 0
    BY DEF CommittedBy, Live, Init
  <2> QED BY <2>1, FiniteIds, SumZero
<1>3. ASSUME NEW d \in Denoms PROVE SumFunctionOnSet(HeldBy(d), Treasuries) = 0
  <2>1. \A t \in Treasuries : HeldBy(d)[t] = 0
    BY DEF HeldBy, Init, ByDenom
  <2> QED BY <2>1, FiniteIds, SumZero
<1>4. LockedIsHeld /\ LockedIsCommitted /\ CustodyIsOwned
  BY <1>2, <1>3 DEF Init, ByDenom, LockedIsHeld, LockedIsCommitted, CustodyIsOwned
<1>5. LocksAreCounted
  <2> SUFFICES ASSUME NEW t \in Treasuries PROVE activeLocks[t] = Cardinality(LiveOf(t))
    BY DEF LocksAreCounted, LiveOf
  <2>1. LiveOf(t) = {}
    BY DEF LiveOf, Live, Init
  <2>2. activeLocks[t] = 0
    BY TreasuryAssumption DEF Init, Treasuries
  <2> QED BY <2>1, <2>2, FS_EmptySet
<1> QED BY <1>1, <1>4, <1>5 DEF IInv, LedgerAgrees

\* Every message, every block and every restart keeps the ledger in order.
LEMMA NextStep ==
  ASSUME IInv, [Next]_vars
  PROVE  IInv'
<1>1. CASE \/ \E a \in Officers : CreateTreasury(a)
           \/ \E by \in Accounts, t \in Treasuries :
                \/ \E a \in Officers : SetAdmin(by, t, a)
                \/ \E a \in Accounts : RevokeRole(by, t, a)
                \/ \E paused \in BOOLEAN : SetPaused(by, t, paused)
                \/ \E g \in Grants : AssignRole(by, t, g[1], g[2])
                \/ \E d \in Denoms, p \in Policies : SetSpendPolicy(by, t, d, p)
           \/ \E by \in Accounts, p \in ParamChoices : UpdateParams(by, p)
  <2>1. Officers \subseteq Accounts
    BY TreasuryAssumption
  <2> QED BY <1>1, <2>1, ControlSteps
<1>2. CASE \E by \in Accounts, t \in Treasuries, a \in Payees, d \in Denoms, amount \in Amounts :
             Spend(by, t, a, d, amount)
  BY <1>2, SpendStep
<1>3. CASE \E by \in Accounts, t \in Treasuries, a \in Payees, d \in Denoms, amount \in Amounts,
              s \in Schedules : CreateLock(by, t, a, d, amount, s)
  BY <1>3, CreateLockStep
<1>4. CASE \E d \in Denoms, amount \in Amounts : PayFee(d, amount)
  BY <1>4, PayFeeStep
<1>5. CASE \E d \in Denoms, amount \in Amounts, t \in Treasuries : Deposit(t, d, amount)
  BY <1>5, DepositStep
<1>6. CASE \E d \in Denoms, amount \in Amounts, deal \in Deals :
             OpenEscrow(deal[1], deal[2], deal[3], d, amount)
  BY <1>6, OpenEscrowStep
<1>7. CASE \E by \in Accounts, i \in LockIds : ClaimLock(by, i)
  BY <1>7, ClaimLockStep
<1>8. CASE \E by \in Accounts, i \in LockIds : RevokeLock(by, i)
  BY <1>8, RevokeLockStep
<1>9. CASE \E by \in Accounts, i \in LockIds :
             \/ ReleaseEscrow(by, i)
             \/ \E payBeneficiary \in BOOLEAN : ResolveEscrow(by, i, payBeneficiary)
  <2>1. \E i \in LockIds : \E a : conditional(i) /\ settle(i, a)
    BY <1>9 DEF ReleaseEscrow, ResolveEscrow
  <2> QED BY <2>1, SettleStep
<1>10. CASE \E by \in Accounts, i \in LockIds : DisputeEscrow(by, i)
  BY <1>10, DisputeEscrowStep
<1>11. CASE NextBlock
  BY <1>11, NextBlockStep
<1>12. CASE ExportAndImport
  BY <1>12, RestartStep
<1>13. CASE UNCHANGED vars
  <2>1. UNCHANGED <<ledgerVars, lockVars, bankVars, now>>
    BY <1>13 DEF vars
  <2>2. UNCHANGED <<ledgerVars, lockVars, custody>> /\ UNCHANGED <<outside, collected, now>>
    BY <2>1 DEF bankVars
  <2> QED BY <2>2, QuietStep DEF IInv, TypeInv
<1> QED BY <1>1, <1>2, <1>3, <1>4, <1>5, <1>6, <1>7, <1>8, <1>9, <1>10, <1>11, <1>12, <1>13
        DEF Next

\* Whatever deposits, spends, locks, claims, revocations, escrows, fees and
\* restarts do, and in which order, the locked figure is what live locks commit
\* and no more than is held, the module account holds what the balances and the
\* escrows come to, and the counters count the locks (x/treasury/keeper/ledger.go).
THEOREM LedgerAlwaysAgrees == Spec => []LedgerAgrees
<1>1. Init => IInv
  BY InitStep
<1>2. IInv /\ [Next]_vars => IInv'
  BY NextStep
<1>3. IInv => LedgerAgrees
  BY DEF IInv
<1> QED BY <1>1, <1>2, <1>3, PTL DEF Spec
----------------------------------------------------------------------------
(* What vests keeps vesting. *)

\* A quotient grows with what is divided.
LEMMA DivMonotone ==
  ASSUME NEW a \in Nat, NEW b \in Nat, NEW c \in Nat \ {0}, a <= b
  PROVE  a \div c \in Nat /\ b \div c \in Nat /\ a \div c <= b \div c
<1> DEFINE p == a \div c
           q == b \div c
<1>1. p \in Nat /\ c * p <= a /\ q \in Nat /\ b < c * q + c
  BY SMT
<1> HIDE DEF p, q
<1>2. ASSUME q + 1 <= p PROVE FALSE
  <2>1. c * (q + 1) <= c * p /\ c * (q + 1) = c * q + c
    BY <1>1, <1>2, ProductBound, SMT
  <2>2. c * p \in Nat /\ c * q \in Nat
    BY <1>1, ProductBound
  <2> QED BY <1>1, <2>1, <2>2
<1>3. p <= q
  BY <1>1, <1>2
<1> QED BY <1>1, <1>3 DEF p, q

\* The terms of lock i stay, and the time.
SameTerms(i) ==
  /\ locks[i] # None /\ locks'[i] # None /\ now' = now
  /\ locks'[i].kind = locks[i].kind /\ locks'[i].amount = locks[i].amount
  /\ locks'[i].start = locks[i].start /\ locks'[i].cliff = locks[i].cliff
  /\ locks'[i].end = locks[i].end /\ locks'[i].intervals = locks[i].intervals

\* What has vested depends on nothing else (VestedAmount).
LEMMA TermsDecide ==
  ASSUME NEW i, SameTerms(i)
  PROVE  VestedAmount(locks[i])' = VestedAmount(locks[i])
BY DEF SameTerms, VestedAmount, Accrued

\* What has accrued of a lock after so many seconds.
AccruedAfter(l, seconds) ==
  IF l.intervals > 1
  THEN (l.amount * ((seconds * l.intervals) \div (l.end - l.start))) \div l.intervals
  ELSE (l.amount * seconds) \div (l.end - l.start)

\* More has accrued later (VestedAmount).
LEMMA AccruedGrows ==
  ASSUME NEW l \in Locks, l.start < l.end, NEW from \in Nat, NEW to \in Nat, from <= to
  PROVE  /\ AccruedAfter(l, from) \in Nat /\ AccruedAfter(l, to) \in Nat
         /\ AccruedAfter(l, from) <= AccruedAfter(l, to)
<1> DEFINE duration == l.end - l.start
<1>1. /\ l.amount \in Nat /\ l.intervals \in Nat /\ duration \in Nat \ {0}
  BY DEF Locks
<1>2. \A s : AccruedAfter(l, s) =
              IF l.intervals > 1 THEN (l.amount * ((s * l.intervals) \div duration)) \div l.intervals
                                 ELSE (l.amount * s) \div duration
  BY DEF AccruedAfter
<1> HIDE DEF duration
<1>3. CASE l.intervals > 1
  <2> DEFINE x == (from * l.intervals) \div duration
             y == (to * l.intervals) \div duration
  <2>1. /\ from * l.intervals \in Nat /\ to * l.intervals \in Nat
        /\ from * l.intervals <= to * l.intervals
    <3>1. /\ l.intervals * from \in Nat /\ l.intervals * to \in Nat
          /\ l.intervals * from <= l.intervals * to
      BY <1>1, ProductBound, SMT
    <3> QED BY <1>1, <3>1, SMT
  <2>2. x \in Nat /\ y \in Nat /\ x <= y
    BY <1>1, <2>1, DivMonotone
  <2> HIDE DEF x, y
  <2>3. l.amount * x \in Nat /\ l.amount * y \in Nat /\ l.amount * x <= l.amount * y
    BY <1>1, <2>2, ProductBound, SMT
  <2>4. /\ (l.amount * x) \div l.intervals \in Nat /\ (l.amount * y) \div l.intervals \in Nat
        /\ (l.amount * x) \div l.intervals <= (l.amount * y) \div l.intervals
    <3>1. l.intervals \in Nat \ {0}
      BY <1>1, <1>3
    <3> QED BY <2>3, <3>1, DivMonotone
  <2>5. /\ AccruedAfter(l, from) = (l.amount * x) \div l.intervals
        /\ AccruedAfter(l, to) = (l.amount * y) \div l.intervals
    BY <1>2, <1>3 DEF x, y
  <2> QED BY <2>4, <2>5
<1>4. CASE ~(l.intervals > 1)
  <2>1. l.amount * from \in Nat /\ l.amount * to \in Nat /\ l.amount * from <= l.amount * to
    BY <1>1, ProductBound, SMT
  <2>2. /\ (l.amount * from) \div duration \in Nat /\ (l.amount * to) \div duration \in Nat
        /\ (l.amount * from) \div duration <= (l.amount * to) \div duration
    BY <1>1, <2>1, DivMonotone
  <2> QED BY <1>2, <1>4, <2>2
<1> QED BY <1>3, <1>4

\* What vests is never unvested: time only adds to it (VestedAmount).
LEMMA VestedGrows ==
  ASSUME NEW i, locks[i] \in Locks, WellFormed(locks[i]), UNCHANGED locks,
         now \in Nat, now' \in Nat, now <= now'
  PROVE  VestedAmount(locks[i])' \in Int /\ VestedAmount(locks[i]) <= VestedAmount(locks[i])'
<1> DEFINE l == locks[i]
<1>1. VestedAmount(l) \in 0 .. l.amount /\ l.amount \in Nat
  BY VestedBounds DEF Locks
<1>2. l.end \in Nat /\ l.cliff \in Nat /\ l.start \in Nat
  BY DEF Locks
<1>3. Accrued(l) = AccruedAfter(l, now - l.start) /\ Accrued(l)' = AccruedAfter(l, now' - l.start)
  BY DEF Accrued, AccruedAfter
<1>4. CASE now' >= l.end
  <2>1. VestedAmount(l)' = l.amount
    BY <1>4 DEF VestedAmount
  <2> QED BY <1>1, <2>1
<1>5. CASE now' < l.end /\ now >= l.cliff /\ l.kind = "vesting"
  <2>1. l.start < l.end /\ l.start <= now
    BY <1>2, <1>5 DEF WellFormed
  <2>2. Accrued(l)' \in Int /\ Accrued(l) <= Accrued(l)'
    <3>1. now - l.start \in Nat /\ now' - l.start \in Nat /\ now - l.start <= now' - l.start
      BY <1>2, <2>1
    <3> QED BY <1>3, <2>1, <3>1, AccruedGrows
  <2>3. ~(now' >= l.end) /\ ~(now >= l.end) /\ now' >= l.cliff
    BY <1>2, <1>5
  <2>4. VestedAmount(l) = Accrued(l)
    BY <1>5, <2>3 DEF VestedAmount
  <2>5. VestedAmount(l)' = Accrued(l)'
    BY <1>5, <2>3 DEF VestedAmount
  <2> QED BY <2>2, <2>4, <2>5
<1>6. CASE now' < l.end /\ ~(now >= l.cliff /\ l.kind = "vesting")
  <2>1. ~(now' >= l.end) /\ ~(now >= l.end)
    BY <1>2, <1>6
  <2>2. VestedAmount(l) = 0
    BY <1>6, <2>1 DEF VestedAmount
  <2>3. CASE now' >= l.cliff /\ l.kind = "vesting"
    <3>1. VestedAmount(l)' = Accrued(l)'
      BY <2>1, <2>3 DEF VestedAmount
    <3>2. l.start < l.end /\ l.start <= now'
      BY <1>2, <2>3 DEF WellFormed
    <3>3. now' - l.start \in Nat /\ now' - l.start <= now' - l.start
      BY <1>2, <3>2
    <3>4. Accrued(l)' \in Nat
      BY <1>3, <3>2, <3>3, AccruedGrows
    <3> QED BY <2>2, <3>1, <3>4
  <2>4. CASE ~(now' >= l.cliff /\ l.kind = "vesting")
    <3>1. VestedAmount(l)' = 0
      BY <2>1, <2>4 DEF VestedAmount
    <3> QED BY <2>2, <3>1
  <2> QED BY <2>3, <2>4
<1> QED BY <1>2, <1>4, <1>5, <1>6
----------------------------------------------------------------------------
(* The promise behind the ledger. *)

\* A live lock has something left to pay, an escrow is earned from the start,
\* and nothing was paid before it vested.
Keeping(l) ==
  /\ l.active => l.released < l.amount
  /\ l.kind = "conditional" => l.end = 0
  /\ l.released <= VestedAmount(l)

KeptInv == \A i \in LockIds : locks[i] # None => Keeping(locks[i])

PInv == IInv /\ KeptInv

\* A function that changes nowhere is the same.
LEMMA SameTable ==
  ASSUME NEW S, NEW f, NEW g, f = [s \in S |-> f[s]], g = [s \in S |-> g[s]],
         \A s \in S : g[s] = f[s]
  PROVE  g = f
OBVIOUS

\* A function that changes in one place is the same but there.
LEMMA OneEntry ==
  ASSUME NEW S, NEW f, NEW g, NEW i \in S, NEW x, f = [s \in S |-> f[s]], g = [s \in S |-> g[s]],
         \A s \in S : s # i => g[s] = f[s], g[i] = x
  PROVE  g = [f EXCEPT ![i] = x]
OBVIOUS

\* What the promise sees are functions.
LEMMA Tables ==
  /\ Pledged = [i \in LockIds |-> Pledged[i]] /\ Pledged' = [i \in LockIds |-> Pledged'[i]]
  /\ PaidOut = [i \in LockIds |-> PaidOut[i]] /\ PaidOut' = [i \in LockIds |-> PaidOut'[i]]
  /\ Earned = [i \in LockIds |-> Earned[i]] /\ Earned' = [i \in LockIds |-> Earned'[i]]
  /\ Firm = [i \in LockIds |-> Firm[i]] /\ Firm' = [i \in LockIds |-> Firm'[i]]
  /\ Free = [t \in Treasuries |-> Free[t]] /\ Free' = [t \in Treasuries |-> Free'[t]]
  /\ \A t \in Treasuries : /\ Free[t] = [d \in Denoms |-> Free[t][d]]
                           /\ Free'[t] = [d \in Denoms |-> Free'[t][d]]
BY DEF Pledged, PaidOut, Earned, Firm, Free

\* The promise sees of a lock that is there what it has left, has paid and has
\* vested, and whether it can be revoked.
LEMMA SeenNow ==
  ASSUME NEW i \in LockIds
  PROVE  /\ locks[i] = None
              => Pledged[i] = 0 /\ PaidOut[i] = 0 /\ Earned[i] = 0 /\ Firm[i] = TRUE
         /\ locks[i] # None
              => /\ Pledged[i] = IF locks[i].active THEN Remaining(locks[i]) ELSE 0
                 /\ PaidOut[i] = locks[i].released
                 /\ Earned[i] = VestedAmount(locks[i])
                 /\ Firm[i] = ~locks[i].revocable
BY DEF Pledged, PaidOut, Earned, Firm, Live

\* The same of the state after a step.
LEMMA SeenNext ==
  ASSUME NEW i \in LockIds
  PROVE  /\ locks'[i] = None
              => Pledged'[i] = 0 /\ PaidOut'[i] = 0 /\ Earned'[i] = 0 /\ Firm'[i] = TRUE
         /\ locks'[i] # None
              => /\ Pledged'[i] = IF locks'[i].active THEN Remaining(locks[i])' ELSE 0
                 /\ PaidOut'[i] = locks'[i].released
                 /\ Earned'[i] = VestedAmount(locks[i])'
                 /\ Firm'[i] = ~locks'[i].revocable
BY DEF Pledged, PaidOut, Earned, Firm, Live

\* The other locks look as they did.
LEMMA OthersStay ==
  ASSUME NEW i, OnlyLock(i), now' = now
  PROVE  \A j \in LockIds : j # i => /\ Pledged'[j] = Pledged[j] /\ PaidOut'[j] = PaidOut[j]
                                     /\ Earned'[j] = Earned[j] /\ Firm'[j] = Firm[j]
<1> SUFFICES ASSUME NEW j \in LockIds, j # i
             PROVE  /\ Pledged'[j] = Pledged[j] /\ PaidOut'[j] = PaidOut[j]
                    /\ Earned'[j] = Earned[j] /\ Firm'[j] = Firm[j]
  OBVIOUS
<1>1. locks'[j] = locks[j]
  BY DEF OnlyLock
<1>2. Remaining(locks[j])' = Remaining(locks[j])
  BY <1>1 DEF Remaining
<1>3. VestedAmount(locks[j])' = VestedAmount(locks[j])
  BY <1>1 DEF VestedAmount, Accrued
<1>4. CASE locks[j] = None
  <2>1. Pledged[j] = 0 /\ PaidOut[j] = 0 /\ Earned[j] = 0 /\ Firm[j] = TRUE
    BY <1>4, SeenNow
  <2>2. Pledged'[j] = 0 /\ PaidOut'[j] = 0 /\ Earned'[j] = 0 /\ Firm'[j] = TRUE
    BY <1>1, <1>4, SeenNext
  <2> QED BY <2>1, <2>2
<1>5. CASE locks[j] # None
  <2>1. /\ Pledged[j] = IF locks[j].active THEN Remaining(locks[j]) ELSE 0
        /\ PaidOut[j] = locks[j].released /\ Earned[j] = VestedAmount(locks[j])
        /\ Firm[j] = ~locks[j].revocable
    BY <1>5, SeenNow
  <2>2. /\ Pledged'[j] = IF locks'[j].active THEN Remaining(locks[j])' ELSE 0
        /\ PaidOut'[j] = locks'[j].released /\ Earned'[j] = VestedAmount(locks[j])'
        /\ Firm'[j] = ~locks'[j].revocable
    BY <1>1, <1>5, SeenNext
  <2> QED BY <1>1, <1>2, <1>3, <2>1, <2>2
<1> QED BY <1>4, <1>5

\* One lock changes: all locks keep what they promised if that one does.
LEMMA KeptByOne ==
  ASSUME KeptInv, NEW i \in LockIds, OnlyLock(i), now' = now,
         locks'[i].active => locks'[i].released < locks'[i].amount,
         locks'[i].kind = "conditional" => locks'[i].end = 0,
         locks'[i].released <= VestedAmount(locks[i])'
  PROVE  KeptInv'
<1> SUFFICES ASSUME NEW j \in LockIds, locks'[j] # None PROVE Keeping(locks[j])'
  BY DEF KeptInv
<1>1. CASE j = i
  BY <1>1 DEF Keeping
<1>2. CASE j # i
  <2>1. locks'[j] = locks[j]
    BY <1>2 DEF OnlyLock
  <2>2. VestedAmount(locks[j])' = VestedAmount(locks[j])
    BY <2>1 DEF VestedAmount, Accrued
  <2> QED BY <2>1, <2>2 DEF KeptInv, Keeping
<1> QED BY <1>1, <1>2

\* What is free in one treasury and currency changes by k.
LEMMA FreeUpdate ==
  ASSUME IInv, IInv', NEW t \in Treasuries, NEW d \in Denoms, NEW k \in Int,
         \A u \in Treasuries, e \in Denoms :
           total'[u][e] - locked'[u][e]
             = (total[u][e] - locked[u][e]) + (IF u = t /\ e = d THEN k ELSE 0)
  PROVE  Free' = [Free EXCEPT ![t][d] = @ + k]
<1>1. \A u \in Treasuries, e \in Denoms :
        Free[u][e] = total[u][e] - locked[u][e] /\ Free'[u][e] = total'[u][e] - locked'[u][e]
  BY DEF Free, Available
<1>2. \A u \in Treasuries, e \in Denoms : Free[u][e] \in Int
  <2>1. \A u \in Treasuries, e \in Denoms : total[u][e] \in Nat /\ locked[u][e] \in Nat
    BY DEF IInv, TypeInv
  <2> QED BY <1>1, <2>1
<1>3. ASSUME NEW u \in Treasuries, NEW e \in Denoms
      PROVE  Free'[u][e] = IF u = t /\ e = d THEN Free[t][d] + k ELSE Free[u][e]
  BY <1>1, <1>2
<1>4. Free'[t] = [Free[t] EXCEPT ![d] = Free[t][d] + k]
  BY <1>3, Tables, OneEntry
<1>5. \A u \in Treasuries : u # t => Free'[u] = Free[u]
  BY <1>3, Tables, SameTable
<1>6. Free' = [Free EXCEPT ![t] = Free'[t]]
  BY <1>5, Tables, OneEntry
<1> HIDE DEF Free
<1> QED BY <1>4, <1>6

\* What is free stays if what is held and what is locked change by as much.
LEMMA FreeSame ==
  ASSUME \A u \in Treasuries, e \in Denoms :
           total'[u][e] - locked'[u][e] = total[u][e] - locked[u][e]
  PROVE  Free' = Free
<1>1. \A u \in Treasuries, e \in Denoms : Free'[u][e] = Free[u][e]
  BY DEF Free, Available
<1>2. \A u \in Treasuries : Free'[u] = Free[u]
  BY <1>1, Tables, SameTable
<1> QED BY <1>2, Tables, SameTable

\* Nothing the promise sees has changed but what was earned.
LEMMA LocksSeenSame ==
  ASSUME UNCHANGED locks
  PROVE  UNCHANGED <<Pledged, PaidOut, Firm>>
BY DEF Pledged, PaidOut, Firm, Live, Remaining

\* Time passes: more may have been earned, and nothing paid too early becomes so.
LEMMA TimeEarns ==
  ASSUME PInv, UNCHANGED locks, now' \in Nat, now <= now'
  PROVE  (\A i \in LockIds : Earned'[i] >= Earned[i]) /\ KeptInv'
<1>1. ASSUME NEW i \in LockIds
      PROVE  /\ Earned'[i] >= Earned[i]
             /\ locks[i] # None => Keeping(locks[i])'
  <2>1. CASE locks[i] = None
    <3>1. Earned[i] = 0
      BY <2>1, SeenNow
    <3>2. Earned'[i] = 0
      BY <2>1, SeenNext
    <3> QED BY <2>1, <3>1, <3>2
  <2>2. CASE locks[i] # None
    <3>1. /\ locks[i] \in Locks /\ WellFormed(locks[i]) /\ Keeping(locks[i]) /\ now \in Nat
      BY <2>2 DEF PInv, IInv, TypeInv, LocksInv, KeptInv
    <3>2. VestedAmount(locks[i])' \in Int /\ VestedAmount(locks[i]) <= VestedAmount(locks[i])'
      BY <3>1, VestedGrows
    <3>3. VestedAmount(locks[i]) \in Nat /\ locks[i].released \in Nat
      <4>1. VestedAmount(locks[i]) \in 0 .. locks[i].amount
        BY <3>1, VestedBounds
      <4> QED BY <3>1, <4>1 DEF Locks
    <3>4. Earned[i] = VestedAmount(locks[i]) /\ Earned'[i] = VestedAmount(locks[i])'
      BY <2>2, SeenNow, SeenNext
    <3>5. locks[i].released <= VestedAmount(locks[i])'
      BY <3>1, <3>2, <3>3 DEF Keeping
    <3>6. Keeping(locks[i])'
      BY <3>1, <3>5 DEF Keeping
    <3> QED BY <3>2, <3>3, <3>4, <3>6
  <2> QED BY <2>1, <2>2
<1> QED BY <1>1 DEF KeptInv
----------------------------------------------------------------------------
(* Every step of the module is a step of the promise. *)

Steps == Promise!PromiseNext \/ UNCHANGED Promise!promiseVars

\* Locks, balances and time stay.
LEMMA QuietPromise ==
  ASSUME PInv, UNCHANGED <<ledgerVars, locks, now>>
  PROVE  KeptInv' /\ Steps
<1>1. KeptInv'
  BY DEF PInv, KeptInv, Keeping, VestedAmount, Accrued
<1>2. Free' = Free
  BY FreeSame DEF ledgerVars
<1>3. UNCHANGED <<Pledged, PaidOut, Firm>>
  BY LocksSeenSame
<1>4. Earned' = Earned
  BY DEF Earned, VestedAmount, Accrued
<1>5. UNCHANGED Promise!promiseVars
  BY <1>2, <1>3, <1>4 DEF Promise!promiseVars
<1> QED BY <1>1, <1>5 DEF Steps

\* Money that comes in is free, and time only earns (Deposit, BeginBlocker).
LEMMA ReceivePromise ==
  ASSUME PInv, IInv', NEW t \in Treasuries, UNCHANGED <<locks, locked>>,
         now' \in Nat, now <= now',
         \A u \in Treasuries, e \in Denoms :
           /\ total'[u][e] >= total[u][e]
           /\ u # t => total'[u][e] = total[u][e]
  PROVE  KeptInv' /\ Steps
<1>1. (\A i \in LockIds : Earned'[i] >= Earned[i]) /\ KeptInv'
  BY TimeEarns
<1>2. UNCHANGED <<Pledged, PaidOut, Firm>>
  BY LocksSeenSame
<1>3. \A d \in Denoms : Free'[t][d] >= Free[t][d]
  <2> SUFFICES ASSUME NEW d \in Denoms PROVE Free'[t][d] >= Free[t][d]
    OBVIOUS
  <2>1. total[t][d] \in Nat /\ locked[t][d] \in Nat /\ total'[t][d] \in Nat
    BY DEF PInv, IInv, TypeInv
  <2>2. Free[t][d] = total[t][d] - locked[t][d] /\ Free'[t][d] = total'[t][d] - locked[t][d]
    BY DEF Free, Available
  <2> QED BY <2>1, <2>2
<1>4. Free' = [Free EXCEPT ![t] = Free'[t]]
  <2>1. \A u \in Treasuries : u # t => \A e \in Denoms : Free'[u][e] = Free[u][e]
    BY DEF Free, Available
  <2>2. \A u \in Treasuries : u # t => Free'[u] = Free[u]
    BY <2>1, Tables, SameTable
  <2> QED BY <2>2, Tables, OneEntry
<1>5. Promise!Receive(t)
  BY <1>1, <1>2, <1>3, <1>4 DEF Promise!Receive, Promise!Earning
<1> QED BY <1>1, <1>5 DEF Steps, Promise!PromiseNext

\* What is paid out of free money was free (Spend).
LEMMA SpendPromise ==
  ASSUME PInv, IInv', NEW by \in Accounts, NEW t \in Treasuries, NEW a \in Payees,
         NEW d \in Denoms, NEW amount \in Amounts, Spend(by, t, a, d, amount)
  PROVE  KeptInv' /\ Steps
<1>1. amount \in Nat /\ UNCHANGED <<locks, locked, now>>
  BY TreasuryAssumption DEF Spend, lockVars
<1>2. KeptInv'
  BY <1>1 DEF PInv, KeptInv, Keeping, VestedAmount, Accrued
<1>3. UNCHANGED <<Pledged, PaidOut, Firm>>
  BY <1>1, LocksSeenSame
<1>4. Earned' = Earned
  BY <1>1 DEF Earned, VestedAmount, Accrued
<1>5. amount <= Free[t][d]
  BY DEF Spend, SpendIsAllowed, Free
<1>6. ASSUME NEW u \in Treasuries, NEW e \in Denoms
      PROVE  total'[u][e] - locked'[u][e]
               = (total[u][e] - locked[u][e]) + (IF u = t /\ e = d THEN 0 - amount ELSE 0)
  <2>1. total[u][e] \in Nat /\ locked[u][e] \in Nat
    BY DEF PInv, IInv, TypeInv
  <2>2. total'[u][e] = IF u = t /\ e = d THEN total[u][e] - amount ELSE total[u][e]
    BY DEF Spend, PInv, IInv, TypeInv
  <2> QED BY <1>1, <2>1, <2>2
<1>7. 0 - amount \in Int
  BY <1>1
<1>8. Free' = [Free EXCEPT ![t][d] = @ + (0 - amount)]
  BY <1>6, <1>7, FreeUpdate DEF PInv
<1>9. Free[t][d] + (0 - amount) = Free[t][d] - amount
  <2>1. total[t][d] \in Nat /\ locked[t][d] \in Nat /\ Free[t][d] = total[t][d] - locked[t][d]
    BY DEF PInv, IInv, TypeInv, Free, Available
  <2> QED BY <1>1, <2>1
<1>10. Free' = [Free EXCEPT ![t][d] = @ - amount]
  BY <1>8, <1>9
<1>11. Promise!PayOut(t, d, amount)
  BY <1>3, <1>4, <1>5, <1>10 DEF Promise!PayOut
<1> QED BY <1>2, <1>11 DEF Steps, Promise!PromiseNext

\* A lock that opens sets its amount aside under a number that had nothing.
LEMMA OpenedLock ==
  ASSUME PInv, NEW i \in LockIds, NEW new \in Locks, NEW amount \in Nat \ {0},
         locks[i] = None, locks' = [locks EXCEPT ![i] = new], now' = now,
         new.amount = amount, new.released = 0, new.active = TRUE,
         new.kind = "conditional" => new.end = 0, WellFormed(new)
  PROVE  /\ KeptInv' /\ Promise!Make(i, amount)
<1>1. locks'[i] = new /\ OnlyLock(i) /\ new # None
  BY NoneAssumption DEF PInv, IInv, TypeInv, OnlyLock
<1>2. VestedAmount(locks[i])' = VestedAmount(new)
  BY <1>1 DEF VestedAmount, Accrued
<1>3. VestedAmount(new) \in 0 .. amount
  BY VestedBounds DEF PInv, IInv, TypeInv
<1>4. KeptInv'
  BY <1>1, <1>2, <1>3, KeptByOne DEF PInv
<1>5. Pledged[i] = 0 /\ PaidOut[i] = 0
  BY SeenNow
<1>6. Pledged'[i] = amount /\ PaidOut'[i] = 0
  <2>1. Pledged'[i] = Remaining(locks[i])' /\ PaidOut'[i] = 0
    BY <1>1, SeenNext
  <2>2. Remaining(locks[i])' = amount - 0
    BY <1>1 DEF Remaining
  <2> QED BY <2>1, <2>2
<1>7. \A j \in LockIds : j # i => /\ Pledged'[j] = Pledged[j] /\ PaidOut'[j] = PaidOut[j]
                                  /\ Earned'[j] = Earned[j] /\ Firm'[j] = Firm[j]
  BY <1>1, OthersStay
<1>8. Pledged' = [Pledged EXCEPT ![i] = amount]
  BY <1>6, <1>7, Tables, OneEntry
<1>9. PaidOut' = PaidOut
  BY <1>5, <1>6, <1>7, Tables, SameTable
<1> QED BY <1>4, <1>5, <1>7, <1>8, <1>9 DEF Promise!Make

\* A lock takes what was free (CreateLock).
LEMMA CreateLockPromise ==
  ASSUME PInv, IInv', NEW by \in Accounts, NEW t \in Treasuries, NEW a \in Payees,
         NEW d \in Denoms, NEW amount \in Amounts, NEW s \in Schedules,
         CreateLock(by, t, a, d, amount, s)
  PROVE  KeptInv' /\ Steps
<1> DEFINE i == lockSeq
           new == [kind |-> s.kind, treasury |-> t, beneficiary |-> a, denom |-> d,
                   amount |-> amount, released |-> 0, start |-> s.start, cliff |-> s.cliff,
                   end |-> s.end, intervals |-> s.intervals, revocable |-> s.revocable,
                   active |-> TRUE, depositor |-> None, moderator |-> None, disputed |-> FALSE]
<1>1. i \in LockIds /\ locks[i] = None
  BY DEF CreateLock, PInv, IInv, TypeInv, LockIds
<1>2. /\ locks' = [locks EXCEPT ![i] = new]
      /\ locked' = [locked EXCEPT ![t][d] = @ + amount]
      /\ UNCHANGED <<total, now>>
  BY DEF CreateLock
<1>3. amount \in Nat \ {0} /\ amount <= Available(t, d)
  BY TreasuryAssumption DEF CreateLock
<1>4. s.kind \in {"time", "vesting"} /\ new.kind = s.kind
  BY TreasuryAssumption DEF ScheduleSets
<1>5. new \in Locks
  <2>1. /\ t \in 0 .. MaxTreasuries /\ a \in Accounts
        /\ s.revocable \in BOOLEAN /\ s.start \in Nat /\ s.cliff \in Nat /\ s.end \in Nat
        /\ s.intervals \in Nat /\ s.kind \in {"time", "vesting", "conditional"}
    BY TreasuryAssumption DEF Treasuries, ScheduleSets
  <2> QED BY <1>3, <2>1 DEF Locks
<1>6. new.amount = amount /\ new.released = 0 /\ new.active = TRUE /\ new.kind # "conditional"
  BY <1>4
<1>7. WellFormed(new)
  <2>1. s.start < s.end /\ s.start <= s.cliff
    BY DEF CreateLock, ValidateSchedule
  <2> QED BY <1>3, <1>4, <2>1 DEF WellFormed
<1> HIDE DEF new
<1> HIDE DEF i
<1>9. KeptInv' /\ Promise!Make(i, amount)
  BY <1>1, <1>2, <1>3, <1>5, <1>6, <1>7, OpenedLock
<1>10. amount <= Free[t][d]
  BY <1>3 DEF Free
<1>11. Free' = [Free EXCEPT ![t][d] = @ - amount]
  <2>1. ASSUME NEW u \in Treasuries, NEW e \in Denoms
        PROVE  total'[u][e] - locked'[u][e]
                 = (total[u][e] - locked[u][e]) + (IF u = t /\ e = d THEN 0 - amount ELSE 0)
    <3>1. total[u][e] \in Nat /\ locked[u][e] \in Nat
      BY DEF PInv, IInv, TypeInv
    <3>2. locked'[u][e] = IF u = t /\ e = d THEN locked[u][e] + amount ELSE locked[u][e]
      BY <1>2 DEF PInv, IInv, TypeInv
    <3> QED BY <1>2, <1>3, <3>1, <3>2
  <2>2. 0 - amount \in Int
    BY <1>3
  <2>3. Free' = [Free EXCEPT ![t][d] = @ + (0 - amount)]
    BY <2>1, <2>2, FreeUpdate DEF PInv
  <2>4. Free[t][d] + (0 - amount) = Free[t][d] - amount
    <3>1. total[t][d] \in Nat /\ locked[t][d] \in Nat /\ Free[t][d] = total[t][d] - locked[t][d]
      BY DEF PInv, IInv, TypeInv, Free, Available
    <3> QED BY <1>3, <3>1
  <2> QED BY <2>3, <2>4
<1>12. Promise!SetAside(i, t, d, amount)
  BY <1>9, <1>10, <1>11 DEF Promise!SetAside
<1> QED BY <1>1, <1>9, <1>12 DEF Steps, Promise!PromiseNext

\* An escrow is a promise somebody else pays in (OpenEscrow).
LEMMA OpenEscrowPromise ==
  ASSUME PInv, IInv', NEW deal \in Deals, NEW d \in Denoms, NEW amount \in Amounts,
         OpenEscrow(deal[1], deal[2], deal[3], d, amount)
  PROVE  KeptInv' /\ Steps
<1> DEFINE i == lockSeq
           new == [kind |-> "conditional", treasury |-> 0, beneficiary |-> deal[2], denom |-> d,
                   amount |-> amount, released |-> 0, start |-> 0, cliff |-> 0, end |-> 0,
                   intervals |-> 0, revocable |-> FALSE, active |-> TRUE,
                   depositor |-> deal[1], moderator |-> deal[3], disputed |-> FALSE]
<1>1. i \in LockIds /\ locks[i] = None
  BY DEF OpenEscrow, PInv, IInv, TypeInv, LockIds
<1>2. locks' = [locks EXCEPT ![i] = new] /\ UNCHANGED <<ledgerVars, now>>
  BY DEF OpenEscrow
<1>3. amount \in Nat \ {0}
  BY TreasuryAssumption
<1>4. new \in Locks
  <2>1. /\ amount \in Nat /\ 0 \in 0 .. MaxTreasuries
        /\ deal[1] \in Accounts /\ deal[2] \in Accounts /\ deal[3] \in Accounts
    BY TreasuryAssumption
  <2> QED BY <2>1 DEF Locks
<1>5. /\ new.amount = amount /\ new.released = 0 /\ new.active = TRUE /\ new.end = 0
      /\ WellFormed(new)
  BY <1>3 DEF WellFormed
<1> HIDE DEF new, i
<1>6. KeptInv' /\ Promise!Make(i, amount)
  BY <1>1, <1>2, <1>3, <1>4, <1>5, OpenedLock
<1>7. Free' = Free
  BY <1>2, FreeSame DEF ledgerVars
<1>8. Promise!PayIn(i, amount)
  BY <1>6, <1>7 DEF Promise!PayIn
<1> QED BY <1>1, <1>6, <1>8 DEF Steps, Promise!PromiseNext

\* An entry that loses so much has that much less, and every other stays.
LEMMA LedgerEntry ==
  ASSUME NEW T, NEW D, NEW f \in [T -> [D -> Nat]], NEW g, NEW t \in T, NEW d \in D, NEW x,
         g = [f EXCEPT ![t][d] = @ - x], NEW u \in T, NEW e \in D
  PROVE  g[u][e] = IF u = t /\ e = d THEN f[u][e] - x ELSE f[u][e]
OBVIOUS

\* The lock that a step pays out of: what it has left, has paid and has vested.
LEMMA LiveSeen ==
  ASSUME PInv, NEW i \in LockIds, Live(i)
  PROVE  /\ locks[i] # None /\ locks[i] \in Locks /\ Keeping(locks[i]) /\ locks[i].active
         /\ locks[i].amount \in Nat /\ locks[i].released \in Nat /\ locks[i].denom \in Denoms
         /\ VestedAmount(locks[i]) \in 0 .. locks[i].amount
         /\ locks[i].released < locks[i].amount /\ locks[i].released <= VestedAmount(locks[i])
         /\ Pledged[i] = Remaining(locks[i]) /\ PaidOut[i] = locks[i].released
         /\ Earned[i] = VestedAmount(locks[i]) /\ Firm[i] = ~locks[i].revocable
<1>1. locks[i] # None /\ locks[i] \in Locks /\ WellFormed(locks[i]) /\ Keeping(locks[i]) /\ now \in Nat
  BY DEF PInv, IInv, TypeInv, LocksInv, KeptInv, Live
<1>2. VestedAmount(locks[i]) \in 0 .. locks[i].amount
  BY <1>1, VestedBounds
<1>3. locks[i].active /\ locks[i].released < locks[i].amount /\ locks[i].released <= VestedAmount(locks[i])
  BY <1>1 DEF Keeping, Live
<1>4. locks[i].amount \in Nat /\ locks[i].released \in Nat /\ locks[i].denom \in Denoms
  BY <1>1 DEF Locks
<1>5. /\ Pledged[i] = Remaining(locks[i]) /\ PaidOut[i] = locks[i].released
      /\ Earned[i] = VestedAmount(locks[i]) /\ Firm[i] = ~locks[i].revocable
  BY <1>1, <1>3, SeenNow
<1> QED BY <1>1, <1>2, <1>3, <1>4, <1>5

\* What a step that pays out of one lock, and perhaps closes it, looks like.
LEMMA PaidLock ==
  ASSUME PInv, NEW i \in LockIds, Live(i), NEW new \in Locks, NEW paid \in Nat,
         NEW active \in BOOLEAN,
         locks' = [locks EXCEPT ![i] = new], now' = now,
         new.active = active, new.released = locks[i].released + paid,
         new.kind = locks[i].kind, new.amount = locks[i].amount, new.start = locks[i].start,
         new.cliff = locks[i].cliff, new.end = locks[i].end, new.intervals = locks[i].intervals,
         new.revocable = locks[i].revocable,
         locks[i].released + paid <= VestedAmount(locks[i]),
         active => locks[i].released + paid < locks[i].amount
  PROVE  /\ KeptInv'
         /\ Pledged' = [Pledged EXCEPT ![i] = IF active THEN Remaining(locks[i]) - paid ELSE 0]
         /\ PaidOut' = [PaidOut EXCEPT ![i] = @ + paid]
         /\ Earned' = Earned /\ Firm' = Firm
<1>1. locks'[i] = new /\ OnlyLock(i) /\ new # None
  BY NoneAssumption DEF PInv, IInv, TypeInv, OnlyLock
<1>2. VestedAmount(locks[i])' = VestedAmount(locks[i])
  BY <1>1, TermsDecide, LiveSeen DEF SameTerms
<1>3. KeptInv'
  <2>1. locks[i].kind = "conditional" => locks[i].end = 0
    BY LiveSeen DEF Keeping
  <2> QED BY <1>1, <1>2, <2>1, KeptByOne DEF PInv
<1>4. /\ Pledged'[i] = IF active THEN Remaining(locks[i]) - paid ELSE 0
      /\ PaidOut'[i] = PaidOut[i] + paid
      /\ Earned'[i] = Earned[i] /\ Firm'[i] = Firm[i]
  <2>1. /\ Pledged'[i] = IF active THEN Remaining(locks[i])' ELSE 0
        /\ PaidOut'[i] = locks[i].released + paid
        /\ Earned'[i] = VestedAmount(locks[i])' /\ Firm'[i] = ~locks[i].revocable
    BY <1>1, SeenNext
  <2>2. Remaining(locks[i])' = Remaining(locks[i]) - paid
    <3>1. Remaining(locks[i])' = locks[i].amount - (locks[i].released + paid)
      BY <1>1 DEF Remaining
    <3>2. locks[i].amount \in Nat /\ locks[i].released \in Nat
      BY LiveSeen
    <3>3. Remaining(locks[i]) = locks[i].amount - locks[i].released
      BY DEF Remaining
    <3> QED BY <3>1, <3>2, <3>3
  <2>3. PaidOut[i] = locks[i].released /\ Earned[i] = VestedAmount(locks[i]) /\ Firm[i] = ~locks[i].revocable
    BY LiveSeen
  <2> QED BY <1>2, <2>1, <2>2, <2>3
<1>5. \A j \in LockIds : j # i => /\ Pledged'[j] = Pledged[j] /\ PaidOut'[j] = PaidOut[j]
                                  /\ Earned'[j] = Earned[j] /\ Firm'[j] = Firm[j]
  BY <1>1, OthersStay
<1>6. Pledged' = [Pledged EXCEPT ![i] = IF active THEN Remaining(locks[i]) - paid ELSE 0]
  BY <1>4, <1>5, Tables, OneEntry
<1>7. PaidOut' = [PaidOut EXCEPT ![i] = @ + paid]
  BY <1>4, <1>5, Tables, OneEntry
<1>8. Earned' = Earned /\ Firm' = Firm
  BY <1>4, <1>5, Tables, SameTable
<1> QED BY <1>3, <1>6, <1>7, <1>8

\* A claim is paid out of what was set aside, and no more than has vested (ClaimLock).
LEMMA ClaimLockPromise ==
  ASSUME PInv, IInv', NEW by \in Accounts, NEW i \in LockIds, ClaimLock(by, i)
  PROVE  KeptInv' /\ Steps
<1> DEFINE l == locks[i]
           t == l.treasury
           d == l.denom
           paid == Claimable(l)
           active == l.released + paid # l.amount
           new == [l EXCEPT !.released = @ + paid, !.active = active]
<1>1. Live(i) /\ t \in Treasuries
  BY DEF ClaimLock, Moving, Exists
<1>2. /\ l \in Locks /\ l.amount \in Nat /\ l.released \in Nat /\ d \in Denoms
      /\ VestedAmount(l) \in 0 .. l.amount
      /\ Pledged[i] = Remaining(l) /\ PaidOut[i] = l.released /\ Earned[i] = VestedAmount(l)
  BY <1>1, LiveSeen
<1>3. paid > 0
  BY DEF ClaimLock
<1>4. paid = VestedAmount(l) - l.released
  BY <1>3 DEF Claimable
<1>5. /\ locks' = [locks EXCEPT ![i].released = @ + paid, ![i].active = active]
      /\ locked' = [locked EXCEPT ![t][d] = @ - paid]
      /\ total' = [total EXCEPT ![t][d] = @ - paid]
      /\ now' = now
  BY DEF ClaimLock, releaseToBeneficiary
<1> HIDE DEF paid
<1>6. /\ paid \in Nat /\ l.released + paid = VestedAmount(l)
      /\ l.released + paid <= l.amount /\ active \in BOOLEAN
      /\ active => l.released + paid < l.amount
  BY <1>2, <1>3, <1>4
<1>7. /\ locks' = [locks EXCEPT ![i] = new] /\ new \in Locks
  <2>0. DOMAIN locks = LockIds
    BY DEF PInv, IInv, TypeInv
  <2>1. locks' = [locks EXCEPT ![i] = new]
    BY <2>0, <1>5, Zenon
  <2>2. l.released + paid \in Nat
    BY <1>2, <1>6
  <2> QED BY <1>2, <1>6, <2>1, <2>2 DEF Locks
<1>8. /\ new.active = active /\ new.released = l.released + paid
      /\ new.kind = l.kind /\ new.amount = l.amount /\ new.start = l.start
      /\ new.cliff = l.cliff /\ new.end = l.end /\ new.intervals = l.intervals
      /\ new.revocable = l.revocable
  BY <1>2 DEF Locks
<1> HIDE DEF new, active
<1>9. l.released + paid <= VestedAmount(l)
  BY <1>2, <1>6
<1>10. /\ KeptInv'
       /\ Pledged' = [Pledged EXCEPT ![i] = IF active THEN Remaining(l) - paid ELSE 0]
       /\ PaidOut' = [PaidOut EXCEPT ![i] = @ + paid]
       /\ Earned' = Earned /\ Firm' = Firm
  <2>1. PInv /\ i \in LockIds /\ now' = now
    BY <1>5
  <2>2. CASE active
    <3>1. new.active = TRUE /\ l.released + paid < l.amount
      BY <1>6, <1>8, <2>2
    <3>2. /\ KeptInv'
          /\ Pledged' = [Pledged EXCEPT ![i] = IF TRUE THEN Remaining(l) - paid ELSE 0]
          /\ PaidOut' = [PaidOut EXCEPT ![i] = @ + paid]
          /\ Earned' = Earned /\ Firm' = Firm
      BY ONLY <1>1, <1>6, <1>7, <1>8, <1>9, <2>1, <3>1, PaidLock
    <3> QED BY ONLY <2>2, <3>2
  <2>3. CASE ~active
    <3>1. new.active = FALSE
      BY <1>6, <1>8, <2>3
    <3>2. /\ KeptInv'
          /\ Pledged' = [Pledged EXCEPT ![i] = IF FALSE THEN Remaining(l) - paid ELSE 0]
          /\ PaidOut' = [PaidOut EXCEPT ![i] = @ + paid]
          /\ Earned' = Earned /\ Firm' = Firm
      BY ONLY <1>1, <1>6, <1>7, <1>8, <1>9, <2>1, <3>1, PaidLock
    <3> QED BY ONLY <2>3, <3>2
  <2> QED BY ONLY <2>2, <2>3
<1>11. Remaining(l) - paid = (IF active THEN Remaining(l) - paid ELSE 0) /\ paid \in 1 .. Remaining(l)
  BY <1>2, <1>3, <1>6 DEF Remaining, active
<1>12. Pledged' = [Pledged EXCEPT ![i] = @ - paid]
  BY <1>2, <1>10, <1>11
<1>13. Free' = Free
  <2> SUFFICES ASSUME NEW u \in Treasuries, NEW e \in Denoms
               PROVE  total'[u][e] - locked'[u][e] = total[u][e] - locked[u][e]
    BY FreeSame
  <2>1. total[u][e] \in Nat /\ locked[u][e] \in Nat
    BY DEF PInv, IInv, TypeInv
  <2>2. /\ total'[u][e] = IF u = t /\ e = d THEN total[u][e] - paid ELSE total[u][e]
        /\ locked'[u][e] = IF u = t /\ e = d THEN locked[u][e] - paid ELSE locked[u][e]
    <3>1. total \in [Treasuries -> [Denoms -> Nat]] /\ locked \in [Treasuries -> [Denoms -> Nat]]
      BY NumbersHeld DEF PInv
    <3> HIDE DEF t, d, l
    <3> QED BY ONLY <1>1, <1>2, <1>5, <3>1, u \in Treasuries, e \in Denoms, LedgerEntry
  <2> QED BY <1>6, <2>1, <2>2
<1>14. paid \in 1 .. Pledged[i] /\ paid <= Pledged[i] /\ PaidOut[i] + paid <= Earned[i]
  BY <1>2, <1>6, <1>9, <1>11
<1>15. Promise!Keep(i, paid)
  BY <1>10, <1>12, <1>13, <1>14 DEF Promise!Keep
<1> QED BY <1>10, <1>14, <1>15 DEF Steps, Promise!PromiseNext

\* A lock that is taken back pays what has vested first (RevokeLock).
LEMMA RevokeLockPromise ==
  ASSUME PInv, IInv', NEW by \in Accounts, NEW i \in LockIds, RevokeLock(by, i)
  PROVE  KeptInv' /\ Steps
<1> DEFINE l == locks[i]
           t == l.treasury
           d == l.denom
           paid == Claimable(l)
           new == [l EXCEPT !.released = @ + paid, !.active = FALSE]
<1>1. Live(i) /\ t \in Treasuries
  BY DEF RevokeLock, Moving, Exists
<1>2. /\ l \in Locks /\ l.amount \in Nat /\ l.released \in Nat /\ d \in Denoms
      /\ VestedAmount(l) \in 0 .. l.amount
      /\ l.released < l.amount /\ l.released <= VestedAmount(l)
      /\ Pledged[i] = Remaining(l) /\ PaidOut[i] = l.released /\ Earned[i] = VestedAmount(l)
      /\ Firm[i] = ~l.revocable
  BY <1>1, LiveSeen
<1>3. /\ locks' = [locks EXCEPT ![i].released = @ + paid, ![i].active = FALSE]
      /\ locked' = [locked EXCEPT ![t][d] = @ - Remaining(l)]
      /\ total' = [total EXCEPT ![t][d] = @ - paid]
      /\ now' = now /\ l.revocable
  BY DEF RevokeLock, Vested
<1>4. paid = VestedAmount(l) - l.released
  BY <1>2 DEF Claimable
<1> HIDE DEF paid
<1>5. paid \in Nat /\ l.released + paid <= VestedAmount(l)
  BY <1>2, <1>4
<1>6. /\ locks' = [locks EXCEPT ![i] = new] /\ new \in Locks
  <2>0. DOMAIN locks = LockIds
    BY DEF PInv, IInv, TypeInv
  <2>1. locks' = [locks EXCEPT ![i] = new]
    BY <2>0, <1>3, Zenon
  <2>2. l.released + paid \in Nat
    BY <1>2, <1>5
  <2> QED BY <1>2, <2>1, <2>2 DEF Locks
<1>7. /\ new.active = FALSE /\ new.released = l.released + paid
      /\ new.kind = l.kind /\ new.amount = l.amount /\ new.start = l.start
      /\ new.cliff = l.cliff /\ new.end = l.end /\ new.intervals = l.intervals
      /\ new.revocable = l.revocable
  BY <1>2 DEF Locks
<1> HIDE DEF new
<1>8. /\ KeptInv'
      /\ Pledged' = [Pledged EXCEPT ![i] = IF FALSE THEN Remaining(l) - paid ELSE 0]
      /\ PaidOut' = [PaidOut EXCEPT ![i] = @ + paid]
      /\ Earned' = Earned /\ Firm' = Firm
  BY <1>1, <1>3, <1>5, <1>6, <1>7, PaidLock
<1>9. Pledged' = [Pledged EXCEPT ![i] = 0]
  BY <1>8
<1>10. /\ Earned[i] - PaidOut[i] = paid /\ paid >= 0 /\ Pledged[i] > 0
       /\ Pledged[i] \in Nat
  BY <1>2, <1>4, <1>5 DEF Remaining
<1>11. Free' = [Free EXCEPT ![t][d] = @ + (Pledged[i] - paid)]
  <2> DEFINE k == Pledged[i] - paid
  <2>1. ASSUME NEW u \in Treasuries, NEW e \in Denoms
        PROVE  total'[u][e] - locked'[u][e]
                 = (total[u][e] - locked[u][e]) + (IF u = t /\ e = d THEN k ELSE 0)
    <3>1. total[u][e] \in Nat /\ locked[u][e] \in Nat
      BY DEF PInv, IInv, TypeInv
    <3>2. /\ total'[u][e] = IF u = t /\ e = d THEN total[u][e] - paid ELSE total[u][e]
          /\ locked'[u][e] = IF u = t /\ e = d THEN locked[u][e] - Pledged[i] ELSE locked[u][e]
      <4>1. total \in [Treasuries -> [Denoms -> Nat]] /\ locked \in [Treasuries -> [Denoms -> Nat]]
        BY NumbersHeld DEF PInv
      <4>2. Pledged[i] = Remaining(l)
        BY <1>2
      <4> HIDE DEF t, d, l
      <4> QED BY ONLY <1>1, <1>2, <1>3, <4>1, <4>2, u \in Treasuries, e \in Denoms, LedgerEntry
    <3> HIDE DEF t, d, l
    <3> QED BY <1>5, <1>10, <3>1, <3>2
  <2>2. k \in Int
    BY <1>5, <1>10
  <2>3. IInv /\ IInv' /\ t \in Treasuries /\ d \in Denoms
    BY <1>1, <1>2 DEF PInv
  <2> HIDE DEF t, d, l, k
  <2>4. Free' = [Free EXCEPT ![t][d] = @ + k]
    BY ONLY <2>1, <2>2, <2>3, FreeUpdate
  <2> QED BY <2>4 DEF k
<1>12. ~Firm[i]
  BY <1>2, <1>3
<1> HIDE DEF t, d, l
<1>13. Promise!TakeBack(i, t, d)
  BY <1>8, <1>9, <1>10, <1>11, <1>12 DEF Promise!TakeBack
<1> QED BY <1>1, <1>2, <1>8, <1>13 DEF Steps, Promise!PromiseNext

\* An escrow is earned when it is opened and paid at once (settle).
LEMMA SettlePromise ==
  ASSUME PInv, IInv', NEW i \in LockIds, NEW a, conditional(i), settle(i, a)
  PROVE  KeptInv' /\ Steps
<1> DEFINE l == locks[i]
           paid == l.amount
           new == [l EXCEPT !.released = l.amount, !.active = FALSE, !.disputed = FALSE]
<1>1. Live(i) /\ l.kind = "conditional"
  BY DEF conditional
<1>2. /\ l \in Locks /\ l.amount \in Nat /\ l.released < l.amount
      /\ Pledged[i] = Remaining(l) /\ PaidOut[i] = l.released /\ Earned[i] = VestedAmount(l)
      /\ Keeping(l) /\ l.active /\ WellFormed(l)
  BY <1>1, LiveSeen DEF PInv, IInv, LocksInv
<1>3. l.released = 0 /\ l.end = 0
  BY <1>1, <1>2 DEF Keeping, WellFormed
<1>4. VestedAmount(l) = l.amount
  <2>1. now >= l.end
    BY <1>3 DEF PInv, IInv, TypeInv
  <2> QED BY <2>1 DEF VestedAmount
<1>5. locks' = [locks EXCEPT ![i] = new] /\ UNCHANGED <<ledgerVars, now>>
  <2>1. /\ locks' = [locks EXCEPT ![i].released = locks[i].amount, ![i].active = FALSE,
                                 ![i].disputed = FALSE]
        /\ UNCHANGED <<ledgerVars, now>>
    BY DEF settle
  <2>2. DOMAIN locks = LockIds
    BY DEF PInv, IInv, TypeInv
  <2> QED BY <2>1, <2>2, Zenon
<1>6. new \in Locks
  BY <1>2 DEF Locks
<1>7. /\ new.active = FALSE /\ new.released = l.released + paid
      /\ new.kind = l.kind /\ new.amount = l.amount /\ new.start = l.start
      /\ new.cliff = l.cliff /\ new.end = l.end /\ new.intervals = l.intervals
      /\ new.revocable = l.revocable
  BY <1>2, <1>3 DEF Locks
<1> HIDE DEF new
<1>8. l.released + paid <= VestedAmount(l)
  BY <1>2, <1>3, <1>4
<1>9. /\ KeptInv'
      /\ Pledged' = [Pledged EXCEPT ![i] = IF FALSE THEN Remaining(l) - paid ELSE 0]
      /\ PaidOut' = [PaidOut EXCEPT ![i] = @ + paid]
      /\ Earned' = Earned /\ Firm' = Firm
  BY <1>1, <1>2, <1>5, <1>6, <1>7, <1>8, PaidLock
<1>10. Pledged[i] = paid /\ paid \in 1 .. Pledged[i] /\ PaidOut[i] + paid <= Earned[i]
  BY <1>2, <1>3, <1>4 DEF Remaining
<1>11. Pledged' = [Pledged EXCEPT ![i] = @ - paid]
  <2>1. Pledged[i] - paid = 0
    BY <1>2, <1>10
  <2> QED BY <1>9, <2>1
<1>12. Free' = Free
  BY <1>5, FreeSame DEF ledgerVars
<1>13. paid <= Pledged[i]
  BY <1>2, <1>10
<1> HIDE DEF l, paid
<1>14. Promise!Keep(i, paid)
  BY <1>9, <1>10, <1>11, <1>12, <1>13 DEF Promise!Keep
<1> QED BY <1>9, <1>10, <1>14 DEF Steps, Promise!PromiseNext

\* A dispute changes nothing that was promised (DisputeEscrow).
LEMMA DisputePromise ==
  ASSUME PInv, NEW by \in Accounts, NEW i \in LockIds, DisputeEscrow(by, i)
  PROVE  KeptInv' /\ Steps
<1> DEFINE l == locks[i]
           new == [l EXCEPT !.disputed = TRUE]
<1>1. Live(i)
  BY DEF DisputeEscrow, conditional
<1>2. /\ l \in Locks /\ l.amount \in Nat /\ l.released \in Nat /\ l.released < l.amount
      /\ l.released <= VestedAmount(l) /\ l.active
      /\ Pledged[i] = Remaining(l) /\ PaidOut[i] = l.released
  BY <1>1, LiveSeen
<1>3. locks' = [locks EXCEPT ![i] = new] /\ UNCHANGED <<ledgerVars, now>>
  BY DEF DisputeEscrow
<1>4. new \in Locks
  BY <1>2 DEF Locks
<1>5. /\ new.active = TRUE /\ new.released = l.released + 0
      /\ new.kind = l.kind /\ new.amount = l.amount /\ new.start = l.start
      /\ new.cliff = l.cliff /\ new.end = l.end /\ new.intervals = l.intervals
      /\ new.revocable = l.revocable
  BY <1>1, <1>2 DEF Locks, Live
<1> HIDE DEF new
<1>6. l.released + 0 <= VestedAmount(l) /\ l.released + 0 < l.amount
  BY <1>2
<1>7. /\ KeptInv'
      /\ Pledged' = [Pledged EXCEPT ![i] = IF TRUE THEN Remaining(l) - 0 ELSE 0]
      /\ PaidOut' = [PaidOut EXCEPT ![i] = @ + 0]
      /\ Earned' = Earned /\ Firm' = Firm
  BY <1>1, <1>3, <1>4, <1>5, <1>6, PaidLock
<1>8. Remaining(l) - 0 = Pledged[i] /\ PaidOut[i] + 0 = PaidOut[i]
  BY <1>2 DEF Remaining
<1>9. Pledged' = Pledged /\ PaidOut' = PaidOut
  <2>1. Pledged' = [Pledged EXCEPT ![i] = Pledged[i]] /\ PaidOut' = [PaidOut EXCEPT ![i] = PaidOut[i]]
    BY <1>7, <1>8, Zenon
  <2>2. DOMAIN Pledged = LockIds /\ DOMAIN PaidOut = LockIds
    BY Tables
  <2>3. /\ [Pledged EXCEPT ![i] = Pledged[i]] = [j \in LockIds |-> Pledged[j]]
        /\ [PaidOut EXCEPT ![i] = PaidOut[i]] = [j \in LockIds |-> PaidOut[j]]
    BY <2>2
  <2> QED BY ONLY <2>1, <2>3, Tables
<1>10. Free' = Free
  BY <1>3, FreeSame DEF ledgerVars
<1>11. UNCHANGED Promise!promiseVars
  BY <1>7, <1>9, <1>10 DEF Promise!promiseVars
<1> QED BY <1>7, <1>11 DEF Steps
----------------------------------------------------------------------------
(* The refinement. *)

\* At the start nothing is free and nothing is promised.
LEMMA PromiseInitStep ==
  ASSUME Init
  PROVE  PInv /\ Promise!PromiseInit
<1>1. PInv
  BY InitStep DEF PInv, KeptInv, Init
<1>2. \A t \in Treasuries, d \in Denoms : Free[t][d] = 0
  BY DEF Free, Available, Init, ByDenom
<1>3. \A i \in LockIds : Pledged[i] = 0 /\ PaidOut[i] = 0
  BY DEF Pledged, PaidOut, Live, Init
<1> QED BY <1>1, <1>2, <1>3 DEF Promise!PromiseInit

\* Fees of a block come to the treasury they are for, and time passes (BeginBlocker).
LEMMA NextBlockPromise ==
  ASSUME PInv, IInv', NextBlock
  PROVE  KeptInv' /\ Steps
<1> DEFINE t == params.feeTreasury
<1>1. UNCHANGED <<locks, locked>> /\ now \in Nat /\ now' \in Nat /\ now <= now'
  BY DEF NextBlock, lockVars, PInv, IInv, TypeInv
<1>2. \A u \in Treasuries, e \in Denoms : total[u][e] \in Nat /\ collected[e] \in Nat
  BY DEF PInv, IInv, TypeInv
<1>3. CASE params.routeFees /\ Exists(t)
  <2>1. t \in Treasuries
    BY <1>3 DEF Exists
  <2>2. total' = [total EXCEPT ![t] = [e \in Denoms |-> @[e] + collected[e]]]
    BY <1>3 DEF NextBlock, SweepIntoOperatingTreasury
  <2>3. \A u \in Treasuries, e \in Denoms :
          total'[u][e] = total[u][e] + (IF u = t THEN collected[e] ELSE 0)
    <3>1. total \in [Treasuries -> [Denoms -> Nat]]
      BY DEF PInv, IInv, TypeInv
    <3> HIDE DEF t
    <3>2. \A u \in Treasuries, e \in Denoms :
            total'[u][e] = IF u = t THEN total[u][e] + collected[e] ELSE total[u][e]
      BY ONLY <2>1, <2>2, <3>1
    <3> QED BY ONLY <1>2, <3>2
  <2> HIDE DEF t
  <2>4. \A u \in Treasuries, e \in Denoms :
          /\ total'[u][e] >= total[u][e]
          /\ u # t => total'[u][e] = total[u][e]
    BY <1>2, <2>3
  <2> QED BY <1>1, <2>1, <2>4, ReceivePromise
<1>4. CASE ~(params.routeFees /\ Exists(t))
  <2>1. total' = total
    BY <1>4 DEF NextBlock, SweepIntoOperatingTreasury
  <2>2. Free' = Free
    BY <1>1, <2>1, FreeSame
  <2>3. UNCHANGED <<Pledged, PaidOut, Firm>>
    BY <1>1, LocksSeenSame
  <2>4. (\A i \in LockIds : Earned'[i] >= Earned[i]) /\ KeptInv'
    BY <1>1, TimeEarns
  <2>5. Promise!TimePasses
    BY <2>2, <2>3, <2>4 DEF Promise!TimePasses, Promise!Earning
  <2> QED BY <2>4, <2>5 DEF Steps, Promise!PromiseNext
<1> QED BY <1>3, <1>4

\* Money that is paid in is free (Deposit).
LEMMA DepositPromise ==
  ASSUME PInv, IInv', NEW t \in Treasuries, NEW d \in Denoms, NEW amount \in Amounts,
         Deposit(t, d, amount)
  PROVE  KeptInv' /\ Steps
<1>1. UNCHANGED <<locks, locked, now>> /\ now \in Nat /\ now <= now' /\ amount \in Nat
  BY TreasuryAssumption DEF Deposit, lockVars, PInv, IInv, TypeInv
<1>2. \A u \in Treasuries, e \in Denoms : total[u][e] \in Nat
  BY DEF PInv, IInv, TypeInv
<1>3. \A u \in Treasuries, e \in Denoms :
        total'[u][e] = IF u = t /\ e = d THEN total[t][d] + amount ELSE total[u][e]
  <2>1. total' = [total EXCEPT ![t][d] = total[t][d] + amount]
    BY DEF Deposit
  <2>2. total[t][d] + amount \in Nat /\ total \in [Treasuries -> [Denoms -> Nat]]
    BY <1>1, <1>2, NumbersHeld DEF PInv
  <2> QED BY <2>1, <2>2, LedgerUpdate
<1>4. \A u \in Treasuries, e \in Denoms :
        total'[u][e] >= total[u][e] /\ (u # t => total'[u][e] = total[u][e])
  BY <1>1, <1>2, <1>3
<1> QED BY <1>1, <1>4, ReceivePromise

\* Every message, block and restart is a step of the promise, or none.
LEMMA PromiseNextStep ==
  ASSUME PInv, IInv', [Next]_vars
  PROVE  KeptInv' /\ Steps
<1>1. CASE \/ \E a \in Officers : CreateTreasury(a)
           \/ \E by \in Accounts, t \in Treasuries :
                \/ \E a \in Officers : SetAdmin(by, t, a)
                \/ \E a \in Accounts : RevokeRole(by, t, a)
                \/ \E paused \in BOOLEAN : SetPaused(by, t, paused)
                \/ \E g \in Grants : AssignRole(by, t, g[1], g[2])
                \/ \E d \in Denoms, p \in Policies : SetSpendPolicy(by, t, d, p)
           \/ \E by \in Accounts, p \in ParamChoices : UpdateParams(by, p)
           \/ \E d \in Denoms, amount \in Amounts : PayFee(d, amount)
           \/ ExportAndImport \/ UNCHANGED vars
  <2>1. UNCHANGED <<ledgerVars, locks, now>>
    <3>1. CASE \E by \in Accounts, t \in Treasuries :
                 \/ \E a \in Officers : SetAdmin(by, t, a)
                 \/ \E a \in Accounts : RevokeRole(by, t, a)
                 \/ \E paused \in BOOLEAN : SetPaused(by, t, paused)
      BY <3>1 DEF SetAdmin, RevokeRole, SetPaused, lockVars
    <3>2. CASE \E by \in Accounts, t \in Treasuries :
                 \/ \E g \in Grants : AssignRole(by, t, g[1], g[2])
                 \/ \E d \in Denoms, p \in Policies : SetSpendPolicy(by, t, d, p)
      BY <3>2 DEF AssignRole, SetSpendPolicy, lockVars
    <3>3. CASE \/ \E a \in Officers : CreateTreasury(a)
               \/ \E by \in Accounts, p \in ParamChoices : UpdateParams(by, p)
      BY <3>3 DEF CreateTreasury, UpdateParams, lockVars
    <3>4. CASE \/ \E d \in Denoms, amount \in Amounts : PayFee(d, amount)
               \/ ExportAndImport \/ UNCHANGED vars
      BY <3>4 DEF PayFee, ExportAndImport, lockVars, vars
    <3> QED BY <1>1, <3>1, <3>2, <3>3, <3>4
  <2> QED BY <2>1, QuietPromise
<1>2. CASE \E by \in Accounts, t \in Treasuries, a \in Payees, d \in Denoms, amount \in Amounts :
             Spend(by, t, a, d, amount)
  BY <1>2, SpendPromise
<1>3. CASE \E by \in Accounts, t \in Treasuries, a \in Payees, d \in Denoms, amount \in Amounts,
              s \in Schedules : CreateLock(by, t, a, d, amount, s)
  BY <1>3, CreateLockPromise
<1>4. CASE \E d \in Denoms, amount \in Amounts, t \in Treasuries : Deposit(t, d, amount)
  BY <1>4, DepositPromise
<1>5. CASE \E d \in Denoms, amount \in Amounts, deal \in Deals :
             OpenEscrow(deal[1], deal[2], deal[3], d, amount)
  BY <1>5, OpenEscrowPromise
<1>6. CASE \E by \in Accounts, i \in LockIds : ClaimLock(by, i)
  BY <1>6, ClaimLockPromise
<1>7. CASE \E by \in Accounts, i \in LockIds : RevokeLock(by, i)
  BY <1>7, RevokeLockPromise
<1>8. CASE \E by \in Accounts, i \in LockIds :
             \/ ReleaseEscrow(by, i)
             \/ \E payBeneficiary \in BOOLEAN : ResolveEscrow(by, i, payBeneficiary)
  <2>1. \E i \in LockIds : \E a : conditional(i) /\ settle(i, a)
    BY <1>8 DEF ReleaseEscrow, ResolveEscrow
  <2> QED BY <2>1, SettlePromise
<1>9. CASE \E by \in Accounts, i \in LockIds : DisputeEscrow(by, i)
  BY <1>9, DisputePromise
<1>10. CASE NextBlock
  BY <1>10, NextBlockPromise
<1> QED BY <1>1, <1>2, <1>3, <1>4, <1>5, <1>6, <1>7, <1>8, <1>9, <1>10 DEF Next

\* Beneath roles, schedules and cases the module keeps the promise: what is set
\* aside is paid under its own lock, never before it vested, and goes back only
\* as far as it was revocable and had not vested (ClaimLock, RevokeLock, settle).
THEOREM PromisesAlwaysKept == Spec => KeepsPromises
<1>1. Init => PInv /\ Promise!PromiseInit
  BY PromiseInitStep
<1>2. PInv /\ [Next]_vars => PInv' /\ [Promise!PromiseNext]_(Promise!promiseVars)
  <2> SUFFICES ASSUME PInv, [Next]_vars PROVE PInv' /\ [Promise!PromiseNext]_(Promise!promiseVars)
    OBVIOUS
  <2>1. IInv'
    BY NextStep DEF PInv
  <2>2. KeptInv' /\ Steps
    BY <2>1, PromiseNextStep
  <2> QED BY <2>1, <2>2 DEF PInv, Steps
<1> QED BY <1>1, <1>2, PTL DEF Spec, KeepsPromises, Promise!PromiseSpec

----------------------------------------------------------------------------
(* What a limit bounds. *)

\* The seconds from one on, and those from one up to another.
Seconds == 1 .. MaxTime
From(s) == {u \in Seconds : s <= u}
Between(s, e) == {u \in Seconds : s <= u /\ u < e}
Paid(f, S) == SumFunctionOnSet(f, S)

\* What a window w under a policy p says about the payments f it has let
\* through.  None is later than the window; those in it are counted and within
\* the limit, and so are those of the period before it, of which no more than
\* one earlier window can have a part.  From that a stretch that reaches into
\* the window has at most two limits; one that does not was bounded before.
RateKept(p, w, f) ==
  IF w = None THEN \A u \in Seconds : f[u] = 0
  ELSE /\ \A u \in Seconds : u >= w.start + p.period => f[u] = 0
       /\ Paid(f, From(w.start)) <= w.spent
       /\ Paid(f, From(w.start)) <= p.limit
       /\ Paid(f, Between(w.start - p.period, w.start)) <= p.limit
       /\ \A s \in Seconds : Paid(f, Between(s, s + p.period)) <= 2 * p.limit

\* There are finitely many seconds.
LEMMA SecondsFinite == IsFiniteSet(Seconds)
<1>1. 1 \in Int /\ MaxTime \in Int
  BY TreasuryAssumption
<1> QED BY <1>1, FS_Interval DEF Seconds

\* What is paid within some seconds is a number.
LEMMA PaidType ==
  ASSUME NEW f \in [Seconds -> Nat], NEW S \in SUBSET Seconds
  PROVE  IsFiniteSet(S) /\ Paid(f, S) \in Nat
<1>1. IsFiniteSet(S)
  BY SecondsFinite, FS_Subset
<1> QED BY <1>1, SumNat DEF Paid

\* g is f with k more in second n.
Adds(f, n, k, g) == g[n] = f[n] + k /\ \A x \in Seconds : x # n => g[x] = f[x]

\* One payment more counts in the sets of seconds it falls into.
LEMMA PaidMore ==
  ASSUME NEW f \in [Seconds -> Nat], NEW n \in Seconds, NEW k \in Nat, NEW g,
         Adds(f, n, k, g), NEW S \in SUBSET Seconds
  PROVE  Paid(g, S) = IF n \in S THEN Paid(f, S) + k ELSE Paid(f, S)
<1>1. IsFiniteSet(S) /\ \A x \in S : f[x] \in Int
  BY PaidType
<1>2. g[n] = f[n] + k /\ \A x \in S : n # x => g[x] = f[x]
  BY DEF Adds
<1>3. CASE n \in S
  <2>1. k \in Int
    OBVIOUS
  <2>2. SumFunctionOnSet(g, S) = SumFunctionOnSet(f, S) + k
    BY ONLY <1>1, <1>2, <1>3, <2>1, SumUpdate
  <2> QED BY <1>3, <2>2 DEF Paid
<1>4. CASE n \notin S
  <2>1. \A x \in S : g[x] = f[x]
    BY <1>2, <1>4
  <2>2. SumFunctionOnSet(g, S) = SumFunctionOnSet(f, S)
    BY <1>1, <2>1, SumCong
  <2> QED BY <1>4, <2>2 DEF Paid
<1> QED BY <1>3, <1>4

\* Fewer seconds, less paid.
LEMMA PaidLess ==
  ASSUME NEW f \in [Seconds -> Nat], NEW S \in SUBSET Seconds, NEW T \in SUBSET S
  PROVE  Paid(f, T) <= Paid(f, S)
BY PaidType, SumSubset DEF Paid

\* Nothing paid, nothing counted.
LEMMA PaidNothing ==
  ASSUME NEW f, NEW S \in SUBSET Seconds, \A u \in S : f[u] = 0
  PROVE  Paid(f, S) = 0
<1>1. IsFiniteSet(S)
  BY SecondsFinite, FS_Subset
<1> QED BY <1>1, SumZero DEF Paid

\* The payments before a second and those from it on.
LEMMA PaidApart ==
  ASSUME NEW f \in [Seconds -> Nat], NEW S \in SUBSET Seconds, NEW A, NEW B \in SUBSET Seconds,
         A \in SUBSET Seconds, S \subseteq A \cup B
  PROVE  Paid(f, S) <= Paid(f, A) + Paid(f, B)
<1>1. IsFiniteSet(S) /\ \A x \in S : f[x] \in Int
  BY PaidType
<1>2. Paid(f, S) = Paid(f, S \cap A) + Paid(f, S \ A)
  BY <1>1, SumSplit DEF Paid
<1>3. Paid(f, S \cap A) <= Paid(f, A) /\ Paid(f, S \cap A) \in Nat /\ Paid(f, A) \in Nat
  BY PaidLess, PaidType
<1>4. Paid(f, S \ A) <= Paid(f, B) /\ Paid(f, S \ A) \in Nat /\ Paid(f, B) \in Nat
  BY PaidLess, PaidType
<1> QED BY <1>2, <1>3, <1>4

\* A policy that was just set has let nothing through, whatever window it finds.
LEMMA ResetKept ==
  ASSUME NEW p \in PolicySets, p.limit # None, NEW w \in Windows \cup {None},
         NEW f, \A u \in Seconds : f[u] = 0
  PROVE  RateKept(p, w, f)
<1>1. p.limit \in Nat
  BY DEF PolicySets, Limits
<1>2. \A S \in SUBSET Seconds : Paid(f, S) = 0
  BY PaidNothing
<1>3. CASE w # None
  <2>1. w.spent \in Nat
    BY <1>3 DEF Windows
  <2>2. From(w.start) \in SUBSET Seconds /\ Between(w.start - p.period, w.start) \in SUBSET Seconds
    BY DEF From, Between
  <2>3. \A s \in Seconds : Between(s, s + p.period) \in SUBSET Seconds
    BY DEF Between
  <2>4. Paid(f, From(w.start)) = 0 /\ Paid(f, Between(w.start - p.period, w.start)) = 0
    BY <1>2, <2>2
  <2>5. \A s \in Seconds : Paid(f, Between(s, s + p.period)) = 0
    BY <1>2, <2>3
  <2> QED BY <1>1, <1>3, <2>1, <2>4, <2>5 DEF RateKept
<1> QED BY <1>3 DEF RateKept

\* A payment within the limit, in the window that is open or in a new one.
LEMMA SpentKept ==
  ASSUME NEW p \in PolicySets, p.limit # None, p.period > 0,
         NEW w \in Windows \cup {None}, NEW n \in Seconds, w # None => w.start <= n,
         NEW f \in [Seconds -> Nat], RateKept(p, w, f),
         NEW k \in Nat, NEW g, g = [f EXCEPT ![n] = f[n] + k],
         NEW at, at = IF w = None \/ n - w.start >= p.period THEN [spent |-> 0, start |-> n] ELSE w,
         at.spent + k <= p.limit,
         NEW v, v # None, v.start = at.start, v.spent = at.spent + k
  PROVE  RateKept(p, v, g)
<1>1. p.limit \in Nat /\ p.period \in Nat \ {0} /\ n \in Nat
  BY TreasuryAssumption DEF PolicySets, Limits, Seconds
<1>2. at.spent \in Nat /\ at.start \in Nat /\ at.start <= n /\ n < at.start + p.period
  <2>1. CASE w = None \/ n - w.start >= p.period
    BY <1>1, <2>1
  <2>2. CASE ~(w = None \/ n - w.start >= p.period)
    <3>1. at = w /\ w.start \in Nat /\ w.spent \in Nat
      BY <2>2 DEF Windows
    <3> QED BY <1>1, <2>2, <3>1
  <2> QED BY <2>1, <2>2
<1> DEFINE a == at.start
           per == p.period
           lim == p.limit
<1>3. /\ g \in [Seconds -> Nat]
      /\ \A S \in SUBSET Seconds : Paid(g, S) = IF n \in S THEN Paid(f, S) + k ELSE Paid(f, S)
      /\ \A S \in SUBSET Seconds : Paid(f, S) \in Nat /\ Paid(g, S) \in Nat
  <2>1. g \in [Seconds -> Nat]
    OBVIOUS
  <2>2. \A S \in SUBSET Seconds : Paid(g, S) = IF n \in S THEN Paid(f, S) + k ELSE Paid(f, S)
    <3>1. Adds(f, n, k, g)
      BY DEF Adds
    <3> QED BY <3>1, PaidMore
  <2>3. \A S \in SUBSET Seconds : Paid(f, S) \in Nat /\ Paid(g, S) \in Nat
    BY <2>1, PaidType
  <2> QED BY <2>1, <2>2, <2>3
<1>4. /\ From(a) \in SUBSET Seconds /\ n \in From(a)
      /\ Between(a - per, a) \in SUBSET Seconds /\ n \notin Between(a - per, a)
      /\ \A s \in Seconds : Between(s, s + per) \in SUBSET Seconds
  BY <1>2 DEF From, Between, Seconds
\* The old window, or the absence of one, bounds what lies before the new one.
<1>5. /\ \A u \in Seconds : u >= a + per => f[u] = 0
      /\ Paid(f, From(a)) <= at.spent
      /\ Paid(f, Between(a - per, a)) <= lim
      /\ \A s \in Seconds : Paid(f, Between(s, s + per)) <= 2 * lim
  <2>1. CASE w = None
    <3>1. \A u \in Seconds : f[u] = 0
      BY <2>1 DEF RateKept
    <3>2. Paid(f, From(a)) = 0 /\ Paid(f, Between(a - per, a)) = 0
          /\ \A s \in Seconds : Paid(f, Between(s, s + per)) = 0
      BY <1>4, <3>1, PaidNothing
    <3> QED BY <1>1, <1>2, <3>1, <3>2
  <2>2. CASE w # None /\ n - w.start >= per
    <3>1. at = [spent |-> 0, start |-> n] /\ w.start \in Nat
      BY <2>2 DEF Windows
    <3>2. at.spent = 0 /\ a = n
      BY <3>1
    <3>3. /\ \A u \in Seconds : u >= w.start + per => f[u] = 0
          /\ Paid(f, From(w.start)) <= lim
          /\ \A s \in Seconds : Paid(f, Between(s, s + per)) <= 2 * lim
      BY <2>2 DEF RateKept
    <3>4. \A u \in Seconds : u >= n => f[u] = 0
      BY <1>1, <2>2, <3>1, <3>3 DEF Seconds
    <3>5. \A u \in From(a) : f[u] = 0
      BY <3>2, <3>4 DEF From
    <3>6. Paid(f, From(a)) = 0
      BY <1>4, <3>5, PaidNothing
    <3>7. Between(a - per, a) \in SUBSET From(w.start) /\ From(w.start) \in SUBSET Seconds
      BY <1>1, <2>2, <3>1, <3>2 DEF Between, From, Seconds
    <3>8. Paid(f, Between(a - per, a)) <= Paid(f, From(w.start))
      BY <3>7, PaidLess
    <3>9. Paid(f, Between(a - per, a)) <= lim
      BY <1>1, <1>3, <1>4, <3>3, <3>7, <3>8
    <3>10. \A u \in Seconds : u >= a + per => f[u] = 0
      BY <1>1, <3>2, <3>4 DEF Seconds
    <3> QED BY <3>2, <3>3, <3>6, <3>9, <3>10
  <2>3. CASE w # None /\ ~(n - w.start >= per)
    <3>1. at = w
      BY <2>3
    <3> QED BY <2>3, <3>1 DEF RateKept
  <2> QED BY <2>1, <2>2, <2>3
<1> HIDE DEF a, per, lim
<1>6. a \in Nat /\ a <= n /\ n < a + per /\ per \in Nat /\ lim \in Nat /\ at.spent + k <= lim
  BY <1>1, <1>2 DEF a, per, lim
<1>7. \A u \in Seconds : u >= a + per => g[u] = 0
  BY <1>5, <1>6 DEF Seconds
<1>8. Paid(g, From(a)) = Paid(f, From(a)) + k /\ Paid(f, From(a)) \in Nat
  BY <1>3, <1>4
<1>9. Paid(g, From(a)) <= v.spent /\ Paid(g, From(a)) <= lim
  BY <1>2, <1>5, <1>6, <1>8
<1>10. Paid(g, Between(a - per, a)) <= lim
  BY <1>3, <1>4, <1>5
<1>11. ASSUME NEW s \in Seconds PROVE Paid(g, Between(s, s + per)) <= 2 * lim
  <2> DEFINE S == Between(s, s + per)
             A == Between(a - per, a)
  <2>1. S \in SUBSET Seconds
    BY <1>4
  <2>2. CASE n \notin S
    <3>1. Paid(g, S) = Paid(f, S)
      BY <1>3, <2>1, <2>2
    <3> QED BY <1>5, <3>1
  <2>3. CASE n \in S
    <3>1. S \subseteq A \cup From(a)
      BY <1>6, <2>3 DEF Between, From, Seconds
    <3>2. A \in SUBSET Seconds /\ From(a) \in SUBSET Seconds
      BY <1>4
    <3>3. Paid(g, S) <= Paid(g, A) + Paid(g, From(a))
      BY <1>3, <2>1, <3>1, <3>2, PaidApart
    <3>4. Paid(g, S) \in Nat /\ Paid(g, A) \in Nat /\ Paid(g, From(a)) \in Nat
      BY <1>3, <2>1, <3>2
    <3>5. Paid(g, A) <= lim
      BY <1>10
    <3> HIDE DEF S, A
    <3>6. Paid(g, S) <= 2 * lim
      BY ONLY <1>6, <1>9, <3>3, <3>4, <3>5
    <3> QED BY <3>6 DEF S
  <2> QED BY <2>2, <2>3
<1> QED BY <1>7, <1>9, <1>10, <1>11 DEF RateKept, a, per, lim

\* What a policy, the window it keeps and the payments it let through look like.
PolicyTyped ==
  /\ policy \in [Treasuries -> [Denoms -> PolicySets \cup {None}]]
  /\ window \in [Treasuries -> [Denoms -> Windows \cup {None}]]
  /\ spends \in [Treasuries -> [Denoms -> [Seconds -> Nat]]]

\* One treasury and currency under a limit.
LimitKept(t, d) ==
  /\ window[t][d] # None => window[t][d].start <= now
  /\ HasLimit(t, d) => /\ policy[t][d].period > 0
                       /\ RateKept(policy[t][d], window[t][d], spends[t][d])

SpendInv == PolicyTyped /\ \A t \in Treasuries, d \in Denoms : LimitKept(t, d)

\* Before anything happens there is neither policy nor window.
LEMMA InitSpending == Init => SpendInv
<1> SUFFICES ASSUME Init PROVE SpendInv
  OBVIOUS
<1>1. /\ policy = ByDenom(None) /\ window = ByDenom(None)
      /\ spends = ByDenom([s \in 1 .. MaxTime |-> 0])
  BY DEF Init
<1>2. PolicyTyped
  BY <1>1 DEF PolicyTyped, ByDenom, Seconds
<1>3. \A t \in Treasuries, d \in Denoms : policy[t][d] = None /\ window[t][d] = None
  BY <1>1 DEF ByDenom
<1> QED BY <1>2, <1>3 DEF SpendInv, LimitKept, HasLimit

\* Time and everything that leaves policies and windows alone.
LEMMA QuietSpending ==
  ASSUME SpendInv, now \in Nat, now' \in Nat, now <= now', UNCHANGED policyVars
  PROVE  SpendInv'
<1>1. UNCHANGED <<policy, window, spends>>
  BY DEF policyVars
<1>2. PolicyTyped'
  BY <1>1 DEF SpendInv, PolicyTyped
<1>3. ASSUME NEW t \in Treasuries, NEW d \in Denoms PROVE LimitKept(t, d)'
  <2>1. LimitKept(t, d)
    BY DEF SpendInv
  <2>2. window[t][d] # None => window[t][d].start \in Nat
    BY DEF SpendInv, PolicyTyped, Windows
  <2>3. window'[t][d] # None => window'[t][d].start <= now'
    BY <1>1, <2>1, <2>2 DEF LimitKept
  <2> QED BY <1>1, <2>1, <2>3 DEF LimitKept, HasLimit
<1> QED BY <1>2, <1>3 DEF SpendInv

\* One entry of the tables is written.
LEMMA OneEntryKept ==
  ASSUME SpendInv, NEW t \in Treasuries, NEW d \in Denoms, now' = now, PolicyTyped',
         LimitKept(t, d)',
         \A u \in Treasuries, e \in Denoms : u # t \/ e # d =>
           policy'[u][e] = policy[u][e] /\ window'[u][e] = window[u][e] /\ spends'[u][e] = spends[u][e]
  PROVE  SpendInv'
<1>1. ASSUME NEW u \in Treasuries, NEW e \in Denoms PROVE LimitKept(u, e)'
  <2>1. CASE u = t /\ e = d
    BY <2>1
  <2>2. CASE u # t \/ e # d
    BY <2>2 DEF SpendInv, LimitKept, HasLimit
  <2> QED BY <2>1, <2>2
<1> QED BY <1>1 DEF SpendInv

\* A table of tables written in one place.
LEMMA EntryWritten ==
  ASSUME NEW T, NEW D, NEW V, NEW f \in [T -> [D -> V]], NEW g, NEW t \in T, NEW d \in D,
         NEW x \in V, g = [f EXCEPT ![t][d] = x]
  PROVE  /\ g \in [T -> [D -> V]]
         /\ \A u \in T, e \in D : g[u][e] = IF u = t /\ e = d THEN x ELSE f[u][e]
OBVIOUS

\* SetSpendPolicy: the window stays, and what was spent under the policy that
\* went no longer counts against the new one.
LEMMA PolicySpending ==
  ASSUME SpendInv, NEW by, NEW t \in Treasuries, NEW d \in Denoms, NEW p \in Policies,
         SetSpendPolicy(by, t, d, p)
  PROVE  SpendInv'
<1> DEFINE zeros == [s \in 1 .. MaxTime |-> 0]
<1>1. /\ policy' = [policy EXCEPT ![t][d] = p] /\ window' = window /\ now' = now
      /\ spends' = [spends EXCEPT ![t][d] = zeros]
      /\ p.limit # None => p.period > 0
  BY DEF SetSpendPolicy
<1>2. p \in PolicySets \cup {None} /\ p \in PolicySets
  BY TreasuryAssumption
<1>3. zeros \in [Seconds -> Nat] /\ \A u \in Seconds : zeros[u] = 0
  BY DEF Seconds
<1> HIDE DEF zeros
<1>4. /\ policy' \in [Treasuries -> [Denoms -> PolicySets \cup {None}]]
      /\ \A u \in Treasuries, e \in Denoms :
           policy'[u][e] = IF u = t /\ e = d THEN p ELSE policy[u][e]
  BY <1>1, <1>2, EntryWritten DEF SpendInv, PolicyTyped
<1>5. /\ spends' \in [Treasuries -> [Denoms -> [Seconds -> Nat]]]
      /\ \A u \in Treasuries, e \in Denoms :
           spends'[u][e] = IF u = t /\ e = d THEN zeros ELSE spends[u][e]
  BY <1>1, <1>3, EntryWritten DEF SpendInv, PolicyTyped
<1>6. PolicyTyped'
  BY <1>1, <1>4, <1>5 DEF SpendInv, PolicyTyped
<1>7. LimitKept(t, d)'
  <2>1. window'[t][d] = window[t][d] /\ window[t][d] \in Windows \cup {None} /\ LimitKept(t, d)
    BY <1>1 DEF SpendInv, PolicyTyped
  <2>2. policy'[t][d] = p /\ spends'[t][d] = zeros
    BY <1>4, <1>5
  <2>3. p.limit # None => RateKept(p, window[t][d], zeros)
    BY <1>2, <1>3, <2>1, ResetKept
  <2>4. window'[t][d] # None => window'[t][d].start <= now'
    BY <1>1, <2>1 DEF LimitKept
  <2> QED BY <1>1, <2>1, <2>2, <2>3, <2>4 DEF LimitKept, HasLimit
<1>8. \A u \in Treasuries, e \in Denoms : u # t \/ e # d =>
        policy'[u][e] = policy[u][e] /\ window'[u][e] = window[u][e] /\ spends'[u][e] = spends[u][e]
  BY <1>1, <1>4, <1>5
<1> QED BY <1>1, <1>6, <1>7, <1>8, OneEntryKept

\* Spend: within the limit, in the window that is open or the next one.
LEMMA SpendSpending ==
  ASSUME SpendInv, now \in Seconds, NEW by, NEW t \in Treasuries, NEW a, NEW d \in Denoms,
         NEW amount \in Nat, Spend(by, t, a, d, amount)
  PROVE  SpendInv'
<1>1. policy' = policy /\ now' = now /\ WithinLimits(t, d, amount)
  BY DEF Spend, SpendIsAllowed
<1>2. CASE ~HasLimit(t, d)
  <2>1. UNCHANGED policyVars
    BY <1>1, <1>2 DEF Spend, policyVars
  <2>2. now \in Nat /\ now' = now
    BY <1>1 DEF Seconds
  <2> QED BY <2>1, <2>2, QuietSpending
<1>3. CASE HasLimit(t, d)
  <2> DEFINE p == policy[t][d]
             w == window[t][d]
             f == spends[t][d]
             at == spendWindowAt(t, d)
             v == [at EXCEPT !.spent = at.spent + amount]
             g == [f EXCEPT ![now] = f[now] + amount]
  <2>1. /\ p \in PolicySets /\ p.limit # None /\ p.period > 0
        /\ w \in Windows \cup {None} /\ (w # None => w.start <= now)
        /\ f \in [Seconds -> Nat] /\ RateKept(p, w, f)
    <3>1. LimitKept(t, d) /\ PolicyTyped
      BY DEF SpendInv
    <3> QED BY <1>3, <3>1 DEF LimitKept, PolicyTyped, HasLimit
  <2>2. window' = [window EXCEPT ![t][d] = v]
    BY <1>3 DEF Spend
  <2>3. spends' = [spends EXCEPT ![t][d] = g]
    BY <1>3 DEF Spend
  <2>4. at = IF w = None \/ now - w.start >= p.period THEN [spent |-> 0, start |-> now] ELSE w
    BY <2>1 DEF spendWindowAt
  <2>5. at.spent + amount <= p.limit
    BY <1>1, <1>3 DEF WithinLimits, HasLimit
  <2> HIDE DEF p, w, f, at
  <2>6. at \in Windows
    <3>1. now \in Nat
      BY DEF Seconds
    <3> QED BY <2>1, <2>4, <3>1 DEF Windows
  <2>7. at.start <= now
    <3>1. now \in Nat
      BY DEF Seconds
    <3> QED BY <2>1, <2>4, <3>1
  <2>8. v \in Windows /\ v.start = at.start /\ v.spent = at.spent + amount
    BY <2>6 DEF Windows
  <2>9. v # None
    BY <2>8, NoneAssumption
  <2>10. g \in [Seconds -> Nat]
    BY <2>1
  <2>11. g = [f EXCEPT ![now] = f[now] + amount]
    OBVIOUS
  <2> HIDE DEF v, g
  <2>12. RateKept(p, v, g)
    BY <2>1, <2>4, <2>5, <2>8, <2>9, <2>11, SpentKept
  <2>13. /\ window' \in [Treasuries -> [Denoms -> Windows \cup {None}]]
         /\ \A u \in Treasuries, e \in Denoms :
              window'[u][e] = IF u = t /\ e = d THEN v ELSE window[u][e]
    <3>1. v \in Windows \cup {None} /\ window \in [Treasuries -> [Denoms -> Windows \cup {None}]]
      BY <2>8 DEF SpendInv, PolicyTyped
    <3> QED BY <2>2, <3>1, EntryWritten
  <2>14. /\ spends' \in [Treasuries -> [Denoms -> [Seconds -> Nat]]]
         /\ \A u \in Treasuries, e \in Denoms :
              spends'[u][e] = IF u = t /\ e = d THEN g ELSE spends[u][e]
    BY <2>3, <2>10, EntryWritten DEF SpendInv, PolicyTyped
  <2>15. PolicyTyped'
    BY <1>1, <2>13, <2>14 DEF SpendInv, PolicyTyped
  <2>16. LimitKept(t, d)'
    <3>1. window'[t][d] = v /\ spends'[t][d] = g /\ policy'[t][d] = p /\ v.start <= now'
      BY <1>1, <2>7, <2>8, <2>13, <2>14 DEF p
    <3> QED BY <2>1, <2>12, <3>1 DEF LimitKept
  <2>17. \A u \in Treasuries, e \in Denoms : u # t \/ e # d =>
           policy'[u][e] = policy[u][e] /\ window'[u][e] = window[u][e] /\ spends'[u][e] = spends[u][e]
    BY <1>1, <2>13, <2>14
  <2> QED BY <1>1, <2>15, <2>16, <2>17, OneEntryKept
<1> QED BY <1>2, <1>3

\* Every step.
LEMMA StepSpending ==
  ASSUME IInv, SpendInv, [Next]_vars
  PROVE  SpendInv'
<1>0. now \in Seconds /\ now \in Nat
  BY DEF IInv, TypeInv, Seconds
<1>1. ASSUME UNCHANGED policyVars, now' \in {now, now + 1} PROVE SpendInv'
  <2>1. now' \in Nat /\ now <= now'
    BY <1>0, <1>1
  <2> QED BY <1>0, <1>1, <2>1, QuietSpending
<1>2. CASE \E by \in Accounts, t \in Treasuries, a \in Payees, d \in Denoms, amount \in Amounts :
             Spend(by, t, a, d, amount)
  <2>1. Amounts \subseteq Nat
    BY TreasuryAssumption
  <2> QED BY <1>0, <1>2, <2>1, SpendSpending
<1>3. CASE \E by \in Accounts, t \in Treasuries, d \in Denoms, p \in Policies : SetSpendPolicy(by, t, d, p)
  BY <1>3, PolicySpending
<1>4. CASE \/ \E a \in Officers : CreateTreasury(a)
           \/ \E by \in Accounts, t \in Treasuries :
                \/ \E a \in Officers : SetAdmin(by, t, a)
                \/ \E a \in Accounts : RevokeRole(by, t, a)
                \/ \E paused \in BOOLEAN : SetPaused(by, t, paused)
                \/ \E g \in Grants : AssignRole(by, t, g[1], g[2])
           \/ \E by \in Accounts, p \in ParamChoices : UpdateParams(by, p)
  <2>1. UNCHANGED policyVars /\ now' = now
    BY <1>4 DEF CreateTreasury, SetAdmin, RevokeRole, SetPaused, AssignRole, UpdateParams
  <2> QED BY <1>1, <2>1
<1>5. CASE \/ \E by \in Accounts, t \in Treasuries, a \in Payees, d \in Denoms, amount \in Amounts,
                 s \in Schedules : CreateLock(by, t, a, d, amount, s)
           \/ \E d \in Denoms, amount \in Amounts :
                \/ PayFee(d, amount)
                \/ \E t \in Treasuries : Deposit(t, d, amount)
                \/ \E deal \in Deals : OpenEscrow(deal[1], deal[2], deal[3], d, amount)
  <2>1. UNCHANGED policyVars /\ now' = now
    BY <1>5 DEF CreateLock, PayFee, Deposit, OpenEscrow
  <2> QED BY <1>1, <2>1
<1>6. CASE \E by \in Accounts, i \in LockIds :
             \/ ClaimLock(by, i) \/ RevokeLock(by, i)
             \/ ReleaseEscrow(by, i) \/ DisputeEscrow(by, i)
             \/ \E payBeneficiary \in BOOLEAN : ResolveEscrow(by, i, payBeneficiary)
  <2>1. UNCHANGED policyVars /\ now' = now
    BY <1>6 DEF ClaimLock, RevokeLock, ReleaseEscrow, DisputeEscrow, ResolveEscrow, settle
  <2> QED BY <1>1, <2>1
<1>7. CASE NextBlock \/ ExportAndImport \/ UNCHANGED vars
  <2>1. UNCHANGED policyVars /\ now' \in {now, now + 1}
    BY <1>7 DEF NextBlock, ExportAndImport, vars
  <2> QED BY <1>1, <2>1
<1> QED BY <1>2, <1>3, <1>4, <1>5, <1>6, <1>7 DEF Next

\* The limit bounds every stretch of a period.
LEMMA RateFollows ==
  ASSUME SpendInv
  PROVE  RateIsLimited
<1> SUFFICES ASSUME NEW t \in Treasuries, NEW d \in Denoms, HasLimit(t, d), NEW s \in Seconds
             PROVE  SumFunctionOnSet(spends[t][d],
                      {u \in 1 .. MaxTime : s <= u /\ u < s + policy[t][d].period})
                      <= 2 * policy[t][d].limit
  BY DEF RateIsLimited, Seconds
<1> DEFINE p == policy[t][d]
           w == window[t][d]
           f == spends[t][d]
           S == {u \in 1 .. MaxTime : s <= u /\ u < s + p.period}
<1>1. RateKept(p, w, f) /\ p \in PolicySets /\ p.limit # None
  BY DEF SpendInv, LimitKept, PolicyTyped, HasLimit
<1>2. p.limit \in Nat
  BY <1>1 DEF PolicySets, Limits
<1>3. S = Between(s, s + p.period) /\ S \in SUBSET Seconds
  BY DEF Between, Seconds
<1>4. Paid(f, S) <= 2 * p.limit
  <2>1. CASE w = None
    <3>1. \A u \in S : f[u] = 0
      BY <1>1, <1>3, <2>1 DEF RateKept
    <3> HIDE DEF S, p, f, w
    <3>2. Paid(f, S) = 0
      BY <1>3, <3>1, PaidNothing
    <3> QED BY <1>2, <3>2
  <2>2. CASE w # None
    <3> HIDE DEF S, p, f, w
    <3> QED BY <1>1, <1>3, <2>2 DEF RateKept
  <2> QED BY <2>1, <2>2
<1> QED BY <1>4 DEF Paid

\* What the query answers is what a spend is held to.
LEMMA CapacityFollows ==
  ASSUME IInv, SpendInv
  PROVE  CapacityIsHonoured
<1> SUFFICES ASSUME NEW t \in Treasuries, NEW d \in Denoms, NEW amount \in 1 .. Supply[d]
             PROVE  WithinLimits(t, d, amount) /\ amount <= Available(t, d)
                      <=> amount <= MaxSingleSpend(t, d)
  BY DEF CapacityIsHonoured
<1> DEFINE p == policy[t][d]
           free == Available(t, d)
           spent == spendWindowAt(t, d).spent
<1>1. amount \in Nat /\ amount >= 1
  BY TreasuryAssumption
<1>2. free \in Int
  BY DEF Available, IInv, TypeInv
<1>3. p # None => p \in PolicySets
  BY DEF SpendInv, PolicyTyped
<1>4. spent \in Nat
  <2>1. window[t][d] \in Windows \cup {None}
    BY DEF SpendInv, PolicyTyped
  <2> QED BY <2>1 DEF spendWindowAt, Windows
<1>5. WithinLimits(t, d, amount) <=>
        (p # None => /\ p.perTx # None => amount <= p.perTx
                     /\ p.limit # None => spent + amount <= p.limit)
  BY DEF WithinLimits
<1> DEFINE one == IF p = None \/ p.perTx = None THEN free ELSE Least(p.perTx, free)
<1>6. MaxSingleSpend(t, d) =
        IF p = None \/ p.limit = None THEN one
        ELSE Least(one, IF p.limit - spent < 0 THEN 0 ELSE p.limit - spent)
  BY DEF MaxSingleSpend
<1> HIDE DEF p, free, spent
<1>7. one \in Int /\ (amount <= one <=> amount <= free /\ (p # None /\ p.perTx # None => amount <= p.perTx))
  BY <1>1, <1>2, <1>3 DEF Least, PolicySets, Limits
<1> HIDE DEF one
<1>8. CASE p = None \/ p.limit = None
  BY <1>5, <1>6, <1>7, <1>8 DEF free
<1>9. CASE ~(p = None \/ p.limit = None)
  <2>1. p.limit \in Nat
    BY <1>3, <1>9 DEF PolicySets, Limits
  <2>2. amount <= MaxSingleSpend(t, d) <=> amount <= one /\ spent + amount <= p.limit
    BY <1>1, <1>4, <1>6, <1>7, <1>9, <2>1 DEF Least
  <2> QED BY <1>5, <1>7, <1>9, <2>2 DEF free
<1> QED BY <1>8, <1>9

\* However spends are spaced over the seconds, whatever becomes of policies,
\* commitments and balances between them, no stretch of a period lets out more
\* than two limits, and what the query says is left is what a spend is allowed
\* (enforceSpendPolicy, SpendCapacityAt).
THEOREM SpendingAlwaysLimited == Spec => []SpendingIsLimited
<1>1. Init => IInv /\ SpendInv
  BY InitStep, InitSpending
<1>2. IInv /\ SpendInv /\ [Next]_vars => (IInv /\ SpendInv)'
  BY NextStep, StepSpending
<1>3. IInv /\ SpendInv => SpendingIsLimited
  BY RateFollows, CapacityFollows DEF SpendingIsLimited
<1> QED BY <1>1, <1>2, <1>3, PTL DEF Spec

=============================================================================
