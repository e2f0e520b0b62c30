# Yamale: a formal model of the chain and its clients

Yamale is a permissioned Cosmos SDK chain (Go, `x/`) with browser clients around it (TypeScript, `clients/`) and a
server for key ceremonies (`tools/ceremony`). The chain's logic is in fifteen modules under `x/`; each keeps state in
`collections` stores, changes it in message handlers and, in some modules, in a block hook, and is exported to and
rebuilt from a genesis file. The clients run on promises, timers and messages between windows, and talk to servers
that may answer late, twice or not at all. This directory holds TLA+ specifications of both kinds, the TLC
configurations that check them, and proofs that TLAPS checks.

## The system

**The chain.** Every message is one transaction: a handler that returns an error leaves no trace. Messages of a block run one
after the other, then each module's end blocker. So there is no concurrency inside a step; what is hard is the
order of messages from parties who do not know of each other, what the end blocker finds when it runs, state that
one handler computes and another one uses many blocks later, parameters that governance moves in between, and a
restart of the chain from its own export. An error in an end blocker is worse than a refused message: it fails
the block, and every block after it.

**The clients.** Nothing is atomic past an `await`: state is read before one and used after it, answers overtake each
other, a page is closed or reloaded between any two steps, and a timeout says nothing about what the other side did.
What is at stake is what a person believes: that what they signed is what they saw, that a tick means the money
moved, that the words on their paper are the key in the group.

| Component | State | Operations | What makes it correct | Here |
|---|---|---|---|---|
| `x/netting` | cycles, positions, reserves, commitments, held slices, obligations | post, withdraw, submit, abandon, parameters; end blocker closes windows and retries held slices | collateral covers every net debt, slices sum to zero, custody backs reserves, windows settle | modelled |
| `x/enforcement` | cases, votes, freezes, three queues, seizure ledger | open, emergency freeze, vote, withdraw, reverse, release, veto, sweep, parameters; end blocker decides, executes, expires, prunes; send restriction | a freeze has one live case behind it, a stopped case takes nothing, limits of the window hold | modelled |
| `x/custody` | assets, attestors, deposits, attestations, reserve reports and figures, redemptions | attest deposit, report reserve, request and settle redemption, withdraw fees, registers, parameters | what is issued and owed was deposited, an external reference counts once, more is issued only up to what was attested, redemptions settle | modelled |
| `x/treasury` | treasuries, balances (total and locked), roles, spend policies and windows, locks, escrows, active lock counts | create, deposit, spend, lock, claim, revoke, escrow open/release/dispute/resolve, roles, policy, pause, fee sweep | locked is what live locks still hold, custody is totals plus open escrows, spends stay within the policy, locks pay what vested and no more | modelled |
| `x/tokenisation` | collections, assets, vaults, positions, sale reports, issued shares of parcels | create, mint, fractionalise, transfer, fund, report/attest/dispute/resolve/pay/finalise a sale, claim, redeem; send restriction | entitlements never exceed what a vehicle was paid, a contested price does not pay out | planned |
| `x/land` | parcels, transfers, authorities, uniqueness indexes | register, propose, validate, attest, object, complete, freeze, encumber, restrict, authorise fractions | title moves only by a validated, attested, unopposed sale; land is not sold twice; nobody can hold up what is agreed | partly |
| `x/validatorgov` | applications, allowlist, rotations and their queue, demotions | apply, approve, rotate, recover, cancel, attest ownership, set power; end blocker completes rotations and demotes; ante gates | one operator per validator, no concentration above the caps, every pause is undone | planned |
| `x/constitution` | invariants, amendments, ratifications, queue | propose, ratify, withdraw; end blocker enacts or lapses; ante guard | the settlement changes only by enough ratified power after its delay | planned |
| `x/oracle` | rates, votes, feeders, miss counters, appraisers, appraisals | submit, delegate, appraiser registry; end blocker closes rounds | weighted median of enough power, stale rates are unusable | planned |
| `x/stablecoin`, `x/amm`, `x/emission`, `x/builderfee` | issuers; pools; provisions; builders | approve, mint, burn; create, join, exit, swap; begin blocker issues; register | limits, constant product, schedule, split | planned |
| `x/alias`, `x/paymsg` | identities, jurisdictions, role grants, viewing keys; participants, payment records | registers; payments | one owner per alias, grants within their perimeter | planned in part: formats and encodings are data |
| `clients/ceremony` with `tools/ceremony` | the server's record of a ceremony (invites, submissions, attestations, notes); each page's step, key and view; paper | setup, reissue, export; generate, write down, read back, submit, attest, re-enter the words | one group; no phrase twice; an abandoned key stays out and on record; everybody gets to attest | partly |
| `clients/connect` with `clients/wallet` | promises, listeners and timers of an application page; the popup and its pending request | request, ready, reply, closed check, timeout; approve, decline, done | what is signed is what was shown; every request settles | partly |
| `clients/app` (paying) with `clients/sdk` (signing) | the form, lookups under way, payments under way, people paid; mempool and blocks | type, read a code, send, leave, restart; sign, broadcast, wait | a tick means settled, a payment goes to whom the screen named | partly |
| other `clients`, `mpc`, `app`, `cmd`, `bot`, other `tools` | displays of the chain; key shares; wiring | - | - | not modelled: cryptography, wiring, I/O |

Modules meet in few places. `x/netting` reads which participants `x/paymsg` has approved and moves coins through
`x/bank`. `x/enforcement` reads roles and perimeters from `x/alias`, limits on its parameters from
`x/constitution`, ceilings from `x/validatorgov`, powers from `x/staking`; its send restriction is one of several
that `x/bank` runs on every transfer (another is `x/tokenisation`'s). `x/tokenisation` reads parcels of `x/land`.
`x/validatorgov` jails through `x/staking`. Where a module reads another one, the model has a variable for what it
sees, moved by an action of its own (`ApproveParticipant`, `RoleMoved`, `PowerMoves`, `MoneyMoves`). The clients meet the
chain through queries and transactions only; `Payments` has as much of a chain as the signer sees.

The hazards listed in `PROJECT.json` say, line by line, what can go wrong that a unit test would hardly reach, and
which property is there to catch it.

## Files

| Module | Role |
|---|---|
| `Netting`, `Enforcement`, `Custody`, `Treasury`, `Land` | five modules of the chain |
| `Ceremony`, `Connect`, `Payments` | three client programs, each with the server, window or node it talks to |
| `SettlementPromise` | what netting promises, in terms of wealth and debts alone |
| `TreasuryPromise` | what the treasury promises those it owes, in terms of free, pledged and paid money alone |
| `MCNettingRestart`, `MCNettingStuck` | instances of `Netting` |
| `MCEnforcementCases`, `MCEnforcementWindow` | instances of `Enforcement` |
| `MCCustody`, `MCTreasury`, `MCLand` | instances of `Custody`, `Treasury` and `Land` |
| `MCCeremony`, `MCConnect`, `MCPayments` | instances of the client modules |
| `SumTheorems` | sums over finite sets, for all the proofs |
| `NettingProofs` | proofs about `Netting` |
| `EnforcementProofs` | proofs about `Enforcement` |
| `CustodyProofs`, `TreasuryProofs`, `LandProofs` | proofs about `Custody`, `Treasury` and `Land` |
| `CeremonyProofs` | proofs about `Ceremony` |
| `ClientProofs` | proofs about `Connect` and about `Payments` |

Operators named `X_Something` with a comment that starts with *Fault* are plausible bugs of the definition `X`;
no specification uses them. They exist to show that each property notices one.

## Netting

`Netting.tla` models `x/netting`: deferred multilateral net settlement between approved participants, one
*slice* (a currency of a settlement window) at a time, against reserves prefunded into the module account.

| State | Code |
|---|---|
| `params` | `Params` (`cycle_blocks`, the policy of each currency, `max_hold_cycles`) |
| `currentCycle`, `cycleSeq`, `cycleStatus`, `outcome` | `CurrentCycle`, `CycleSeq`, `Cycle` and its per-currency outcomes |
| `position`, `reserve`, `locked`, `nettedTotal` | `Position`, `Reserve`, `Locked`, `NettedTotal`; an absent entry is zero |
| `held`, `heldSince`, `retryCursor`, `escalateCursor` | `HeldSlice`, `HeldSince`, `RetryCursor`, `EscalateCursor` |
| `obligations` | `Obligation`, in order of id |
| `phase`, `pending`, `groups` | where the block is: delivering messages, retrying the collected held slices, closing the window's currencies |
| `approved`, `balance`, `custody` | what the module sees of `x/paymsg` and `x/bank` |
| `overdue` | the slices named by the `EventHoldOverdue` events of the last boundary |

A message is one atomic action, since the SDK rolls a failing handler back. `EndBlocker` is a sequence of
actions (`EndBlockIdle`, or `EndBlockCollect`, the `Retry*` steps, `CloseStart`, `CloseSettles`/`CloseHolds`
per currency, `EndBlockFinish`) between which no message runs; each `trySettle` branch commits or is dropped as
a whole. `ExportAndImport` stops the chain between two blocks and starts it from its own export: commitments
and the retry queue are rebuilt, hold stamps and netted totals are lost.

`SettlementPromise.tla` says what the module promises whoever uses it: wealth (own balance plus reserve) moves
at once (`PayNow`), becomes due (`Owe`), is discharged to the last unit or not at all (`Discharge`), or is
given up without anybody's wealth moving (`GiveUp`). `KeepsPromise` shows the module implements it, with
`Wealth` and `Due` as the refinement mapping.

### Runs

| Run | Question | Bounds |
|---|---|---|
| `netting_restart` | Does any order of posting, owing, withdrawing and closing break collateral, custody or the ceiling on a chain that starts empty; does a restart at any block, a parameter change or a new participant lose anything; does every window settle? | 2 participants, one of them an applicant; 1 currency, 3 obligations, 3 cycles |
| `netting_stuck` | With a slice that can never settle and one that fails half way in the queue, does what fails leave every reserve alone, are the others reached, is the queue the record, are old holds reported? | 3 participants, 2 currencies; the window's first currency does not balance, in its second one debtor has cover and the other is short, until a payment of a later window reaches him; 1 new obligation, 1 slice per block, 6 cycles |

The two participants of `netting_restart` cannot form a cycle of debts; that collateral, custody and the zero sum (`SlicesBalance`, in no run) hold
for any number is proved. `NettedWithinCeiling` speaks of the time between two starts of the chain, since the running total is
not exported (below).

`netting_stuck` starts from states `InitGenesis` would refuse (the code's own comments call a failure to settle
"a bug in this module"): the retry machinery exists for exactly such states, and on states that pass validation
`SettlementCannotFail` says it never runs except for slices the genesis itself brought. Its second slice is the one of
`settlement_test.go:280`: `settleGroup` debits one debtor before it finds the other short, and drops the branch. `KeepsPromise` is
what notices if it did not (`CloseHolds_HalfDone`): a debtor's wealth would fall with nothing discharged.

Heights are counted modulo `HeightPeriod`, a common multiple of every `cycle_blocks` in use: the end blocker
reads a height only modulo `cycle_blocks`, so nothing is lost. `MaxCycle` and `MaxObligations` bound cycles and
submissions; liveness is stated for the windows that have a successor within the bound.

Fairness is weak fairness of `EndBlocker` alone: consensus keeps producing blocks. No message is ever assumed
to be sent.

Noticed while modelling, without a run of its own: `cycle_blocks = 0` strands the open window and its collateral, and
`msg_server.go:26` says a position already taken settles whatever governance decides afterwards (so the instances
never set it to zero once a window is open); the running total behind the aggregate ceiling is not exported
(`keeper/genesis.go:152`), so after a restart a window may net more than the ceiling; a cycle keeps the status
HELD after its last held slice was abandoned (`msg_server_abandon.go:172`), with nothing waiting to be retried; and since
the abandoned slice's own outcome stays HELD too, a restart queues it again (`genesis.go:71`) and the next boundary
records it as settled, although the outcome is recorded "so a reader of history can tell" the two apart
(`msg_server_abandon.go:170`).

### Proofs

`SumTheorems.tla` proves what is needed about sums over finite sets (the fold of the community modules is
unfolded once, everything else is by induction over subsets). `NettingProofs.tla` proves `Spec => []TypeOK`.
TypeOK alone is not inductive: `EndBlockFinish` opens cycle `cycleSeq`, so the invariant adds that the model has
room for it while the end blocker is under way. On top of it, for every number of participants, currencies and
cycles and every set of amounts:

* `AlwaysCollateralised`: inductive with the types; each action's effect on commitments is a lemma.
* `AlwaysBalanced` and `AlwaysBacked`: a transfer between two positions leaves their sum alone; settling adds a
  row that sums to zero to the reserves, so custody needs no coin to move.
* `SettlementNeverFails`: if no genesis holds a slice, none is ever held. The invariant `SafeInv` says that
  cycles not yet opened are empty, that what the open window owes in each currency still to be settled is
  committed, and that nothing is recorded as held; a row that sums to zero has equal debits and credits, so
  `CanSettle` holds whenever a currency is closed. Restarts rely on the guard `Validate` and on the rebuilt sum
  being at least the open window's term.

The second half of `NettingProofs` rests on `RecordInv`, which says that the module's several notes of the same thing agree:
what the phase and the open window are (`ClockInv`), that cycles not opened are empty (`UnopenedIsEmpty`), what an outcome may say
of the open window and of closed ones (`WindowInv`), and that every queued slice has an outcome that says "held" (`QueueInv`). From it:

* `CommittedAlwaysOwed`: what was added to and taken from a participant's commitment one obligation, one settlement and one
  abandonment at a time is what its unsettled slices owe. `AlwaysCollateralised` bounds a commitment; this says it is the right one.
* `ExportAlwaysImportable`: with it, with `FileInv` (outcomes and obligations are what `Validate` accepts) and `DueCovered`
  (no unsettled slice nets more than was owed into it), a restart from the chain's own export is always possible. `DueCovered`
  is not something `Validate` checks of a foreign file, so it is asked of the genesis; the theorem also says every export has it.
* `SettlementPromiseKept`: the refinement, `Spec => KeepsPromise`. Each action is `PayNow`, `Owe`, `Discharge`, `GiveUp` or a
  stutter of what `Wealth` and `Due` show; a restart is a stutter, because what is due is worked out from what the export holds.
* `CeilingHolds`: an action property; it needs the lengthening of `obligations` to add exactly the new term to a sum.
* `QueueAlwaysMatches`, with two hypotheses the code makes necessary: no restart, and a genesis in which nothing was given up. An
  abandoned slice keeps the status HELD and its queue entry goes, but `InitGenesis` rebuilds the queue from the outcomes, so a restart
  takes up again what governance had given up (noticed above). Within one run of the chain queue and record agree.

* `SettlementAlwaysFinal`: the outcome and the positions of a settled slice are never written again. The record and the queue are
  separate collections, so it takes `QueueInv` (a retry or an abandonment only reaches slices whose record says "held"),
  `WindowInv` (the slice being closed has not settled) and the restart, which takes outcomes and positions back as they were.
  It is stated in `NettingProofs` and has no run of its own.

Liveness (`WindowsSettle`, `FundedHoldsClear`, `OverdueReported`) is model-checked only, being out of the prover's reach.

## Enforcement

`Enforcement.tla` models `x/enforcement`: a case freezes its target provisionally on one signature, the validator
set confirms or rejects it, a confirmed seizure waits for a delay that grows with its value and is carried out by
the end blocker within a rolling window.

| State | Code |
|---|---|
| `params` | `Params`: voting and provisional periods, threshold, delay and its tiers, window, caps, ombudsman |
| `caseSeq`, `cases`, `voted` | `CaseSeq`, `Case`, `Vote` |
| `freeze` | `Freeze`; `NoFreeze` is an absent entry, `expires = 0` a permanent freeze |
| `votingQueue`, `expiryQueue`, `executionQueue` | the three queues, as sets of (height, key) |
| `ledger`, `recovered`, `casesPassed` | `SeizureLedger`, `Recovered`, `CasesPassed` |
| `history` | every ledger record ever written; a history variable, read by one property only |
| `height`, `phase`, `due` | where the block is and what the running step of `EndBlocker` has collected |
| `power`, `bonded`, `lastTotal`, `roles` | what the module reads of `x/staking` and `x/alias` |
| `liquid`, `staked`, `unbonding`, `vault` | the targets' money in `x/bank` and `x/staking`, and what reached the recovery destination |

Each message is an action (`OpenCase`, `EmergencyFreeze`, `VoteCase`, `WithdrawCase`, `ReverseCase`,
`EmergencyRelease`, `OmbudsmanVeto`, `Sweep`, `UpdateParams`), including the early decision inside `VoteCase`.
`EndBlocker` is `EndBlockStart`, one `ResolveDue` per due vote, `ExecuteStart`, one `ExecuteDue` per due seizure
and `EndBlockFinish` (expire, prune, next height). `ExportAndImport` rebuilds the queues, the total and the
counter from cases and freezes. `MoneyMoves` is what the target and others do with its money: the send
restriction is a guard on it, so a road around it would show.

Abstracted: reasons, evidence and the legal instrument (a message has them or is refused); the emergency flag and
abstentions, which change no decision; the reset of a frozen account's withdraw address; value is counted in one
capped denomination; the batch limits of 256 pruned records a block and of delegations walked at a time are left
out (no instance comes near them); the guards for a zero window or delay cannot be reached past `Params.Validate`. A stake
moves within a block while the bonded set and `LastTotalPower` follow at its end, as in `x/staking`. The periods
and the threshold governance may install are limited to the `Settlements` the constitution fixes.

### Runs

| Run | Question | Bounds |
|---|---|---|
| `enforcement_shifts` | Can any order of messages and end-of-block steps leave a case in disagreement with its freeze and its queues, while powers, the grant, the threshold and the ombudsman change, the target's money moves and the chain restarts; does every vote end, and does anything a frozen account holds leave it other than to the recovery destination? | 1 case, 2 power tables, 3 parameter sets (one refused by `Validate`), all five movements of money, 5 blocks |
| `enforcement_window` | Can two cases, against two targets or one after the other against the same one, leave cases and freezes in disagreement or take something for a stopped case? Do two seizures due together respect the window by value and by count, also after old records were pruned, and is the deferred one carried out? | 2 cases, 2 targets, every message, window of 2 blocks, delays of 1 and 2 and an amendment that makes both 1, 9 blocks so that a deferral and its retry fit |

One validator is all the set in `enforcement_window`, since the window takes many blocks; votes that are split, late or
reweighed are the subject of `enforcement_shifts`. The theorems below cover both for any number of either.

`MaxCases`, `MaxHeight`, `MaxFunds` and `LastOpening` bound the instances. The last opening is early enough that
every case opened has time to end before `MaxHeight`, which is what lets the liveness properties be stated
without an exception for the bound. Fairness is weak fairness of `EndBlocker`: consensus keeps producing blocks
and nobody is assumed to send a message.

Noticed while modelling, without a run of its own: `countPassed` is said to equal what `InitGenesis` rebuilds
(`execute.go:265`), but a passed case that is reversed or released stays counted until a restart, which counts the
cases that are `PASSED` then (`genesis.go:78`); a transfer that `collect` makes in the end blocker (`execute.go:402`)
passes the send restrictions of other modules, and the error of one would fail the block; a validator that has left the bonded set is matched by its account
name and can no longer withdraw the case it opened under its operator name (`msg_server_case.go:491`), which a comment
there says it may; a vote weighs the power a validator has when it votes against
the total at the opening (`msg_server_case.go:272`), so tallies of more than the whole are possible when stake
moves; the ombudsman's office and the enforcement role are separated only when parameters are set
(`msg_server.go:28`), and the role can be granted to the ombudsman afterwards; what is paid to an account during
its delay is taken too and may carry the window past its cap (`window.go:74`), which is why `WindowLimitsHold` is
checked without deposits; lengthening the window cannot bring back records already pruned (`window.go:177`).

### Proofs

`EnforcementProofs.tla` proves `TypeCorrect`. Types are not inductive alone: the delay and the window
are computed from the parameters in force, so `TypeInv` adds that these validate. It goes on to prove, for all sets of accounts,
validators, parameters and every number of cases and blocks:

* `FreezesAnsweredFor`, `ProvisionalUndecided` and `RestartSafe`: invariants.
* `StoppedStaysStopped` and `TakenWhileOrdered`: action properties.

* `SeizureAlwaysWaits` and `FrozenFundsNeverLeave`: action properties about time and money.
* `WindowLimitsAlwaysHold`: the rolling limits, under the two conditions the property's comment states.

All rest on one inductive invariant, `Inv`: types, and `Consistent`, the conjunction of

* `FreezeIsAnsweredFor`: frozen exactly while one live case names the account;
* `Settled`: a freeze has an expiry exactly while its case is being voted on, and not before the vote ends;
* `Queued`: each queue holds a key exactly when the case or the freeze says so;
* `VotesAhead` and `DueIsQueued`: no vote is past its end once the end blocker has been through the queue, and
  what a step has collected is what is still due;
* `Ordered` and `Booked`: only seizures are held or recover anything, and the total is the sum.

`FreezeIsAnsweredFor` needs the others because the end blocker works from the queues: `expireFreezes` lifts a
queued expiry without looking at the case, and `resolveDueCases` decides what is queued without looking for what
is not. The proof shows on the way that `expireFreezes` never finds anything to lift: every provisional freeze is
made permanent or lifted by its vote in the same block at the latest. One lemma per kind of write (open, decide,
stop, sweep, carry out) is shared by the actions that make it.

Assumptions are `BoundAssumption` and `SetAssumption` of `Enforcement.tla`: bounds are naturals, validators are
finite, parameters and powers have their types.

`SeizureAlwaysWaits` follows from `Inv` and what each kind of write does to a case: a decision holds a seizure under the parameters then in
force, a deferral moves it later, and it is carried out in no block before the one it is queued at, whatever was amended since. `FrozenFundsNeverLeave` shows that of the five movements of money only
`collect` takes anything out of a frozen account, and that what it takes all arrives. `NothingEverLost` says it of every
account and of the books too: a step of the module leaves all holdings, the destination and the recovered total as they were, or moves
one amount out of one account, into the destination and onto the total. It is stated in `EnforcementProofs` and has no run of its own.
`WindowLimitsAlwaysHold` is about behaviours in which governance lengthens no window and lowers neither cap nor count
(`LimitsEased`) and nobody pays an account while it is frozen (`NobodyPaysFrozen`). Both are hypotheses of the theorem, as they are conditions of the
property: seizures already carried out cannot be undone by a lower cap, records already pruned cannot be counted by a longer window, and what is
paid in during the delay is taken without having been assessed. In such behaviours a held seizure was assessed at no less than its target
holds (`AssessedInFull`), so what `executeDueSeizures` compares with the room in the window bounds what it then takes; and
pruning removes no record that the window still covers, since a window never begins earlier than it did (`WindowMoves`).

Only model-checked: liveness (`VotesEnd`, `HeldSeizuresEnd`), which is out of this prover's reach.

## Custody

`Custody.tla` models `x/custody`: claims on assets held on other chains. Attestors name deposits, and what is held in
reserve; when enough of them have named a deposit a claim is minted if the reserve covers it. A redemption burns the
claim at once and is paid on the other chain, which attestors confirm.

| State | Code |
|---|---|
| `params`, `assets`, `attestors` | `Params` (threshold, redemption delay, fee, age of reports), `Assets`, `Attestors` |
| `deposits`, `externalRefs` | `Deposits`, `ExternalRefs` |
| `attestations`, `confirmations` | `Attestations`, one collection under ids that cannot meet |
| `redemptions`, `redeemSeq` | `Redemptions`, `RedeemSeq` |
| `reports`, `reserves` | `ReserveReports`, `Reserves` |
| `claims`, `fees` | the supply of the claim's denomination in `x/bank`, outside and inside the module account |
| `confirmed` | every confirmation sent; a history variable |

One action per message. A handler's error takes back what it stored, so an attestation that completes a deposit the
reserve does not cover is not kept, nor is a confirmation below the threshold. `ExportAndImport` starts the chain from
its own export: attestations are forgotten, spent references and published figures are worked out again. It has the
guard of the import's `Validate`.

| Run | Question | Bounds |
|---|---|---|
| `custody` | Can attestors who disagree, are struck off, report late or start over after a restart get more issued than was deposited, or than two of them reported? | 3 interchangeable attestors, 1 asset, 1 deposit named with 2 amounts, 2 figures (one too low for the larger amount), 1 redemption, thresholds of 2 and 3 (and 1, refused), fees that round up, 3 blocks: reports of the first are stale in the third, a redemption of the first is payable in the second |
| `custody_settles` | a statement of the repository the code does not keep (below) | 2 deposits, no change of parameters |

There is no fairness: everything waits for a person.

### What disagrees with the repository

* `custody_settles`: a confirmation below the threshold is "recorded, not settled" and stands for the next attestor
  (`msg_server.go:386`), but the handler returns an error after storing it, and a transaction that fails stores
  nothing. The threshold is at least two, so no redemption is ever settled. The tests call the handler twice on one
  context (`keeper_test.go:254`), where the write survives the error.

Noticed while modelling, without a run of its own: an attestor struck off "stops counting immediately" (`reserve.go:59`),
and old reports stop counting too, but only when somebody reports again; until then the published figure stays as it
was and claims are minted against it. What an attestor attested of a deposit counts after they are struck off. The first attestor
to name a deposit fixes its amount and recipient (`msg_server.go:117`), so a wrong first word blocks that deposit for
good. An export does not validate after an attestor who has reported is struck off, nor with a redemption whose fee
is all of it, although export and import "must round-trip byte-for-byte" (`genesis.go:70`).

### Proofs

`CustodyProofs.tla` proves `OwedWasDeposited` and `IssuedWasReported` for any number of attestors, assets, deposits
and redemptions. The invariant is types (with numbers not yet drawn being free and parameters that validate),
`ReserveInv`, that every published figure is reached by the reports of two attestors, and `OwedIsDeposited`
itself. The sums change in one term at a time, by the lemmas of `SumTheorems`; that a lowest report exists and is
below all of them is an induction over the finite set of who reported. Parameters that validate matter: with a threshold
of one, one attestor could publish a figure.

## Treasury

`Treasury.tla` models `x/treasury`: accounts under shared control, commitments made out of them (locks that vest), and
escrows between two parties. All of it is in one module account, and the module keeps a ledger of its own beside the bank's.

| State | Code |
|---|---|
| `params`, `treasuries`, `treasurySeq`, `roles` | `Params`, `Treasuries`, `TreasurySeq`, `Roles` |
| `total`, `locked` | the two figures of `Balances`; an absent entry is zero |
| `policy`, `window` | `SpendPolicies`, `SpendWindows` |
| `locks`, `lockSeq`, `activeLocks` | `Locks` (escrows among them, under treasury zero), `LockSeq`, `ActiveLockCount` |
| `custody`, `collected`, `outside` | the coins of the module account, of the fee collector and of everybody else |
| `now` | the time of the block, in seconds |
| `spends` | what the policy in force has let through, by second; a history variable |

One action per message, `NextBlock` with the sweep of fees, and `ExportAndImport`. Coins of one message are taken one
at a time, since the handlers do for each what they do for one; a message that fails on its second coin is undone, so
what remains is a message of one coin or none. Holders outside the module are one, since the module never reads a balance. Names,
reasons and the indexes only queries read are left out. `MaxSingleSpend` is what the query of the same name answers.

| Run | Question | Bounds |
|---|---|---|
| `treasury` | Does the ledger agree with the locks and with the bank, do limits bound what leaves, and is every lock kept, while a treasury is funded, handed out, paused, spends, locks, revokes, collects fees and restarts, beside escrows under the same numbers? | 1 treasury, 1 currency of 3 units, 2 locks or escrows, 4 accounts (one the bank pays nothing to), payments of 1 and 3, 3 schedules (vesting by the second with a cliff, in tranches and not revocable, too short), 2 policies, 3 parameter sets (one refused), 4 seconds: the longest schedule has a second in which a third has vested but nothing is paid yet, and one after its end; a window of 2 seconds has room to close and open again |

Schedules of kind "time" behave as a vesting whose cliff is the end, and are not in the instance; the proofs cover them.

`TreasuryPromise` is what the module promises those it owes, without roles, schedules or a figure of what is locked. Money is free or
set aside under a promise; a promise is paid only under itself and never beyond what has been earned of it; what is earned
is never unearned; and what is set aside becomes free again only if it could be taken back, and only as far as it was not
earned. `KeepsPromises` maps `free` to what is available, `pledged` to what a live lock still holds, `earned` to `VestedAmount`. A
payment out of free money takes nothing that is set aside, which is the whole point of the ledger.

There is no fairness: everything waits for a person.

Noticed while modelling, without a run of its own: an export made after any escrow was opened does not validate
("lock belongs to unknown treasury 0", `types/genesis.go:58`), though a test says that "an exported genesis must be valid
input" (`keeper/msg_server_test.go:521`); `ExportAndImport` models `InitGenesis`, which does not validate. `OpenEscrow` does not check that the beneficiary
can be paid, as `CreateLock` does, so a released escrow can be stuck until it is disputed and resolved the other way; it
writes no index by beneficiary, and `InitGenesis` does. Fees are swept into a paused treasury, although pausing stops
funds "in either direction" (`keeper/auth.go:86`), and `SpendCapacity` shows an allowance for a paused treasury
although no client is to be shown one "the chain would then refuse" (`keeper/capacity.go:41`). A limit per period is described as "at
most one period's limit" (`keeper/msg_server_spend.go:20`); two windows fit into one stretch of a period, so it is two, which is what
`RateIsLimited` says. Elapsed seconds times intervals are computed in 64 bits: schedules of about a century with a
tranche per second overflow.

### Proofs

`TreasuryProofs.tla` proves `LedgerAlwaysAgrees` for any number of accounts, currencies, treasuries, locks and escrows.
The invariant `IInv` adds to `LedgerAgrees` the types and `LocksInv`: nothing is paid beyond what a lock is for, an
escrow belongs to treasury zero and has paid nothing while it is open, and any other lock belongs to a treasury and has a schedule that ends
after it starts. The last is needed because what can be claimed is a quotient: `AccruedBounds` shows that
both ways of rounding stay between zero and the whole, so that a claim never exceeds what is still locked. Every action
changes one lock or none; `LockedFollows` and `CustodyFollows` say what that does to the sums, `CountsFollow` to the
counters, and `LockPays` is what claims and revocations have in common. The proof shows on the way that `releaseActiveLock` never
meets a zero.

It also proves `PromisesAlwaysKept`, the refinement: `Spec => KeepsPromises`. To the ledger's invariant `KeptInv` adds, for
every lock, that it has something left to pay while it is live and that nothing was paid before it vested. The second
holds because what has vested never shrinks (`VestedGrows`: both roundings are monotone, and the cliff and the end only add), which is
also why time is a step of the promise. Each action is then one step of it: fees and deposits `Receive`,
`Spend` is `PayOut`, `CreateLock` is `SetAside`, `OpenEscrow` is `PayIn`, a claim or a settled escrow is `Keep`, a revocation is
`TakeBack`; all others change nothing the promise sees.

`SpendingAlwaysLimited` proves what a spend policy bounds, `SpendingIsLimited`, from `IInv` and `SpendInv`: what was paid since
a window opened is no more than what the window says was spent, and within the limit; and any stretch of a period saw at most two limits. The last needs what `RateKept` remembers of the past: what was paid in the period before the present window
opened is at most one limit, too, so that a stretch that reaches into the window has two. `CapacityFollows` compares the two places of the code that
work out the same allowance.

Assumptions are `TreasuryAssumption` and `NoneAssumption`; the latter says that "absent" is neither a lock nor a spend window.

## Land

`Land.tla` models how title moves in `x/land`. The holder proposes a sale, the office that keeps the parcel's file validates it,
other offices attest it, anybody may object while a window is open, and after it anybody may complete it.

| State | Code |
|---|---|
| `params` | `Params` (quorum, challenge window, whether the office that keeps a file may attest) |
| `active`, `scoped` | `Authority.Active`, and what the module sees of `x/alias`: whether the role is granted where the office sits |
| `parcels` | `Parcel` (holder, office, status, freezes); `ByGeometry` and `ByRef` are read off it |
| `transfers` | `Transfer`, in order of id |
| `now` | the time of the block, in seconds |

One action per message, and `NextBlock`. Deeds, encumbrances, restrictions and permissions to fractionalise are left out, since
no transfer reads them; so is a restart, which restores every record.

| Run | Question | Bounds |
|---|---|---|
| `land` | While the office freezes the parcel, is suspended or loses its perimeter and governance moves the quorum: is land sold once, on the word of as many offices as are asked for, and does a sale that is agreed end without an official? | 3 offices, one of which is suspended and moved; 2 people; 1 parcel, 2 sales, 1 freeze; quorums of 2 and 1 (and 0, refused), a window of 1 second, 3 seconds: the quorum of the first, the window over in the second and a competing sale in what is left |

`OneSaleAtATime` says that land never frozen has one open sale at most, and of land that was frozen that it has at most one sale, open or to
come, and one more for every freeze lifted. It cannot say that a freeze stops the open sale or that lifting it lets no second one in, because of what
is noticed below; what it does say needs the guard of `ProposeTransfer`, without which frozen land could be put up for sale. One freeze is all
the instance has room for; the theorem is for any number. Fairness, for `NobodyCanRefuse`: blocks
come, and somebody completes what can be completed. The second is what the code relies on: the step is "callable by anyone, on
purpose" (`keeper/msg_server_transfer.go:190`), and the buyer wants it.

Noticed while modelling, without a run of its own: `CompleteTransfer` asks nothing of the parcel, so frozen land moves and the
freeze is overwritten, although `FreezeParcel` "stops all movement" (`keeper/msg_server_admin.go:213`). Lifting a freeze makes
a parcel REGISTERED whatever it was before, so a freeze and its release during a sale let a second, competing one be proposed, and
both can complete: the former holder's second sale takes the land from the first buyer (`keeper/msg_server_transfer.go:25` says
the status prevents it). A freeze of a frozen parcel is accepted, although
"the keeper refuses a second freeze" (`types/parcel.go:26`), and then one of the two entries is never lifted. A
disputed parcel has no way back but a freeze and its release. If governance lowers the quorum after the last office has
attested, `QuorumAt` is never set and that sale cannot complete.

### Proofs

`LandProofs.tla` proves `SoldOnce`, which states `OneSaleAtATime`, and `TitleAlwaysNeedsMany` for any number of people, offices, parcels and sales. The code counts
attestations, the property counts offices: so the invariant adds to the types and to `OneSaleAtATime` that frozen
land has a freeze to lift (`FreezeToLift`, part of `SalesInv`), that a sale's attestors are all different, that the office which keeps the file is not among them unless some parameters let it, and that nobody else
validates (`Vouched`). `StepTitle` shows that only `CompleteTransfer` changes a holder. `Freezes` uses
`OneSaleAtATime` itself: should a parcel be FROZEN with no entry to lift, no sale of it is open when it becomes REGISTERED.

Three more theorems are stated there, without a run of their own. `DecidedSalesAlwaysStand`: the parcel, seller and buyer of a
transfer are never rewritten, and one that is completed or objected to is never written again; each handler that writes a
transfer is shown to need it `pending`. `LandNeverMoves`: ground, reference and office of a parcel are those it was registered with,
though every handler writes the whole record back. `OneTitleOneGround` follows from it: the uniqueness that `RegisterParcel` checks
once, through the indexes, holds for ever.

The assumption is `LandAssumption`: offices are finite, parameters have their types.

## Ceremony

`Ceremony.tla` models the hosted key ceremony: `tools/ceremony/hostsession.go` (the server), `clients/ceremony`
(the coordinator's and the custodians' pages) and the paper the words are written on.

| State | Code |
|---|---|
| `ceremony`, `invites`, `live`, `revoked`, `generated` | `params`, `invites`, `live`, an invite's `Revoked` and `GeneratedAt` |
| `submissions`, `attestations`, `notes`, `exported`, `complete` | the fields of the same names, and `group.json` |
| `page` | each tab: `credential`, `step`, the key in memory, and `view` as far as the step reads it |
| `requests`, `pending` | requests and answers on their way, setups not yet handled |
| `shown`, `sheets` | what a screen has displayed, what is on paper; nothing in the code holds either |

The server checks a link under its lock, lets go of it, and the handler takes it again. So a request of a page is
three steps: authorised, handled, delivered; a reissue or another setup may come between the first two, and anything
between the last two. A GET is authorised and answered in one step, and the answer travels. Keys, signatures and
fingerprints are what they name: a key is the link and the tab it was made on, a fingerprint the ceremony and the
submissions it is computed from. `OpenedAt`, phases, texts and the export bundle only decide what is displayed.

What may go wrong is a *mishap*: a tab reloaded or opened twice, an answer lost or late, a link reissued without need,
a setup sent twice. `MaxMishaps` bounds them and `Unlucky` says whom they befall. One mishap at any moment of any
interleaving is what the code's comments argue about, case by case; a second one makes the instance too large.

| Run | Question | Bounds |
|---|---|---|
| `ceremony` | Is one group attested, does a link show one phrase, is an abandoned key out of the group and on record, and has a key been on paper before it enters? | 3 custodians (the smallest roster `validateParams` accepts), one with two tabs, 2 setups, 2 links per name, 1 mishap; the lucky custodians are interchangeable |
| `ceremony_ends` | Does everybody attest all the same? | the same with 1 setup and one tab each |

Paper is outside the code, and the model assumes two things of its holders. Whoever passes the read-back has the words on paper: `HeldOnPaper` is
about the order of the screens, not about pens. And a custodian whose link is withdrawn destroys the sheet: the re-entry screen of a
new link, with nothing recorded yet, accepts any valid phrase (`custodian.ts:185`), so words typed from an old sheet would bring an abandoned key
into the group under the new link, and no part of the software would notice. The second half of `AbandonedStaysOut` and `AbandonedAlwaysOut` rest
on that assumption; what they rule out is every way in that needs no such typing.

Fairness: the coordinator sets up and exports (weak), reissues a link whose words are nowhere (strong, since such a
link can stop being one); a page's button is pressed or its request answered (weak, per tab); a custodian opens a link
when they have no page, and reloads one that leads nowhere (strong, per tab). The code justifies the machine's half; the
other half is that people carry on, which is what a ceremony is. Nothing makes a mishap happen.

Noticed while modelling, without a run of its own: a setup does not revoke the links of the one before it, so a request
for words that was authorised before a second setup and handled after it spends a grant of a forgotten link and shows
words that belong to no ceremony (`hostsession.go:908`); they enter no group, and the notes do not mention them. A
poll that dawdles can put an older view under the group screen, which then says that the group does not add up
(`custodian.ts:205`); reloading helps, and `DeadEnd` is that reload.

### Proofs

`CeremonyProofs.tla` proves all four safety properties for any roster, any number of tabs and any bounds: `AlwaysOneGroup`,
`AlwaysOnePhrase`, `AbandonedAlwaysOut` and `AlwaysOnPaper`. None of them is inductive, since each depends on what a page or a
request on its way remembers. The invariant `IInv` says what that can be:

* `LinksInv`: a link on the list is withdrawn or its custodian's live one. This is what makes the second look of a
  handler (`stillLive`) enough after the lock was let go: a link of this ceremony that is not withdrawn is the live one. A link
  of an earlier setup is not marked withdrawn; `Minted` keeps the two apart by the number of the setup.
* `PageInv`: the key a page is about to send belongs to its link and, from the read-back on, is on its custodian's paper.
* `RequestInv`: a request carries the link of its page as long as the page waits for the answer (a reload orphans what it
  had asked), and a submission on its way carries a key that is on paper.
* `GrantInv`: a grant of words is spent once; the words are in an answer under way or were shown, never both, so an answer
  that arrives shows a new phrase, and one that was lost can never be repeated. A grant of this ceremony is of the live link or noted.
* `SubmissionInv`: a recorded key is its custodian's, of a link not withdrawn, and on paper; a complete ceremony is one
  with every submission.

`GroupAlwaysStands`, an action property proved from the same invariant, says that from the first attestation or exported group on, no
setup, submission, attestation or export changes what was signed for.

The group only comes into being once every submission is recorded, and a submission is recorded only where there is none: so
`NothingYet` (while one is missing, nobody has attested and no group is exported) is all that `OneGroup` needs of a
submission, and also of a second setup, which is refused once anything is recorded. That last step needs a roster with somebody on it,
so `CeremonyAssumption` says so; `validateParams` asks for three (`clients/ceremony/src/group.ts:137`).
The other assumptions are that every tab has an owner on the roster and that `NoOne` is nobody's name. IInv was
model-checked on the instance of `ceremony` before it was proved.

## Connect

`Connect.tla` models a signing request: `clients/connect` on the application's side (`client.ts`) and on the popup's
(`provider.ts`), and the page that shows it (`clients/wallet/src/pages/Connect.tsx`).

| State | Code |
|---|---|
| `promise`, `listeners` | the promise of each `request()`, and its `message` listener |
| `handle`, `opened`, `window` | the `Window` a request holds, by number; the popup has a fixed name, so a request made while it is open navigates it and one made afterwards opens another |
| `screen`, `pending`, `busy` | `ConnectPage`: what is shown, `pending`, and the request an `approve()` under way closed over |
| `toApp`, `toWallet` | messages posted and not yet delivered, in order |
| `approved` | the requests approved by a person who had them on the screen; a history variable |
| `speaks` | whether both sides have the same `PROTOCOL_VERSION` |

`approve()` is two steps around its awaits; in between another request may replace the pending one, the popup be
closed or navigated, the timer fire. Origins, the vault behind the password, what the screen says of a transaction and
the watch on the chain afterwards are left out.

`connect` runs three requests (two to compete, a third that does not decode) in up to three windows; it checks what
`TLAPS` proves for all, `SignedAsShown` and that the wallet never sits idle while a request that holds its window waits
(`NobodyWaitsUnseen`), and that every request settles (`EveryRequestSettles`). The only fairness is that of the timer
of three minutes: browsers run the timers of a page that is open. Nothing is asked of the person, of the popup or of
the delivery of messages.

Noticed while modelling, without a run of its own: the client closes the popup when the reply arrives, so the outcome
the page stays open to report (`Connect.tsx:54`) is never seen; a request that was superseded or whose popup was closed
is reported as `rejected`, as if the person had declined (`client.ts`, `WalletError`); and a "ready" left from an
earlier page makes every listener post again, so a request that was declined can be shown a second time.

## Payments

`Payments.tla` models paying from `clients/app`: the screen (`Pay.tsx`), the address book (`book.ts`), payment codes
(`request.ts`, `signing.ts`), `chain.ts`, the signer of `clients/sdk` and as much of a node as the signer can see.

| State | Code |
|---|---|
| `to`, `payee`, `lookups`, `checking`, `e2e`, `confirming`, `stage`, `outcome` | the state of the `Pay` component; `lookups` are its calls of `book.resolve`, one of which belongs to the form as it is |
| `recents` | the list of people paid, on the device; saved contacts are a constant |
| `flights` | calls of `send()` and where in `ChainSigner.submit` they are; they outlive their screen |
| `mempool`, `sequence`, `inBlock` | the node |
| `deviceFailed` | `send()` of the screen ended in an exception; nothing in the code holds it |
| `sent`, `receipts` | every payment sent and every receipt shown; history variables |

A payee stands for the whole instruction. Lookups are answered in any order and may read as "unknown" when the node
cannot be reached; a code is read over an await; an answer of the node may be lost, the wait for the block may run
out, the node may forget a transfer; the person may leave the screen or restart the app at any step.

The effect that looks a changed id up runs before the next event when the person typed it, so `setTo` is one step with it. When a code fills
the form in, the effect runs a frame later; the only thing that can come between and matters is a press of a button on the new id with the old
payee still there, which is `PressedEarly`. Two exceptions are caught nowhere: the signer has no account to sign with (`NoKey`, before the `try` of
`pay()`), and the device has no room for the list of people paid (`NoRoom`, between the outcome and the stage).

`payments` runs two payments, to a saved contact and to a stranger, under two end-to-end ids: enough for a retry of the
same instruction, or a new one, while the first is still in the mempool. `ReceiptsProve` says that what is reported as settled is, once per
id, and that nothing is sent under that id afterwards; it does not say that what is reported as failed is not paid. Its two safety properties are proved, and
so is `RecentsWerePaid`, that the list of people paid names nobody who was not.
`SendingEnds` assumes weak fairness of the end of a signer's call, which has a timeout of its own; nothing is asked of
the node. It excepts the two exceptions above, after which the screen does wait until it is left.

Noticed while modelling, without a run of its own: a payment whose acceptance is lost, or whose block comes after the
timeout, is reported as failed and may still be executed; tried again it can be paid twice, under one end-to-end id
(`Pay.tsx:292`). A payment that settled on a device without room for the list of people paid leaves the screen waiting for a block that has
come (`Pay.tsx:175`). A button pressed in the frame between a code and its effect pays the payee before it, under the new name (`Pay.tsx:170`). The receipt shows the amount and the payee of the form, which a code that finishes reading during the
payment can have changed (`Pay.tsx:239`). The book remembers a payee under the name of the last code read, trusted
or not, and for whomever (`book.ts`).

### Proofs about the clients

`ClientProofs.tla` proves two things of `Connect`. The first is `AlwaysSignedAsShown`, for any number of requests and windows. What a promise resolves with
was decided when the wallet posted it, and that when the button was pressed: so the invariant adds that every message
on its way to the application is honest (a refusal, or the signature of the request it answers, approved) and that
the request of an `approve()` under way is approved. `MembersAppend` and `MembersTail` say what posting and taking a
message do to the set of messages, which is all the sequence is needed for.

The second is `NobodyEverWaitsUnseen`. `ApproveEnds` forgets the pending request, which may be a newer one than was approved: that
one then waits with nothing on its way to it, and is helped by the answer to the *other*, whose `finish()` closes the window
for both. So the invariant `WaitInv` says what the page knows of: in one version, every request pending, under approval or posted to the
page waits and holds the window (`PageInv`), since the window goes when such a request settles; and whoever holds a loaded window is
reached by a "ready", by work the page still has or by an answer to some request that holds it; with two versions, where
no answer closes anything, by an answer of its own (`SeenInv`). `OnlyMembers` says what detaching a listener and posting to the open
window do; `Only` is a recursive function, whose solution exists and picks what it should by induction along the sequence
(`UpTo`, from the well-foundedness of `<`).

Of `Payments`, whose definitions have names of their own (`PayInit`, `PayNext`, `PaySpec`) so that one module can extend
both, it proves `AlwaysPaidAsNamed`, `RecentsAlwaysPaid` and `ReceiptsAlwaysProve` from one invariant:
`Form` (whoever is found, and the lookup still wanted, belong to the id in the form), `Flying` (every call of `send()`
is of a payment sent; one at most reports to the screen, the one sent last, under the id of the composition), and `Receipted` (the
composition's id is the last drawn, and no receipt has it until the screen shows that receipt). The induction shows
why a retry cannot produce a second receipt, or follow a first: an id is renewed exactly when a receipt was shown for it.

With these, every safety invariant and every action property that a run checks is also a theorem. The liveness properties
are model-checked only: liveness under fairness is out of the prover's reach.

## Plan

In order of what a failure would cost. Each component gets a module of its own that can be proved about (named
parts, no recursive operators), one or two instances, and proofs of its types and its central invariant. The
project keeps to about a dozen runs; to make room, the instances above are merged where one instance can ask
both questions, and a disagreement whose finding has been dealt with gives up its run.

1. `Tokenisation`: a dispute replaces the reported price while attestations of the old one count (`keeper/sale.go:180`);
   all vehicles share one module account (`keeper/sale.go:258`). Then `EnforcementTokenisation`, its composition with
   `Enforcement` over one bank: a collection in the end blocker meets the other module's send restriction.
2. `ValidatorGov` and `Constitution`: rotations, demotions and amendments, their queues and their end blockers;
   every pause is undone, no release for somebody else's jailing (`keeper/rotation.go:102`). Abstract specification:
   one operator per seat.
3. `Oracle`, `Stablecoin`, `Amm`, `Emission`: rounds and ages; limits; the product of a pool under rounding,
   against a reference definition over bounded inputs; the schedule.
4. `Alias`, `Paymsg`, `BuilderFee`: registers and grants, as far as they change state others read.

## Not modelled

The modules of the plan above are not modelled yet. Of `x/land`, deeds, encumbrances, restrictions and permissions to fractionalise
are not: they are registers of their own that `x/tokenisation` and readers use, and belong with `Tokenisation`.

On the chain: queries, events, the command line and migrations between versions, which change no state the properties
are about. Of the clients and tools, `Ceremony`, `Connect` and `Payments` model the parts that run a protocol; the
other pages, the vault, the SDK's encoders and the operators' tools display the chain, encode for it or carry bytes to
it. The threshold cryptography of `mpc` is arithmetic over large fields. Gas and fees are left to the SDK. Integers
are unbounded here as `math.Int` is in practice (256 bits); heights are 64-bit and do not overflow.
