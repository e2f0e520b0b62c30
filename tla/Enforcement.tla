---------------------------- MODULE Enforcement ----------------------------
(***************************************************************************)
(* x/enforcement: cases against accounts.  Opening a case freezes its      *)
(* target provisionally; the validators decide; a decided seizure is held  *)
(* for a delay and then carried out by the end blocker, within a rolling   *)
(* window; the ombudsman, governance and an enforcement office can stop it.*)
(*                                                                         *)
(* A message is one atomic action and a refused message is an action not   *)
(* taken.  EndBlocker runs after the messages of a block and is modelled   *)
(* as its calls in order (resolveDueCases case by case, executeDueSeizures *)
(* case by case, expireFreezes and pruneSeizureLedger), driven by phase;   *)
(* no message runs in between.                                             *)
(*                                                                         *)
(* Absence from a store is a distinguished value: status "unopened", the   *)
(* freeze NoFreeze, the amount zero.  Value is counted in one capped       *)
(* denomination.  Grounds, evidence and the legal instrument are data a    *)
(* message is refused without; what is modelled is a message that has them.*)
(***************************************************************************)
EXTENDS Integers, FiniteSets, Functions

CONSTANTS
  Targets,            \* accounts a case may be opened against
  Validators,         \* accounts of validators
  Offices,            \* other accounts: enforcement offices, an ombudsman
  Nobody,             \* the empty ombudsman parameter
  Destination,        \* recovery_destination
  Perimeter,          \* x/alias: <<actor, target>> with the target in reach
  AboveCeiling,       \* x/validatorgov: actors above a concentration ceiling
  Settlements,        \* x/constitution: what it may fix, before and after amendments
  MaxSeizureDelay,    \* MaxSeizureDelayBlocks
  ParamChoices,       \* parameter sets governance may install
  GenesisParams,      \* parameter sets the chain may start with
  PowerTables,        \* x/staking: consensus powers the set may move between
  InitialFunds,       \* bank balance of a target at the start
  InitialStake,       \* tokens a target has delegated at the start
  InitialRoles,       \* holders of ROLE_ENFORCEMENT_AUTHORITY at the start
  RoleMoves,          \* accounts whose grant may be given or taken
  Flows,              \* movements of the targets' own money that may happen
  Restarts,           \* whether the chain may be restarted from its export
  MaxCases,           \* bound: cases opened
  MaxHeight,          \* bound: blocks produced
  MaxFunds,           \* bound: deposits stop at this much in a target and the vault
  LastOpening         \* bound: the last height at which a case is opened

Accounts == Validators \cup Offices
CaseIds == 1 .. MaxCases

Tiers == [threshold : Nat, delay : Nat]
ParamSets == [voting : Nat, provisional : Nat, threshold : Nat, delay : Nat,
              tiers : SUBSET Tiers, window : Nat, cap : Nat, maxSeizures : Nat,
              ombudsman : Accounts \cup {Nobody, Destination}]

ASSUME BoundAssumption ==
  /\ MaxCases \in Nat /\ MaxHeight \in Nat /\ LastOpening \in Nat /\ MaxSeizureDelay \in Nat
  /\ MaxFunds \in Nat
ASSUME SetAssumption ==
  /\ IsFiniteSet(Validators)
  /\ ParamChoices \subseteq ParamSets /\ GenesisParams \subseteq ParamSets
  /\ PowerTables \subseteq [Validators -> Nat]
  /\ InitialFunds \in Nat /\ InitialStake \in Nat
  /\ InitialRoles \subseteq Accounts /\ RoleMoves \subseteq Accounts

Actions == {"freeze", "seize"}
Live == {"voting", "held", "passed"}
Stopped == {"rejected", "expired", "withdrawn", "reversed", "vetoed"}
Openers == {"operator", "account"} \X Accounts
NoOpener == <<"none", Nobody>>

CaseRecords ==
  [status : {"unopened"} \cup Live \cup Stopped, target : Targets \cup {Nobody}, action : Actions,
   opener : Openers \cup {NoOpener}, votingEnds : Nat, resolvedAt : Nat,
   totalAtOpen : Nat, yes : Nat, no : Nat,
   executeAt : Nat, assessed : Nat, recovered : Nat]
NoCase ==
  [status |-> "unopened", target |-> Nobody, action |-> "freeze",
   opener |-> NoOpener, votingEnds |-> 0, resolvedAt |-> 0, totalAtOpen |-> 0,
   yes |-> 0, no |-> 0, executeAt |-> 0, assessed |-> 0, recovered |-> 0]

Freezes == [case : Nat, expires : Nat]
NoFreeze == [case |-> 0, expires |-> 0]
SeizureRecords == [height : Nat, case : CaseIds, amount : Nat]

VARIABLES
  params,          \* Params
  height,          \* block height
  phase,           \* where the block is: messages, or a step of EndBlocker
  due,             \* queue keys the running step of EndBlocker has collected
  caseSeq,         \* CaseSeq, the id of the next case
  cases,           \* Case
  voted,           \* Vote: who has voted on each case
  freeze,          \* Freeze
  votingQueue,     \* VotingQueue
  expiryQueue,     \* FreezeExpiryQueue
  executionQueue,  \* ExecutionQueue
  ledger,          \* SeizureLedger
  recovered,       \* Recovered
  casesPassed,     \* CasesPassed
  history,         \* every record ledger ever had (history, not in the code)
  power,           \* x/staking: consensus power of each validator's tokens
  bonded,          \* x/staking: the bonded set, as of the last block
  lastTotal,       \* x/staking: LastTotalPower, as of the last block
  roles,           \* x/alias: holders of ROLE_ENFORCEMENT_AUTHORITY
  liquid,          \* x/bank: spendable balance of each target
  staked,          \* x/staking: what each target has delegated
  unbonding,       \* x/staking: what is on its way back
  vault            \* x/bank: what the targets have sent to Destination

blockVars  == <<height, phase, due>>
queueVars  == <<votingQueue, expiryQueue, executionQueue>>
tallyVars  == <<ledger, recovered, casesPassed, history>>
stakeVars  == <<power, bonded, lastTotal>>
moneyVars  == <<liquid, staked, unbonding, vault>>
vars == <<params, blockVars, caseSeq, cases, voted, freeze, queueVars, tallyVars,
          stakeVars, roles, moneyVars>>

----------------------------------------------------------------------------
(* Parameters *)

\* validateSeizureDelay, validateSeizureWindow and validateOmbudsman.  The cap
\* of the one denomination must be positive because every tier names it.
ValidateSeizures(p) ==
  /\ p.delay \in 1 .. MaxSeizureDelay
  /\ p.tiers # {}
  /\ \A tier \in p.tiers : tier.threshold > 0 /\ tier.delay \in 1 .. MaxSeizureDelay
  /\ p.window > 0 /\ p.maxSeizures > 0 /\ p.cap > 0
  /\ p.ombudsman # Destination

\* Fault: a freeze may lapse before the vote ends.
Validate_FreezeTooShort(p) ==
  /\ p.voting > 0 /\ p.provisional > 0
  /\ p.threshold \in 5001 .. 10000
  /\ ValidateSeizures(p)

\* Params.Validate
Validate(p) ==
  /\ p.voting > 0 /\ p.provisional >= p.voting
  /\ p.threshold \in 5001 .. 10000
  /\ ValidateSeizures(p)

\* AssertConstitutional
Constitutional(p) ==
  [voting |-> p.voting, provisional |-> p.provisional, threshold |-> p.threshold] \in Settlements

\* Rounded up; nothing is required of an empty set.
RequiredPower(p, total) ==
  IF total <= 0 THEN 0
  ELSE LET numerator == total * p.threshold
       IN numerator \div 10000 + (IF numerator % 10000 = 0 THEN 0 ELSE 1)

\* The longest delay among the floor and the tiers the value reaches.
SeizureDelayFor(p, value) ==
  LET matching == {p.delay} \cup {tier.delay : tier \in {r \in p.tiers : value >= r.threshold}}
  IN CHOOSE d \in matching : \A e \in matching : e <= d

WindowStartHeight(p, h) == IF h < p.window THEN 0 ELSE h - p.window

----------------------------------------------------------------------------
(* Who may act *)

\* bondedValidatorOf
Bonded(a) == a \in bonded

\* AssertScope: the grant, and the target's country within it.
InScope(a, t) == a \in roles /\ <<a, t>> \in Perimeter

NotOmbudsman(a) == params.ombudsman = Nobody \/ a # params.ombudsman
WithinCaps(a) == a \notin AboveCeiling

\* openerIdentity: the name an account goes on the record under now.
OpenerIdentity(a) == <<IF Bonded(a) THEN "operator" ELSE "account", a>>

----------------------------------------------------------------------------
(* Freezes *)

Frozen(t) == freeze[t].case # 0

\* unfreeze
Unfreeze(t) ==
  /\ freeze' = [freeze EXCEPT ![t] = NoFreeze]
  /\ expiryQueue' = expiryQueue \ {<<freeze[t].expires, t>>}

\* liftFreeze: only a freeze that belongs to this case.
LiftFreeze(t, id) ==
  IF freeze[t].case = id THEN Unfreeze(t) ELSE UNCHANGED <<freeze, expiryQueue>>

\* makePermanent
MakePermanent(t) ==
  /\ freeze' = [freeze EXCEPT ![t] = [@ EXCEPT !.expires = 0]]
  /\ expiryQueue' = expiryQueue \ {<<freeze[t].expires, t>>}

\* Fault: a provisional freeze does not stop the money.
SendRestriction_PermanentOnly(t, to) == Frozen(t) /\ freeze[t].expires = 0 => to = Destination

\* SendRestriction: a frozen account may only send to the destination.
SendRestriction(t, to) == Frozen(t) => to = Destination

----------------------------------------------------------------------------
(* The rolling window *)

InWindow(p, h) == {r \in ledger : r.height >= WindowStartHeight(p, h)}
SumOf(records) == SumFunctionOnSet([r \in records |-> r.amount], records)

\* Fault: the limit is reached one seizure late.
AdmitSeizure_OneOver(value) ==
  /\ Cardinality(InWindow(params, height)) <= params.maxSeizures
  /\ value > 0 => SumOf(InWindow(params, height)) + value <= params.cap

\* Fault: the seizure is compared with the cap alone, not with what is left.
AdmitSeizure_AloneInWindow(value) ==
  /\ Cardinality(InWindow(params, height)) < params.maxSeizures
  /\ value > 0 => value <= params.cap

\* admitSeizure: the count first, then the value.
AdmitSeizure(value) ==
  /\ Cardinality(InWindow(params, height)) < params.maxSeizures
  /\ value > 0 => SumOf(InWindow(params, height)) + value <= params.cap

\* nextWindowOpening: one block after the oldest record has left the window.
NextWindowOpening ==
  LET window == InWindow(params, height)
      oldest == CHOOSE h \in {r.height : r \in window} : \A r \in window : h <= r.height
      retry == IF window = {} THEN height + params.window ELSE oldest + params.window + 1
  IN IF retry <= height THEN height + 1 ELSE retry

\* Fault: the record of the next window's first block is cleared with the rest.
Pruned_FirstBlock(p, h) ==
  IF WindowStartHeight(p, h) = 0 THEN ledger
  ELSE {r \in ledger : r.height > WindowStartHeight(p, h) + 1}

\* pruneSeizureLedger
Pruned(p, h) == InWindow(p, h)

----------------------------------------------------------------------------
(* Resolving a case.  c is the case as the handler has it in memory.        *)

\* Fault: what is taken does not lengthen the wait.
HoldSeizure_FloorOnly(id, c) ==
  LET value == liquid[c.target] + staked[c.target] + unbonding[c.target]
      at == height + params.delay
  IN /\ cases' = [cases EXCEPT ![id] = [c EXCEPT !.status = "held", !.resolvedAt = height,
                                                 !.assessed = value, !.executeAt = at]]
     /\ executionQueue' = executionQueue \cup {<<at, id>>}
     /\ UNCHANGED casesPassed

\* holdSeizure: assessed once, here, from balance, stake and unbonding.
HoldSeizure(id, c) ==
  LET value == liquid[c.target] + staked[c.target] + unbonding[c.target]
      at == height + SeizureDelayFor(params, value)
  IN /\ cases' = [cases EXCEPT ![id] = [c EXCEPT !.status = "held", !.resolvedAt = height,
                                                 !.assessed = value, !.executeAt = at]]
     /\ executionQueue' = executionQueue \cup {<<at, id>>}
     /\ UNCHANGED casesPassed

\* passCase
PassCase(id, c) ==
  /\ MakePermanent(c.target)
  /\ votingQueue' = votingQueue \ {<<c.votingEnds, id>>}
  /\ IF c.action = "seize" THEN HoldSeizure(id, c)
     ELSE /\ cases' = [cases EXCEPT ![id] = [c EXCEPT !.status = "passed", !.resolvedAt = height]]
          /\ casesPassed' = casesPassed + 1
          /\ UNCHANGED executionQueue

\* rejectCase
RejectCase(id, c, status) ==
  /\ cases' = [cases EXCEPT ![id] = [c EXCEPT !.status = status, !.resolvedAt = height]]
  /\ votingQueue' = votingQueue \ {<<c.votingEnds, id>>}
  /\ LiftFreeze(c.target, id)
  /\ UNCHANGED <<executionQueue, casesPassed>>

\* Fault: the execution queue keeps a case that was stopped while it waited.
Dequeue_VotingOnly(id) ==
  /\ votingQueue' = votingQueue \ {<<cases[id].votingEnds, id>>}
  /\ UNCHANGED executionQueue

\* dequeueVoting and dequeueExecution, each for a case that is in that queue.
Dequeue(id) ==
  /\ votingQueue' = IF cases[id].status = "voting"
                    THEN votingQueue \ {<<cases[id].votingEnds, id>>} ELSE votingQueue
  /\ executionQueue' = IF cases[id].status = "held"
                       THEN executionQueue \ {<<cases[id].executeAt, id>>} ELSE executionQueue

StopWith(id, status) ==
  cases' = [cases EXCEPT ![id] = [@ EXCEPT !.status = status, !.resolvedAt = height]]

----------------------------------------------------------------------------
(* Messages *)

\* Fault: the case is not queued for the end of its vote.
Open_NotQueued(t, opener, action) ==
  LET ends == height + params.voting
      expires == height + params.provisional
  IN /\ caseSeq <= MaxCases /\ height <= LastOpening
     /\ ~Frozen(t)
     /\ caseSeq' = caseSeq + 1
     /\ cases' = [cases EXCEPT ![caseSeq] =
          [NoCase EXCEPT !.status = "voting", !.target = t, !.action = action,
             !.opener = opener, !.votingEnds = ends, !.totalAtOpen = lastTotal]]
     /\ freeze' = [freeze EXCEPT ![t] = [case |-> caseSeq, expires |-> expires]]
     /\ expiryQueue' = expiryQueue \cup {<<expires, t>>}
     /\ UNCHANGED <<params, blockVars, voted, votingQueue, executionQueue, tallyVars, stakeVars,
                    roles, moneyVars>>

\* What OpenCase and EmergencyFreeze write: the case, its place in the voting
\* queue and the provisional freeze.
Open(t, opener, action) ==
  LET ends == height + params.voting
      expires == height + params.provisional
  IN /\ caseSeq <= MaxCases /\ height <= LastOpening
     /\ ~Frozen(t)
     /\ caseSeq' = caseSeq + 1
     /\ cases' = [cases EXCEPT ![caseSeq] =
          [NoCase EXCEPT !.status = "voting", !.target = t, !.action = action,
             !.opener = opener, !.votingEnds = ends, !.totalAtOpen = lastTotal]]
     /\ votingQueue' = votingQueue \cup {<<ends, caseSeq>>}
     /\ freeze' = [freeze EXCEPT ![t] = [case |-> caseSeq, expires |-> expires]]
     /\ expiryQueue' = expiryQueue \cup {<<expires, t>>}
     /\ UNCHANGED <<params, blockVars, voted, executionQueue, tallyVars, stakeVars,
                    roles, moneyVars>>

OpenCase(a, t, action) ==
  /\ phase = "deliver"
  /\ WithinCaps(a) /\ NotOmbudsman(a)
  /\ Bonded(a) \/ a \in roles            \* openerOf
  /\ InScope(a, t)
  /\ Open(t, OpenerIdentity(a), action)

\* The opener of an emergency case is its account, whatever else it is.
EmergencyFreeze(a, t) ==
  /\ phase = "deliver"
  /\ WithinCaps(a) /\ NotOmbudsman(a)
  /\ InScope(a, t)
  /\ Open(t, <<"account", a>>, "freeze")

\* The abstaining power is recorded and never read.
Tallied(c, option, p) ==
  CASE option = "yes"     -> [c EXCEPT !.yes = @ + p]
    [] option = "no"      -> [c EXCEPT !.no = @ + p]
    [] option = "abstain" -> c

\* VoteCase: the power is the validator's own now, the bar that of the opening.
VoteCase(a, id, option) ==
  LET c == Tallied(cases[id], option, power[a])
      required == RequiredPower(params, c.totalAtOpen)
  IN /\ phase = "deliver"
     /\ WithinCaps(a) /\ NotOmbudsman(a) /\ Bonded(a)
     /\ cases[id].status = "voting"
     /\ a \notin voted[id]
     /\ voted' = [voted EXCEPT ![id] = @ \cup {a}]
     /\ \/ c.yes >= required /\ PassCase(id, c)
        \/ /\ c.yes < required /\ c.totalAtOpen - c.no < required
           /\ RejectCase(id, c, "rejected")
        \/ /\ c.yes < required /\ c.totalAtOpen - c.no >= required
           /\ cases' = [cases EXCEPT ![id] = c]
           /\ UNCHANGED <<freeze, queueVars, casesPassed>>
     /\ UNCHANGED <<params, blockVars, caseSeq, ledger, recovered, history, stakeVars,
                    roles, moneyVars>>

\* Fault: a case that is closed already can be withdrawn.
WithdrawCase_Closed(a, id) ==
  /\ phase = "deliver"
  /\ cases[id].opener = OpenerIdentity(a)
  /\ RejectCase(id, cases[id], "withdrawn")
  /\ UNCHANGED <<params, blockVars, caseSeq, voted, ledger, recovered, history, stakeVars,
                 roles, moneyVars>>

WithdrawCase(a, id) ==
  /\ phase = "deliver"
  /\ cases[id].status = "voting"
  /\ cases[id].opener = OpenerIdentity(a)
  /\ RejectCase(id, cases[id], "withdrawn")
  /\ UNCHANGED <<params, blockVars, caseSeq, voted, ledger, recovered, history, stakeVars,
                 roles, moneyVars>>

\* Fault: a reversal leaves the account frozen.
ReverseCase_KeepsFreeze(id) ==
  /\ phase = "deliver"
  /\ cases[id].status \in {"passed", "held"}
  /\ StopWith(id, "reversed")
  /\ Dequeue(id)
  /\ UNCHANGED <<params, blockVars, caseSeq, voted, freeze, expiryQueue, tallyVars, stakeVars,
                 roles, moneyVars>>

\* Governance.  unfreeze, whatever case the freeze belongs to.
ReverseCase(id) ==
  /\ phase = "deliver"
  /\ cases[id].status \in {"passed", "held"}
  /\ StopWith(id, "reversed")
  /\ Dequeue(id)
  /\ Unfreeze(cases[id].target)
  /\ UNCHANGED <<params, blockVars, caseSeq, voted, tallyVars, stakeVars, roles, moneyVars>>

EmergencyRelease(a, id) ==
  /\ phase = "deliver"
  /\ cases[id].status \in Live
  /\ InScope(a, cases[id].target)
  /\ StopWith(id, "reversed")
  /\ Dequeue(id)
  /\ LiftFreeze(cases[id].target, id)
  /\ UNCHANGED <<params, blockVars, caseSeq, voted, tallyVars, stakeVars, roles, moneyVars>>

\* OmbudsmanVeto and stopCase.  With nobody appointed nobody has the veto.
OmbudsmanVeto(a, id) ==
  /\ phase = "deliver"
  /\ a = params.ombudsman
  /\ cases[id].status \in {"voting", "held"}
  /\ StopWith(id, "vetoed")
  /\ Dequeue(id)
  /\ LiftFreeze(cases[id].target, id)
  /\ UNCHANGED <<params, blockVars, caseSeq, voted, tallyVars, stakeVars, roles, moneyVars>>

\* unbondEverything and collect.  An undelegation may be refused (a delegation
\* at its limit of unbonding entries): u is what was accepted.
UnbondAndCollect(t, u) ==
  /\ u \in 0 .. staked[t]
  /\ staked' = [staked EXCEPT ![t] = @ - u]
  /\ unbonding' = [unbonding EXCEPT ![t] = @ + u]
  /\ liquid' = [liquid EXCEPT ![t] = 0]
  /\ vault' = vault + liquid[t]
  /\ recovered' = recovered + liquid[t]

\* Fault: a seizure that is still waiting can be swept.
Sweep_Held(a, id, u) ==
  LET t == cases[id].target IN
  /\ phase = "deliver"
  /\ NotOmbudsman(a)
  /\ cases[id].action = "seize" /\ cases[id].status \in {"held", "passed"}
  /\ UnbondAndCollect(t, u)
  /\ cases' = [cases EXCEPT ![id].recovered = @ + liquid[t]]
  /\ UNCHANGED <<params, blockVars, caseSeq, voted, freeze, queueVars, ledger, casesPassed,
                 history, stakeVars, roles>>

\* Anyone but the ombudsman; a seizure that has been carried out.
Sweep(a, id, u) ==
  LET t == cases[id].target IN
  /\ phase = "deliver"
  /\ NotOmbudsman(a)
  /\ cases[id].action = "seize" /\ cases[id].status = "passed"
  /\ UnbondAndCollect(t, u)
  /\ cases' = [cases EXCEPT ![id].recovered = @ + liquid[t]]
  /\ UNCHANGED <<params, blockVars, caseSeq, voted, freeze, queueVars, ledger, casesPassed,
                 history, stakeVars, roles>>

\* The proposed ombudsman must not hold the enforcement role.
UpdateParams(p) ==
  /\ phase = "deliver"
  /\ Validate(p) /\ Constitutional(p)
  /\ p.ombudsman \notin roles
  /\ params' = p
  /\ UNCHANGED <<blockVars, caseSeq, cases, voted, freeze, queueVars, tallyVars, stakeVars,
                 roles, moneyVars>>

----------------------------------------------------------------------------
(* The rest of the chain, as this module meets it *)

\* x/staking: tokens move between validators.  The bonded set and the total
\* follow at the end of the block.
PowerMoves(p) ==
  /\ phase = "deliver"
  /\ power' = p
  /\ UNCHANGED <<params, blockVars, caseSeq, cases, voted, freeze, queueVars, tallyVars,
                 bonded, lastTotal, roles, moneyVars>>

\* x/alias: GrantRole or RevokeRole, whoever is entitled to sign it: an office
\* without the role may be granted it, and only a grant that is there is revoked.
RoleMoved(a) ==
  /\ phase = "deliver"
  /\ roles' = IF a \in roles THEN roles \ {a} ELSE roles \cup {a}
  /\ UNCHANGED <<params, blockVars, caseSeq, cases, voted, freeze, queueVars, tallyVars,
                 stakeVars, moneyVars>>

\* x/bank and x/staking: a target is paid, pays (a transfer the restriction
\* lets through), delegates, undelegates, or an unbonding matures.  Delegating
\* does not pass the send restriction.
MoneyMoves(t) ==
  /\ phase = "deliver"
  /\ \/ /\ "deposit" \in Flows
        /\ vault + liquid[t] + staked[t] + unbonding[t] < MaxFunds
        /\ liquid' = [liquid EXCEPT ![t] = @ + 1]
        /\ UNCHANGED <<staked, unbonding, vault>>
     \/ \E to \in {Destination, Nobody} :
          /\ "spend" \in Flows /\ liquid[t] > 0 /\ SendRestriction(t, to)
          /\ liquid' = [liquid EXCEPT ![t] = @ - 1]
          /\ vault' = IF to = Destination THEN vault + 1 ELSE vault
          /\ UNCHANGED <<staked, unbonding>>
     \/ /\ "delegate" \in Flows /\ liquid[t] > 0
        /\ liquid' = [liquid EXCEPT ![t] = @ - 1]
        /\ staked' = [staked EXCEPT ![t] = @ + 1]
        /\ UNCHANGED <<unbonding, vault>>
     \/ /\ "undelegate" \in Flows /\ staked[t] > 0
        /\ staked' = [staked EXCEPT ![t] = @ - 1]
        /\ unbonding' = [unbonding EXCEPT ![t] = @ + 1]
        /\ UNCHANGED <<liquid, vault>>
     \/ /\ "mature" \in Flows /\ unbonding[t] > 0
        /\ liquid' = [liquid EXCEPT ![t] = @ + unbonding[t]]
        /\ unbonding' = [unbonding EXCEPT ![t] = 0]
        /\ UNCHANGED <<staked, vault>>
  /\ UNCHANGED <<params, blockVars, caseSeq, cases, voted, freeze, queueVars, tallyVars,
                 stakeVars, roles>>

----------------------------------------------------------------------------
(* EndBlocker *)

DueBy(queue, h) == {k \in queue : k[1] <= h}
FirstDue == CHOOSE k \in due : \A j \in due : k[1] < j[1] \/ (k[1] = j[1] /\ k[2] <= j[2])

\* resolveDueCases collects the cases whose voting period has ended ...
EndBlockStart ==
  /\ phase = "deliver" /\ height < MaxHeight
  /\ phase' = "resolve"
  /\ due' = DueBy(votingQueue, height)
  /\ UNCHANGED <<params, height, caseSeq, cases, voted, freeze, queueVars, tallyVars,
                 stakeVars, roles, moneyVars>>

\* ... and passes or expires them one by one, in queue order.
ResolveDue ==
  LET id == FirstDue[2]
      c == cases[id]
  IN /\ phase = "resolve" /\ due # {}
     /\ due' = due \ {FirstDue}
     /\ IF c.status # "voting"               \* resolved early: a stale entry
        THEN /\ votingQueue' = votingQueue \ {<<c.votingEnds, id>>}
             /\ UNCHANGED <<cases, freeze, expiryQueue, executionQueue, casesPassed>>
        ELSE \/ /\ c.yes >= RequiredPower(params, c.totalAtOpen)
                /\ PassCase(id, c)
             \/ /\ c.yes < RequiredPower(params, c.totalAtOpen)
                /\ RejectCase(id, c, "expired")
     /\ UNCHANGED <<params, height, phase, caseSeq, voted, ledger, recovered, history,
                    stakeVars, roles, moneyVars>>

\* Fault: the delay is worked out again from the parameters of the day.
ExecuteStart_DelayOfToday ==
  /\ phase = "resolve" /\ due = {}
  /\ phase' = "execute"
  /\ due' = {q \in executionQueue :
               height >= cases[q[2]].resolvedAt + SeizureDelayFor(params, cases[q[2]].assessed)}
  /\ UNCHANGED <<params, height, caseSeq, cases, voted, freeze, queueVars, tallyVars,
                 stakeVars, roles, moneyVars>>

\* executeDueSeizures collects the seizures whose delay has expired ...
ExecuteStart ==
  /\ phase = "resolve" /\ due = {}
  /\ phase' = "execute"
  /\ due' = DueBy(executionQueue, height)
  /\ UNCHANGED <<params, height, caseSeq, cases, voted, freeze, queueVars, tallyVars,
                 stakeVars, roles, moneyVars>>

\* Fault: a deferred case is forgotten.
Defer_NotQueued(id) ==
  /\ executionQueue' = executionQueue \ {FirstDue}
  /\ cases' = [cases EXCEPT ![id].executeAt = NextWindowOpening]

\* executeSeizure, refused: queued again where the window could have room.
Defer(id) ==
  /\ executionQueue' = (executionQueue \ {FirstDue}) \cup {<<NextWindowOpening, id>>}
  /\ cases' = [cases EXCEPT ![id].executeAt = NextWindowOpening]

\* executeSeizure, admitted: unbond, collect, and charge the window with the
\* larger of what was assessed and what was collected.
CarryOut(id, u) ==
  LET c == cases[id]
      collected == liquid[c.target]
      record == [height |-> height, case |-> id,
                 amount |-> IF c.assessed >= collected THEN c.assessed ELSE collected]
  IN /\ executionQueue' = executionQueue \ {FirstDue}
     /\ cases' = [cases EXCEPT ![id] =
          [c EXCEPT !.status = "passed", !.recovered = c.recovered + collected]]
     /\ casesPassed' = casesPassed + 1
     /\ UnbondAndCollect(c.target, u)
     /\ ledger' = ledger \cup {record}
     /\ history' = history \cup {record}

\* ... and carries them out or defers them, in queue order.
ExecuteDue ==
  LET id == FirstDue[2]
  IN /\ phase = "execute" /\ due # {}
     /\ due' = due \ {FirstDue}
     /\ IF cases[id].status # "held"         \* stopped since it was queued
        THEN /\ executionQueue' = executionQueue \ {FirstDue}
             /\ UNCHANGED <<cases, tallyVars, moneyVars>>
        ELSE \/ /\ AdmitSeizure(cases[id].assessed)
                /\ \E u \in {0, staked[cases[id].target]} : CarryOut(id, u)
             \/ /\ ~AdmitSeizure(cases[id].assessed)
                /\ Defer(id)
                /\ UNCHANGED <<tallyVars, moneyVars>>
     /\ UNCHANGED <<params, height, phase, caseSeq, voted, freeze, votingQueue, expiryQueue,
                    stakeVars, roles>>

\* expireFreezes: every freeze found on an account whose expiry is queued.
Lapsed(t) == Frozen(t) /\ \E k \in DueBy(expiryQueue, height) : k[2] = t

\* expireFreezes, pruneSeizureLedger, the end of staking's own end blocker,
\* and the next block.
EndBlockFinish ==
  /\ phase = "execute" /\ due = {}
  /\ freeze' = [t \in Targets |-> IF Lapsed(t) THEN NoFreeze ELSE freeze[t]]
  /\ expiryQueue' = expiryQueue \ {<<freeze[t].expires, t>> : t \in {u \in Targets : Lapsed(u)}}
  /\ ledger' = Pruned(params, height)
  /\ bonded' = {v \in Validators : power[v] > 0} /\ lastTotal' = SumFunction(power)
  /\ height' = height + 1
  /\ phase' = "deliver"
  /\ UNCHANGED <<params, due, caseSeq, cases, voted, votingQueue, executionQueue, recovered,
                 casesPassed, history, power, roles, moneyVars>>

----------------------------------------------------------------------------
(* Export and import *)

\* What InitGenesis rebuilds from the cases and freezes of the file.
QueuedVotes == {<<cases[id].votingEnds, id>> : id \in {i \in CaseIds : cases[i].status = "voting"}}
QueuedSeizures == {<<cases[id].executeAt, id>> : id \in {i \in CaseIds : cases[i].status = "held"}}
QueuedExpiries == {<<freeze[t].expires, t>> : t \in {u \in Targets : freeze[u].expires > 0}}
SeizedInAll ==
  SumFunctionOnSet([id \in CaseIds |-> IF cases[id].action = "seize"
                                       THEN cases[id].recovered ELSE 0], CaseIds)
PassedInAll == Cardinality({id \in CaseIds : cases[id].status = "passed"})

\* GenesisState.Validate: only a seizure recovered anything, a freeze names a
\* live case against its account, and the window records seizures.
ValidGenesis ==
  /\ \A id \in CaseIds : cases[id].action = "freeze" => cases[id].recovered = 0
  /\ \A t \in Targets : Frozen(t) =>
       /\ freeze[t].case \in CaseIds
       /\ cases[freeze[t].case].target = t
       /\ cases[freeze[t].case].status \in Live
  /\ \A r \in ledger : cases[r.case].action = "seize" /\ cases[r.case].status # "unopened"

\* The chain is exported between blocks and restarted from its own file.
ExportAndImport ==
  /\ Restarts
  /\ phase = "deliver"
  /\ ValidGenesis
  /\ votingQueue' = QueuedVotes
  /\ executionQueue' = QueuedSeizures
  /\ expiryQueue' = QueuedExpiries
  /\ recovered' = SeizedInAll
  /\ casesPassed' = PassedInAll
  /\ UNCHANGED <<params, blockVars, caseSeq, cases, voted, freeze, ledger, history, stakeVars,
                 roles, moneyVars>>

----------------------------------------------------------------------------
Init ==
  /\ params \in {p \in GenesisParams : Validate(p) /\ Constitutional(p)}
  /\ height = 1 /\ phase = "deliver" /\ due = {}
  /\ caseSeq = 1
  /\ cases = [id \in CaseIds |-> NoCase]
  /\ voted = [id \in CaseIds |-> {}]
  /\ freeze = [t \in Targets |-> NoFreeze]
  /\ votingQueue = {} /\ expiryQueue = {} /\ executionQueue = {}
  /\ ledger = {} /\ history = {}
  /\ recovered = 0 /\ casesPassed = 0
  /\ power \in PowerTables
  /\ bonded = {v \in Validators : power[v] > 0} /\ lastTotal = SumFunction(power)
  /\ roles = InitialRoles
  /\ liquid = [t \in Targets |-> InitialFunds]
  /\ staked = [t \in Targets |-> InitialStake]
  /\ unbonding = [t \in Targets |-> 0]
  /\ vault = 0

Opened == {id \in CaseIds : id < caseSeq}

Messages ==
  \/ \E a \in Accounts, t \in Targets :
       (\E action \in Actions : OpenCase(a, t, action)) \/ EmergencyFreeze(a, t)
  \/ \E a \in Accounts, id \in Opened :
       \/ WithdrawCase(a, id) \/ EmergencyRelease(a, id) \/ OmbudsmanVeto(a, id)
       \/ \E u \in {0, staked[cases[id].target]} : Sweep(a, id, u)
  \/ \E a \in Validators, id \in Opened, option \in {"yes", "no", "abstain"} :
       VoteCase(a, id, option)

Governance ==
  \/ \E p \in ParamChoices : UpdateParams(p)
  \/ \E id \in Opened : ReverseCase(id)

Surroundings ==
  \/ \E p \in PowerTables \ {power} : PowerMoves(p)
  \/ \E a \in RoleMoves : RoleMoved(a)
  \/ \E t \in Targets : MoneyMoves(t)

EndBlocker == EndBlockStart \/ ResolveDue \/ ExecuteStart \/ ExecuteDue \/ EndBlockFinish

Next == Messages \/ Governance \/ Surroundings \/ EndBlocker \/ ExportAndImport

Spec == Init /\ [][Next]_vars

\* Consensus keeps producing blocks; nobody is obliged to send a message.
FairSpec == Spec /\ WF_vars(EndBlocker)

----------------------------------------------------------------------------
(* Properties *)

\* Every variable holds a value of the kind its store keeps, and outside the
\* end blocker nothing it collected is left over.
TypeOK ==
  /\ params \in ParamSets
  /\ height \in Nat
  /\ phase \in {"deliver", "resolve", "execute"}
  /\ due \subseteq Nat \X CaseIds /\ (phase = "deliver" => due = {})
  /\ caseSeq \in Nat \ {0}
  /\ cases \in [CaseIds -> CaseRecords]
  /\ \A id \in CaseIds : IF id < caseSeq THEN cases[id].target \in Targets
                                         ELSE cases[id] = NoCase
  /\ voted \in [CaseIds -> SUBSET Validators]
  /\ freeze \in [Targets -> Freezes]
  /\ votingQueue \subseteq Nat \X CaseIds
  /\ executionQueue \subseteq Nat \X CaseIds
  /\ expiryQueue \subseteq Nat \X Targets
  /\ ledger \subseteq SeizureRecords /\ history \subseteq SeizureRecords
  /\ recovered \in Nat /\ casesPassed \in Nat
  /\ power \in [Validators -> Nat] /\ bonded \subseteq Validators /\ lastTotal \in Nat
  /\ roles \subseteq Accounts
  /\ liquid \in [Targets -> Nat] /\ staked \in [Targets -> Nat]
  /\ unbonding \in [Targets -> Nat] /\ vault \in Nat

\* One case at a time per address, and never a freeze nobody answers for: an
\* account is frozen exactly while one case against it is being voted on, held
\* or carried out, and it is that case its freeze names.  This is what makes it
\* safe for ReverseCase to unfreeze without asking whose freeze it is.
FreezeIsAnsweredFor ==
  /\ \A t \in Targets : Frozen(t) =>
       /\ freeze[t].case \in CaseIds
       /\ cases[freeze[t].case].target = t
       /\ cases[freeze[t].case].status \in Live
  /\ \A id \in CaseIds : cases[id].status \in Live => freeze[cases[id].target].case = id

\* What one signature can do alone: a freeze with an expiry is one the set has
\* not decided yet, between blocks its vote is still running, and it does not
\* lapse before the vote ends.
ProvisionalMeansUndecided ==
  /\ \A t \in Targets : freeze[t].expires > 0 =>
       /\ cases[freeze[t].case].status = "voting"
       /\ cases[freeze[t].case].votingEnds <= freeze[t].expires
       /\ phase = "deliver" => height <= cases[freeze[t].case].votingEnds
  /\ \A t \in Targets : Frozen(t) /\ freeze[t].expires = 0 =>
       cases[freeze[t].case].status \in {"held", "passed"}

\* The queues and the running total are at every step what InitGenesis would
\* rebuild: in particular a case is in the execution queue exactly once, at the
\* height it carries, however often it was deferred.
RestartKeepsState ==
  /\ ValidGenesis
  /\ votingQueue = QueuedVotes /\ executionQueue = QueuedSeizures
  /\ expiryQueue = QueuedExpiries
  /\ recovered = SeizedInAll

\* A seizure is held once the validators reached the threshold in force, for the
\* delay its assessed value then earns, and it is carried out when it is due and
\* not before: no amendment, deferral or restart in between shortens the wait in
\* which the veto can land (holdSeizure, executeDueSeizures, MsgUpdateParams).
SeizureWaits ==
  [][\A id \in CaseIds :
       /\ cases[id].status # "held" /\ cases'[id].status = "held"
          => /\ cases'[id].yes >= RequiredPower(params, cases'[id].totalAtOpen)
             /\ cases'[id].executeAt = height + SeizureDelayFor(params, cases'[id].assessed)
       /\ cases[id].status = "held" /\ cases'[id].status = "held"
          => cases'[id].executeAt >= cases[id].executeAt
       /\ cases[id].status # "passed" /\ cases'[id].status = "passed" /\ cases[id].action = "seize"
          => cases[id].status = "held" /\ height >= cases[id].executeAt]_vars

\* Nothing is taken for a case that is not a decided seizure being carried out,
\* whoever stopped it and whenever: after a veto, a reversal or a release the
\* recovered amount of a case never moves again.
TakenOnlyWhileOrdered ==
  [][\A id \in CaseIds :
       cases'[id].recovered # cases[id].recovered
       => /\ cases'[id].status = "passed" /\ cases[id].action = "seize"
          /\ freeze[cases[id].target].case = id
          /\ cases'[id].recovered - cases[id].recovered = vault' - vault]_vars

\* A stopped case stays stopped: no order of votes, blocks, restarts and
\* messages brings it back.
StoppedForGood ==
  [][\A id \in CaseIds :
       cases[id].status \in Stopped => cases'[id].status = cases[id].status]_vars

\* What a frozen account holds leaves it only for the recovery destination.
Holdings(t) == liquid[t] + staked[t] + unbonding[t]
FrozenFundsStay ==
  [][\A t \in Targets :
       Frozen(t) /\ Holdings(t)' < Holdings(t) => vault' - vault = Holdings(t) - Holdings(t)']_vars

\* The rolling limits, several seizures due in one block included: how many in
\* a window, and how much (params.proto: "the most that may be seized, per
\* denomination, within any window"), the latter for accounts nobody pays
\* during the delay: what arrives then is taken as well, and may carry the
\* window past its cap in one step.  "Nothing is forgotten" (window.go): every
\* seizure carried out within the window is counted by it, whatever has been
\* pruned, as long as governance does not lengthen the window.
WindowLimitsHold ==
  /\ Cardinality(InWindow(params, height)) <= params.maxSeizures
  /\ SumOf(InWindow(params, height)) <= params.cap
  /\ {r \in history : r.height >= WindowStartHeight(params, height)} \subseteq ledger

\* A vote ends: under block production alone no case stays undecided.
VotesEnd ==
  \A id \in CaseIds : cases[id].status = "voting" ~> cases[id].status # "voting"

\* A held seizure the window has room for is in the end carried out or
\* stopped, however often the cap deferred it.
HeldSeizuresEnd ==
  \A id \in CaseIds :
    (cases[id].status = "held" /\ cases[id].assessed <= params.cap) ~> cases[id].status # "held"
=============================================================================
