------------------------- MODULE EnforcementProofs -------------------------
(***************************************************************************)
(* Types, cases, freezes and queues of x/enforcement, for every value of   *)
(* the constants.                                                          *)
(*                                                                         *)
(* TypeOK is not inductive alone: a delay and a window opening are natural *)
(* numbers because the parameters in force passed Validate (ParamsValid).  *)
(*                                                                         *)
(* FreezeIsAnsweredFor is not inductive either: the end blocker lifts a    *)
(* freeze whose expiry is queued without looking at the case, and resolves *)
(* what is queued without looking for what is not.  So the invariant also  *)
(* says that the queues hold exactly what the cases and freezes say        *)
(* (Queued), that a freeze with an expiry belongs to a vote that ends no   *)
(* later (Settled), and that no vote is past its end once the end blocker  *)
(* has gone through the queue (VotesAhead, DueIsQueued).                   *)
(*                                                                         *)
(* The last sections are about time, money and the rolling window: when a  *)
(* seizure may run, what may leave a frozen account, and how much the      *)
(* chain takes in one window (SeizureAlwaysWaits, FrozenFundsNeverLeave,   *)
(* WindowLimitsAlwaysHold).                                                *)
(***************************************************************************)
EXTENDS Enforcement, SumTheorems

----------------------------------------------------------------------------
(* Operators that choose *)

\* A set of natural numbers has a smallest element.
LEMMA Smallest ==
  ASSUME NEW S, S \subseteq Nat, S # {}
  PROVE  \E n \in S : \A k \in S : n <= k
<1> DEFINE R == OpToRel(<, Nat)
<1>1. IsWellFoundedOn(R, Nat)
  BY NatLessThanWellFounded
<1>2. \A j, k \in Nat : j < k => <<j, k>> \in R
  BY DEF OpToRel
<1> HIDE DEF R
<1>3. \E n \in S : \A k \in S : ~ (<<k, n>> \in R)
  BY <1>1, WFMin, Zenon
<1>4. PICK n \in S : \A k \in S : ~ (<<k, n>> \in R)
  BY <1>3
<1>5. ASSUME NEW k \in S PROVE n <= k
  <2>1. k \in Nat /\ n \in Nat
    OBVIOUS
  <2>2. ~(k < n)
    BY <1>2, <1>4, <2>1
  <2> QED BY <2>1, <2>2
<1> QED BY <1>5

\* A bounded set of natural numbers has a largest element.
LEMMA Largest ==
  ASSUME NEW B \in Nat, NEW S, S \subseteq 0 .. B, S # {}
  PROVE  \E n \in S : \A k \in S : k <= n
<1> DEFINE T == {B - x : x \in S}
<1>0. \A x \in S : B - x \in Nat
  OBVIOUS
<1>1. T \subseteq Nat /\ T # {}
  BY <1>0
<1>2. PICK m \in T : \A k \in T : m <= k
  <2> HIDE DEF T
  <2> QED BY <1>1, Smallest
<1>3. PICK n \in S : m = B - n
  BY <1>2
<1>4. \A k \in S : k <= n
  <2> TAKE k \in S
  <2>1. B - k \in T /\ k \in Nat /\ n \in Nat
    OBVIOUS
  <2>2. B - n <= B - k
    BY <1>2, <1>3, <2>1
  <2> QED BY <2>1, <2>2
<1> QED BY <1>4

\* The end blocker takes a key it has collected.
LEMMA FirstDueIsDue ==
  ASSUME due \subseteq Nat \X CaseIds, due # {}
  PROVE  /\ FirstDue \in due
         /\ FirstDue = <<FirstDue[1], FirstDue[2]>> /\ FirstDue[1] \in Nat /\ FirstDue[2] \in CaseIds
<1> DEFINE H == {k[1] : k \in due}
<1>0. CaseIds \subseteq Nat
  BY BoundAssumption DEF CaseIds
<1>1. H \subseteq Nat /\ H # {}
  OBVIOUS
<1>2. PICK h \in H : \A g \in H : h <= g
  <2> HIDE DEF H
  <2> QED BY <1>1, Smallest
<1> DEFINE I == {k[2] : k \in {j \in due : j[1] = h}}
<1>3. I \subseteq Nat /\ I # {}
  BY <1>0
<1>4. PICK i \in I : \A g \in I : i <= g
  <2> HIDE DEF I
  <2> QED BY <1>3, Smallest
<1>5. PICK k \in due : k[1] = h /\ k[2] = i
  BY <1>4
<1>6. \A j \in due : k[1] < j[1] \/ (k[1] = j[1] /\ k[2] <= j[2])
  <2> TAKE j \in due
  <2>1. j[1] \in H /\ h <= j[1] /\ j[1] \in Nat /\ h \in Nat
    BY <1>1, <1>2
  <2>2. CASE j[1] = h
    <3>1. j[2] \in I
      BY <2>2
    <3> QED BY <1>4, <1>5, <2>2, <3>1
  <2>3. CASE j[1] # h
    BY <1>5, <2>1, <2>3
  <2> QED BY <2>2, <2>3
<1>7. FirstDue \in due
  BY <1>6 DEF FirstDue
<1> QED BY <1>7

\* A seizure waits at least one block.
LEMMA DelayType ==
  ASSUME NEW p \in ParamSets, Validate(p), NEW value \in Nat
  PROVE  SeizureDelayFor(p, value) \in Nat \ {0}
<1> DEFINE D == {p.delay} \cup {tier.delay : tier \in {r \in p.tiers : value >= r.threshold}}
<1>1. D \subseteq 1 .. MaxSeizureDelay /\ D # {}
  BY DEF Validate, ValidateSeizures
<1> HIDE DEF D
<1>2. D \subseteq 0 .. MaxSeizureDelay /\ MaxSeizureDelay \in Nat
  BY <1>1, BoundAssumption
<1>3. \E d \in D : \A e \in D : e <= d
  BY <1>1, <1>2, Largest
<1>4. (CHOOSE d \in D : \A e \in D : e <= d) \in D
  BY <1>3
<1>5. SeizureDelayFor(p, value) = CHOOSE d \in D : \A e \in D : e <= d
  BY DEF SeizureDelayFor, D
<1>6. \A d \in D : d \in Nat \ {0}
  BY <1>1, BoundAssumption
<1> QED BY <1>4, <1>5, <1>6

\* A deferred seizure is due in a later block.
LEMMA OpeningType ==
  ASSUME params \in ParamSets, height \in Nat, ledger \subseteq SeizureRecords
  PROVE  NextWindowOpening \in Nat /\ NextWindowOpening > height
<1> DEFINE W == InWindow(params, height)
           H == {r.height : r \in W}
           oldest == CHOOSE h \in H : \A r \in W : h <= r.height
           retry == IF W = {} THEN height + params.window ELSE oldest + params.window + 1
<1>1. params.window \in Nat
  BY DEF ParamSets
<1>2. W # {} => oldest \in Nat
  <2> SUFFICES ASSUME W # {} PROVE oldest \in Nat
    OBVIOUS
  <2>1. H \subseteq Nat /\ H # {}
    BY DEF InWindow, SeizureRecords
  <2>2. \E h \in H : \A g \in H : h <= g
    <3> HIDE DEF H
    <3> QED BY <2>1, Smallest
  <2>3. \E h \in H : \A r \in W : h <= r.height
    BY <2>2
  <2>4. oldest \in H
    <3> HIDE DEF H
    <3> QED BY <2>3
  <2> QED BY <2>1, <2>4
<1> HIDE DEF oldest
<1>3. retry \in Nat
  BY <1>1, <1>2
<1>4. NextWindowOpening = IF retry <= height THEN height + 1 ELSE retry
  BY DEF NextWindowOpening, oldest
<1> HIDE DEF retry
<1> QED BY <1>3, <1>4

----------------------------------------------------------------------------
(* Types *)

\* Governance and the genesis file only install parameters that validate.
ParamsValid == Validate(params)

\* The inductive form of TypeOK.
TypeInv == TypeOK /\ ParamsValid

\* The conjuncts of TypeOK about cases.
CasesTyped ==
  /\ cases \in [CaseIds -> CaseRecords]
  /\ \A id \in CaseIds : IF id < caseSeq THEN cases[id].target \in Targets
                                         ELSE cases[id] = NoCase

\* The conjuncts of TypeOK that a step of the case machinery may change.
StoresTyped ==
  /\ CasesTyped
  /\ freeze \in [Targets -> Freezes]
  /\ votingQueue \subseteq Nat \X CaseIds
  /\ executionQueue \subseteq Nat \X CaseIds
  /\ expiryQueue \subseteq Nat \X Targets
  /\ casesPassed \in Nat

\* A case that is not blank has been opened.
LEMMA OpenedCase ==
  ASSUME TypeOK, NEW id \in CaseIds, cases[id].status # "unopened"
  PROVE  id < caseSeq /\ cases[id] \in CaseRecords /\ cases[id].target \in Targets
<1>1. id < caseSeq
  BY DEF TypeOK, NoCase
<1> QED BY <1>1 DEF TypeOK

\* Writing one opened case keeps the table typed.
LEMMA WriteCase ==
  ASSUME TypeOK, NEW id \in CaseIds, id < caseSeq,
         NEW c \in CaseRecords, c.target \in Targets,
         cases' = [cases EXCEPT ![id] = c], caseSeq' = caseSeq
  PROVE  CasesTyped'
<1>1. cases \in [CaseIds -> CaseRecords]
  BY DEF TypeOK
<1>2. cases' \in [CaseIds -> CaseRecords]
  BY <1>1
<1>3. \A i \in CaseIds : cases'[i] = IF i = id THEN c ELSE cases[i]
  BY <1>1
<1>4. \A i \in CaseIds : IF i < caseSeq THEN cases[i].target \in Targets ELSE cases[i] = NoCase
  BY DEF TypeOK
<1> QED BY <1>2, <1>3, <1>4 DEF CasesTyped

\* unfreeze
LEMMA UnfreezeType ==
  ASSUME TypeOK, NEW t \in Targets, Unfreeze(t)
  PROVE  freeze' \in [Targets -> Freezes] /\ expiryQueue' \subseteq Nat \X Targets
<1>1. NoFreeze \in Freezes
  BY DEF NoFreeze, Freezes
<1> QED BY <1>1 DEF TypeOK, Unfreeze

\* liftFreeze
LEMMA LiftType ==
  ASSUME TypeOK, NEW t \in Targets, NEW id, LiftFreeze(t, id)
  PROVE  freeze' \in [Targets -> Freezes] /\ expiryQueue' \subseteq Nat \X Targets
<1>1. CASE freeze[t].case = id
  BY <1>1, UnfreezeType DEF LiftFreeze
<1>2. CASE freeze[t].case # id
  BY <1>2 DEF LiftFreeze, TypeOK
<1> QED BY <1>1, <1>2

\* passCase
LEMMA PassType ==
  ASSUME TypeInv, NEW id \in CaseIds, id < caseSeq, NEW c \in CaseRecords, c.target \in Targets,
         PassCase(id, c), caseSeq' = caseSeq
  PROVE  StoresTyped'
<1>0. TypeOK /\ Validate(params) /\ params \in ParamSets /\ height \in Nat
  BY DEF TypeInv, ParamsValid, TypeOK
<1>1. freeze' \in [Targets -> Freezes] /\ expiryQueue' \subseteq Nat \X Targets
  <2>1. freeze \in [Targets -> Freezes] /\ expiryQueue \subseteq Nat \X Targets
    BY <1>0 DEF TypeOK
  <2>2. [freeze[c.target] EXCEPT !.expires = 0] \in Freezes
    BY <2>1 DEF Freezes
  <2> QED BY <2>1, <2>2 DEF PassCase, MakePermanent
<1>2. votingQueue' \subseteq Nat \X CaseIds
  BY <1>0 DEF PassCase, TypeOK
<1>3. CASE c.action = "seize"
  <2> DEFINE value == liquid[c.target] + staked[c.target] + unbonding[c.target]
             at == height + SeizureDelayFor(params, value)
             d == [c EXCEPT !.status = "held", !.resolvedAt = height,
                            !.assessed = value, !.executeAt = at]
  <2>1. value \in Nat
    BY <1>0 DEF TypeOK
  <2>2. at \in Nat
    <3> HIDE DEF value
    <3> QED BY <1>0, <2>1, DelayType
  <2>3. HoldSeizure(id, c)
    BY <1>3 DEF PassCase
  <2>4. /\ cases' = [cases EXCEPT ![id] = d]
        /\ executionQueue' = executionQueue \cup {<<at, id>>}
        /\ casesPassed' = casesPassed
    BY <2>3 DEF HoldSeizure
  <2> HIDE DEF value, at
  <2>5. d \in CaseRecords /\ d.target \in Targets
    BY <1>0, <2>1, <2>2 DEF CaseRecords, Live
  <2> HIDE DEF d
  <2>6. CasesTyped'
    BY <1>0, <2>4, <2>5, WriteCase
  <2>7. executionQueue' \subseteq Nat \X CaseIds
    BY <1>0, <2>2, <2>4 DEF TypeOK
  <2>8. casesPassed' \in Nat
    BY <1>0, <2>4 DEF TypeOK
  <2> QED BY <1>1, <1>2, <2>6, <2>7, <2>8 DEF StoresTyped
<1>4. CASE c.action # "seize"
  <2> DEFINE d == [c EXCEPT !.status = "passed", !.resolvedAt = height]
  <2>1. /\ cases' = [cases EXCEPT ![id] = d]
        /\ casesPassed' = casesPassed + 1 /\ executionQueue' = executionQueue
    BY <1>4 DEF PassCase
  <2>2. d \in CaseRecords /\ d.target \in Targets
    BY <1>0 DEF CaseRecords, Live
  <2> HIDE DEF d
  <2>3. CasesTyped'
    BY <1>0, <2>1, <2>2, WriteCase
  <2>4. executionQueue' \subseteq Nat \X CaseIds /\ casesPassed' \in Nat
    BY <1>0, <2>1 DEF TypeOK
  <2> QED BY <1>1, <1>2, <2>3, <2>4 DEF StoresTyped
<1> QED BY <1>3, <1>4

\* rejectCase
LEMMA RejectType ==
  ASSUME TypeOK, NEW id \in CaseIds, id < caseSeq, NEW c \in CaseRecords, c.target \in Targets,
         NEW status \in Stopped, RejectCase(id, c, status), caseSeq' = caseSeq
  PROVE  StoresTyped'
<1> DEFINE d == [c EXCEPT !.status = status, !.resolvedAt = height]
<1>1. cases' = [cases EXCEPT ![id] = d]
  BY DEF RejectCase
<1>2. d \in CaseRecords /\ d.target \in Targets
  <2>1. height \in Nat
    BY DEF TypeOK
  <2> QED BY <2>1 DEF CaseRecords
<1> HIDE DEF d
<1>3. CasesTyped'
  BY <1>1, <1>2, WriteCase
<1>4. freeze' \in [Targets -> Freezes] /\ expiryQueue' \subseteq Nat \X Targets
  BY LiftType DEF RejectCase
<1>5. /\ votingQueue' \subseteq Nat \X CaseIds /\ executionQueue' \subseteq Nat \X CaseIds
      /\ casesPassed' \in Nat
  BY DEF RejectCase, TypeOK
<1> QED BY <1>3, <1>4, <1>5 DEF StoresTyped

\* Stopping a case and taking it off its queue.
LEMMA StopType ==
  ASSUME TypeOK, NEW id \in CaseIds, cases[id].status # "unopened", NEW status \in Stopped,
         StopWith(id, status), Dequeue(id), caseSeq' = caseSeq
  PROVE  /\ CasesTyped'
         /\ votingQueue' \subseteq Nat \X CaseIds /\ executionQueue' \subseteq Nat \X CaseIds
<1> DEFINE d == [cases[id] EXCEPT !.status = status, !.resolvedAt = height]
<1>1. cases' = [cases EXCEPT ![id] = d]
  BY DEF StopWith
<1>2. id < caseSeq /\ cases[id] \in CaseRecords /\ cases[id].target \in Targets
  BY OpenedCase
<1>3. d \in CaseRecords /\ d.target \in Targets
  <2>1. height \in Nat
    BY DEF TypeOK
  <2> QED BY <1>2, <2>1 DEF CaseRecords
<1> HIDE DEF d
<1>4. CasesTyped'
  BY <1>1, <1>2, <1>3, WriteCase
<1>5. votingQueue' \subseteq Nat \X CaseIds /\ executionQueue' \subseteq Nat \X CaseIds
  BY DEF Dequeue, TypeOK
<1> QED BY <1>4, <1>5

\* The other conjuncts of TypeOK.
BlockTyped ==
  /\ height \in Nat
  /\ phase \in {"deliver", "resolve", "execute"}
  /\ due \subseteq Nat \X CaseIds /\ (phase = "deliver" => due = {})
MoneyTyped ==
  /\ liquid \in [Targets -> Nat] /\ staked \in [Targets -> Nat]
  /\ unbonding \in [Targets -> Nat] /\ vault \in Nat
  /\ recovered \in Nat
RestTyped ==
  /\ params \in ParamSets /\ Validate(params)
  /\ caseSeq \in Nat \ {0}
  /\ voted \in [CaseIds -> SUBSET Validators]
  /\ ledger \subseteq SeizureRecords /\ history \subseteq SeizureRecords
  /\ power \in [Validators -> Nat] /\ bonded \subseteq Validators /\ lastTotal \in Nat
  /\ roles \subseteq Accounts

\* TypeInv is the conjunction of the groups.
LEMMA TypeParts == TypeInv <=> StoresTyped /\ BlockTyped /\ MoneyTyped /\ RestTyped
BY DEF TypeInv, TypeOK, ParamsValid, StoresTyped, CasesTyped, BlockTyped, MoneyTyped, RestTyped

\* The same after a step.
LEMMA TypePartsNext == TypeInv' <=> StoresTyped' /\ BlockTyped' /\ MoneyTyped' /\ RestTyped'
BY DEF TypeInv, TypeOK, ParamsValid, StoresTyped, CasesTyped, BlockTyped, MoneyTyped, RestTyped

\* The genesis state.
LEMMA InitType == Init => TypeInv
<1> SUFFICES ASSUME Init PROVE TypeInv
  OBVIOUS
<1>1. NoCase \in CaseRecords
  BY DEF NoCase, CaseRecords, Actions
<1>2. NoFreeze \in Freezes
  BY DEF NoFreeze, Freezes
<1>3. StoresTyped
  <2>1. \A id \in CaseIds : ~(id < 1) /\ cases[id] = NoCase
    BY BoundAssumption DEF Init, CaseIds
  <2> QED BY <1>1, <1>2, <2>1 DEF Init, StoresTyped, CasesTyped
<1>4. power \in [Validators -> Nat] /\ lastTotal = SumFunctionOnSet(power, Validators)
  BY SetAssumption DEF Init, SumFunction
<1>5. lastTotal \in Nat
  BY <1>4, SumNat, SetAssumption
<1>6. params \in ParamSets /\ Validate(params)
  BY SetAssumption DEF Init
<1>7. BlockTyped /\ MoneyTyped
  BY SetAssumption DEF Init, BlockTyped, MoneyTyped
<1>8. RestTyped
  BY <1>4, <1>5, <1>6, SetAssumption DEF Init, RestTyped
<1> QED BY <1>3, <1>7, <1>8, TypeParts

\* OpenCase and EmergencyFreeze.
LEMMA OpenType ==
  ASSUME TypeInv, NEW t \in Targets, NEW opener \in Openers, NEW action \in Actions,
         Open(t, opener, action)
  PROVE  TypeInv'
<1>0. TypeOK /\ params \in ParamSets /\ height \in Nat /\ caseSeq \in Nat \ {0} /\ lastTotal \in Nat
  BY DEF TypeInv, TypeOK
<1> DEFINE ends == height + params.voting
           expires == height + params.provisional
           d == [NoCase EXCEPT !.status = "voting", !.target = t, !.action = action,
                   !.opener = opener, !.votingEnds = ends, !.totalAtOpen = lastTotal]
<1>1. ends \in Nat /\ expires \in Nat
  BY <1>0 DEF ParamSets
<1>2. /\ cases' = [cases EXCEPT ![caseSeq] = d] /\ caseSeq' = caseSeq + 1
      /\ votingQueue' = votingQueue \cup {<<ends, caseSeq>>}
      /\ freeze' = [freeze EXCEPT ![t] = [case |-> caseSeq, expires |-> expires]]
      /\ expiryQueue' = expiryQueue \cup {<<expires, t>>}
      /\ caseSeq <= MaxCases
      /\ UNCHANGED <<params, blockVars, voted, executionQueue, tallyVars, stakeVars, roles, moneyVars>>
  BY DEF Open
<1> HIDE DEF ends, expires
<1>3. caseSeq \in CaseIds
  BY <1>0, <1>2, BoundAssumption DEF CaseIds
<1>4. d \in CaseRecords /\ d.target = t
  BY <1>0, <1>1 DEF CaseRecords, NoCase, Live
<1> HIDE DEF d
<1>5. cases \in [CaseIds -> CaseRecords]
  BY <1>0 DEF TypeOK
<1>6. CasesTyped'
  <2>1. cases' \in [CaseIds -> CaseRecords]
    BY <1>2, <1>4, <1>5
  <2>2. ASSUME NEW i \in CaseIds
        PROVE  IF i < caseSeq + 1 THEN cases'[i].target \in Targets ELSE cases'[i] = NoCase
    <3>1. i \in Nat
      BY BoundAssumption DEF CaseIds
    <3>2. cases'[i] = IF i = caseSeq THEN d ELSE cases[i]
      BY <1>2, <1>5
    <3>3. IF i < caseSeq THEN cases[i].target \in Targets ELSE cases[i] = NoCase
      BY <1>0 DEF TypeOK
    <3> QED BY <1>0, <1>4, <3>1, <3>2, <3>3
  <2> QED BY <1>2, <2>1, <2>2 DEF CasesTyped
<1>7. [case |-> caseSeq, expires |-> expires] \in Freezes
  BY <1>0, <1>1 DEF Freezes
<1>8. freeze' \in [Targets -> Freezes]
  BY <1>0, <1>2, <1>7 DEF TypeOK
<1>9. /\ votingQueue' \subseteq Nat \X CaseIds /\ executionQueue' \subseteq Nat \X CaseIds
      /\ expiryQueue' \subseteq Nat \X Targets /\ casesPassed' \in Nat
  BY <1>0, <1>1, <1>2, <1>3 DEF TypeOK, tallyVars
<1>10. StoresTyped'
  BY <1>6, <1>8, <1>9 DEF StoresTyped
<1>11. BlockTyped' /\ MoneyTyped' /\ RestTyped'
  BY <1>0, <1>2 DEF TypeInv, ParamsValid, TypeOK, BlockTyped, MoneyTyped, RestTyped, blockVars, tallyVars,
     stakeVars, moneyVars
<1> QED BY <1>10, <1>11, TypePartsNext

\* The name on a case is that of an account.
LEMMA OpenerType == \A a \in Accounts : OpenerIdentity(a) \in Openers /\ <<"account", a>> \in Openers
BY DEF OpenerIdentity, Openers

\* VoteCase
LEMMA VoteType ==
  ASSUME TypeInv, NEW a \in Validators, NEW id \in CaseIds,
         NEW option \in {"yes", "no", "abstain"}, VoteCase(a, id, option)
  PROVE  TypeInv'
<1>0. TypeOK
  BY DEF TypeInv
<1> DEFINE c == Tallied(cases[id], option, power[a])
<1>1. cases[id].status = "voting"
  BY DEF VoteCase
<1>2. id < caseSeq /\ cases[id] \in CaseRecords /\ cases[id].target \in Targets
  BY <1>0, <1>1, OpenedCase
<1>3. power[a] \in Nat
  BY <1>0 DEF TypeOK
<1>4. c \in CaseRecords /\ c.target \in Targets
  <2>1. CASE option = "yes"
    <3>1. c = [cases[id] EXCEPT !.yes = @ + power[a]]
      BY <2>1 DEF Tallied
    <3> QED BY <1>2, <1>3, <3>1 DEF CaseRecords
  <2>2. CASE option = "no"
    <3>1. c = [cases[id] EXCEPT !.no = @ + power[a]]
      BY <2>2 DEF Tallied
    <3> QED BY <1>2, <1>3, <3>1 DEF CaseRecords
  <2>3. CASE option = "abstain"
    <3>1. c = cases[id]
      BY <2>3 DEF Tallied
    <3> QED BY <1>2, <3>1
  <2> QED BY <2>1, <2>2, <2>3
<1>5. /\ voted' = [voted EXCEPT ![id] = @ \cup {a}]
      /\ UNCHANGED <<params, blockVars, caseSeq, ledger, recovered, history, stakeVars, roles, moneyVars>>
      /\ \/ PassCase(id, c) \/ RejectCase(id, c, "rejected")
         \/ /\ cases' = [cases EXCEPT ![id] = c]
            /\ UNCHANGED <<freeze, queueVars, casesPassed>>
  BY DEF VoteCase
<1> HIDE DEF c
<1>6. StoresTyped'
  <2>1. CASE PassCase(id, c)
    BY <1>2, <1>4, <1>5, <2>1, PassType
  <2>2. CASE RejectCase(id, c, "rejected")
    <3>1. "rejected" \in Stopped
      BY DEF Stopped
    <3> QED BY <1>0, <1>2, <1>4, <1>5, <2>2, <3>1, RejectType
  <2>3. CASE cases' = [cases EXCEPT ![id] = c] /\ UNCHANGED <<freeze, queueVars, casesPassed>>
    <3>1. CasesTyped'
      BY <1>0, <1>2, <1>4, <1>5, <2>3, WriteCase
    <3> QED BY <1>0, <2>3, <3>1 DEF StoresTyped, TypeOK, queueVars
  <2> QED BY <1>5, <2>1, <2>2, <2>3
<1>7. BlockTyped' /\ MoneyTyped'
  BY <1>0, <1>5 DEF TypeOK, BlockTyped, MoneyTyped, blockVars, moneyVars
<1>8. RestTyped'
  <2>1. voted' \in [CaseIds -> SUBSET Validators]
    BY <1>0, <1>5 DEF TypeOK
  <2> QED BY <1>5, <2>1 DEF TypeInv, ParamsValid, TypeOK, RestTyped, stakeVars
<1> QED BY <1>6, <1>7, <1>8, TypePartsNext

\* WithdrawCase
LEMMA WithdrawType ==
  ASSUME TypeInv, NEW a, NEW id \in CaseIds, WithdrawCase(a, id)
  PROVE  TypeInv'
<1>0. TypeOK
  BY DEF TypeInv
<1>1. /\ cases[id].status = "voting" /\ RejectCase(id, cases[id], "withdrawn")
      /\ UNCHANGED <<params, blockVars, caseSeq, voted, ledger, recovered, history, stakeVars, roles, moneyVars>>
  BY DEF WithdrawCase
<1>2. id < caseSeq /\ cases[id] \in CaseRecords /\ cases[id].target \in Targets
  BY <1>0, <1>1, OpenedCase
<1>3. "withdrawn" \in Stopped
  BY DEF Stopped
<1>4. StoresTyped'
  BY <1>0, <1>1, <1>2, <1>3, RejectType
<1>5. BlockTyped' /\ MoneyTyped' /\ RestTyped'
  BY <1>0, <1>1 DEF TypeInv, ParamsValid, TypeOK, BlockTyped, MoneyTyped, RestTyped, blockVars, stakeVars, moneyVars
<1> QED BY <1>4, <1>5, TypePartsNext

\* ReverseCase, EmergencyRelease and OmbudsmanVeto.
LEMMA StoppedType ==
  ASSUME TypeInv, NEW id \in CaseIds, cases[id].status # "unopened", NEW status \in Stopped,
         StopWith(id, status), Dequeue(id),
         Unfreeze(cases[id].target) \/ LiftFreeze(cases[id].target, id),
         UNCHANGED <<params, blockVars, caseSeq, voted, tallyVars, stakeVars, roles, moneyVars>>
  PROVE  TypeInv'
<1>0. TypeOK
  BY DEF TypeInv
<1>1. cases[id].target \in Targets
  BY <1>0, OpenedCase
<1>2. /\ CasesTyped'
      /\ votingQueue' \subseteq Nat \X CaseIds /\ executionQueue' \subseteq Nat \X CaseIds
  BY <1>0, StopType
<1>3. freeze' \in [Targets -> Freezes] /\ expiryQueue' \subseteq Nat \X Targets
  BY <1>0, <1>1, UnfreezeType, LiftType
<1>4. StoresTyped'
  BY <1>0, <1>2, <1>3 DEF StoresTyped, TypeOK, tallyVars
<1>5. BlockTyped' /\ MoneyTyped' /\ RestTyped'
  BY <1>0 DEF TypeInv, ParamsValid, TypeOK, BlockTyped, MoneyTyped, RestTyped, blockVars, tallyVars,
     stakeVars, moneyVars
<1> QED BY <1>4, <1>5, TypePartsNext

\* unbondEverything and collect.
LEMMA CollectType ==
  ASSUME TypeOK, NEW t \in Targets, NEW u, UnbondAndCollect(t, u)
  PROVE  MoneyTyped'
<1>1. /\ liquid \in [Targets -> Nat] /\ staked \in [Targets -> Nat]
      /\ unbonding \in [Targets -> Nat] /\ vault \in Nat /\ recovered \in Nat
  BY DEF TypeOK
<1>2. u \in Nat /\ staked[t] - u \in Nat /\ unbonding[t] + u \in Nat
  BY <1>1 DEF UnbondAndCollect
<1>3. /\ staked' = [staked EXCEPT ![t] = @ - u]
      /\ unbonding' = [unbonding EXCEPT ![t] = @ + u]
      /\ liquid' = [liquid EXCEPT ![t] = 0]
      /\ vault' = vault + liquid[t] /\ recovered' = recovered + liquid[t]
  BY DEF UnbondAndCollect
<1>4. staked' \in [Targets -> Nat] /\ unbonding' \in [Targets -> Nat] /\ liquid' \in [Targets -> Nat]
  BY <1>1, <1>2, <1>3
<1>5. vault' \in Nat /\ recovered' \in Nat
  BY <1>1, <1>3
<1> QED BY <1>4, <1>5 DEF MoneyTyped

\* Sweep
LEMMA SweepType ==
  ASSUME TypeInv, NEW a, NEW id \in CaseIds, NEW u, Sweep(a, id, u)
  PROVE  TypeInv'
<1>0. TypeOK
  BY DEF TypeInv
<1> DEFINE t == cases[id].target
           d == [cases[id] EXCEPT !.recovered = @ + liquid[t]]
<1>1. /\ cases[id].status = "passed" /\ UnbondAndCollect(t, u)
      /\ cases' = [cases EXCEPT ![id] = d]
      /\ UNCHANGED <<params, blockVars, caseSeq, voted, freeze, queueVars, ledger, casesPassed,
                     history, stakeVars, roles>>
  BY DEF Sweep
<1>2. id < caseSeq /\ cases[id] \in CaseRecords /\ t \in Targets
  BY <1>0, <1>1, OpenedCase
<1>3. liquid[t] \in Nat
  BY <1>0, <1>2 DEF TypeOK
<1>4. d \in CaseRecords /\ d.target \in Targets
  BY <1>2, <1>3 DEF CaseRecords
<1> HIDE DEF t, d
<1>5. CasesTyped'
  BY <1>0, <1>1, <1>2, <1>4, WriteCase
<1>6. MoneyTyped'
  BY <1>0, <1>1, <1>2, CollectType
<1>7. StoresTyped'
  BY <1>0, <1>1, <1>5 DEF StoresTyped, TypeOK, queueVars
<1>8. BlockTyped' /\ RestTyped'
  BY <1>0, <1>1 DEF TypeInv, ParamsValid, TypeOK, BlockTyped, RestTyped, blockVars, stakeVars
<1> QED BY <1>6, <1>7, <1>8, TypePartsNext

\* UpdateParams
LEMMA ParamsType ==
  ASSUME TypeInv, NEW p \in ParamChoices, UpdateParams(p)
  PROVE  TypeInv'
<1>1. params' \in ParamSets /\ Validate(params')
  BY SetAssumption DEF UpdateParams
<1>2. UNCHANGED <<blockVars, caseSeq, cases, voted, freeze, queueVars, tallyVars, stakeVars, roles, moneyVars>>
  BY DEF UpdateParams
<1>3. StoresTyped' /\ BlockTyped' /\ MoneyTyped'
  BY <1>2 DEF TypeInv, TypeOK, StoresTyped, CasesTyped, BlockTyped, MoneyTyped, blockVars, queueVars, tallyVars, moneyVars
<1>4. RestTyped'
  <2>1. Validate(params)'
    BY <1>1 DEF Validate, ValidateSeizures
  <2>2. UNCHANGED <<caseSeq, voted, ledger, history, power, bonded, lastTotal, roles>>
    BY <1>2 DEF tallyVars, stakeVars
  <2>3. RestTyped
    BY TypeParts
  <2>4. /\ caseSeq' \in Nat \ {0} /\ voted' \in [CaseIds -> SUBSET Validators]
        /\ ledger' \subseteq SeizureRecords /\ history' \subseteq SeizureRecords
        /\ power' \in [Validators -> Nat] /\ bonded' \subseteq Validators /\ lastTotal' \in Nat
        /\ roles' \subseteq Accounts
    BY ONLY <2>2, <2>3 DEF RestTyped
  <2>5. params' \in ParamSets
    BY <1>1
  <2> QED BY ONLY <2>1, <2>4, <2>5, Zenon DEF RestTyped
<1> QED BY <1>3, <1>4, TypePartsNext

\* The other modules' steps.
LEMMA SurroundingsType ==
  ASSUME TypeInv, Surroundings
  PROVE  TypeInv'
<1>0. TypeOK
  BY DEF TypeInv
<1>1. ASSUME NEW p \in PowerTables, PowerMoves(p) PROVE TypeInv'
  <2>1. p \in [Validators -> Nat]
    BY SetAssumption
  <2>2. /\ power' = p
        /\ UNCHANGED <<params, blockVars, caseSeq, cases, voted, freeze, queueVars, tallyVars,
                       bonded, lastTotal, roles, moneyVars>>
    BY <1>1 DEF PowerMoves
  <2>3. StoresTyped' /\ BlockTyped' /\ MoneyTyped'
    BY <1>0, <2>2 DEF TypeOK, StoresTyped, CasesTyped, BlockTyped, MoneyTyped, blockVars, queueVars, tallyVars, moneyVars
  <2>4. RestTyped'
    BY <2>1, <2>2 DEF TypeInv, ParamsValid, TypeOK, RestTyped, tallyVars
  <2> QED BY <2>3, <2>4, TypePartsNext
<1>2. ASSUME NEW a \in RoleMoves, RoleMoved(a) PROVE TypeInv'
  <2>1. roles' \subseteq Accounts
    BY <1>0, <1>2, SetAssumption DEF RoleMoved, TypeOK
  <2>2. UNCHANGED <<params, blockVars, caseSeq, cases, voted, freeze, queueVars, tallyVars,
                    stakeVars, moneyVars>>
    BY <1>2 DEF RoleMoved
  <2>3. StoresTyped' /\ BlockTyped' /\ MoneyTyped'
    BY <1>0, <2>2 DEF TypeOK, StoresTyped, CasesTyped, BlockTyped, MoneyTyped, blockVars, queueVars, tallyVars, moneyVars
  <2>4. RestTyped'
    BY <2>1, <2>2 DEF TypeInv, ParamsValid, TypeOK, RestTyped, tallyVars, stakeVars
  <2> QED BY <2>3, <2>4, TypePartsNext
<1>3. ASSUME NEW t \in Targets, MoneyMoves(t) PROVE TypeInv'
  <2>1. UNCHANGED <<params, blockVars, caseSeq, cases, voted, freeze, queueVars, tallyVars,
                    stakeVars, roles>>
    BY <1>3 DEF MoneyMoves
  <2>2. /\ liquid \in [Targets -> Nat] /\ staked \in [Targets -> Nat]
        /\ unbonding \in [Targets -> Nat] /\ vault \in Nat /\ recovered \in Nat
    BY <1>0 DEF TypeOK
  <2>3. MoneyTyped'
    BY <1>3, <2>2 DEF MoneyMoves, MoneyTyped, tallyVars
  <2>4. StoresTyped' /\ BlockTyped'
    BY <1>0, <2>1 DEF TypeOK, StoresTyped, CasesTyped, BlockTyped, blockVars, queueVars, tallyVars
  <2>5. RestTyped'
    BY <2>1 DEF TypeInv, ParamsValid, TypeOK, RestTyped, tallyVars, stakeVars
  <2> QED BY <2>3, <2>4, <2>5, TypePartsNext
<1> QED BY <1>1, <1>2, <1>3 DEF Surroundings

\* EndBlockStart and ExecuteStart.
LEMMA CollectDueType ==
  ASSUME TypeInv, EndBlockStart \/ ExecuteStart
  PROVE  TypeInv'
<1>0. TypeOK
  BY DEF TypeInv
<1>1. UNCHANGED <<params, height, caseSeq, cases, voted, freeze, queueVars, tallyVars, stakeVars, roles, moneyVars>>
  BY DEF EndBlockStart, ExecuteStart
<1>2. phase' \in {"resolve", "execute"} /\ due' \subseteq Nat \X CaseIds
  BY <1>0 DEF EndBlockStart, ExecuteStart, DueBy, TypeOK
<1>3. StoresTyped' /\ BlockTyped' /\ MoneyTyped'
  BY <1>0, <1>1, <1>2 DEF TypeOK, StoresTyped, CasesTyped, BlockTyped, MoneyTyped, queueVars, tallyVars, moneyVars
<1>4. RestTyped'
  BY <1>1 DEF TypeInv, ParamsValid, TypeOK, RestTyped, tallyVars, stakeVars
<1> QED BY <1>3, <1>4, TypePartsNext

\* resolveDueCases
LEMMA ResolveType ==
  ASSUME TypeInv, ResolveDue
  PROVE  TypeInv'
<1>0. TypeOK
  BY DEF TypeInv
<1> DEFINE id == FirstDue[2]
           c == cases[id]
<1>1. /\ due # {} /\ phase = "resolve" /\ phase' = phase /\ height' = height /\ due' = due \ {FirstDue}
      /\ UNCHANGED <<params, height, phase, caseSeq, voted, ledger, recovered, history,
                     stakeVars, roles, moneyVars>>
  BY DEF ResolveDue
<1>2. id \in CaseIds
  BY <1>0, <1>1, FirstDueIsDue DEF TypeOK
<1>3. \/ /\ votingQueue' = votingQueue \ {<<c.votingEnds, id>>}
         /\ UNCHANGED <<cases, freeze, expiryQueue, executionQueue, casesPassed>>
      \/ c.status = "voting" /\ (PassCase(id, c) \/ RejectCase(id, c, "expired"))
  BY DEF ResolveDue
<1> HIDE DEF id
<1>4. StoresTyped'
  <2>1. CASE /\ votingQueue' = votingQueue \ {<<c.votingEnds, id>>}
             /\ UNCHANGED <<cases, freeze, expiryQueue, executionQueue, casesPassed>>
    BY <1>0, <1>1, <2>1 DEF TypeOK, StoresTyped, CasesTyped
  <2>2. CASE c.status = "voting" /\ (PassCase(id, c) \/ RejectCase(id, c, "expired"))
    <3>1. id < caseSeq /\ c \in CaseRecords /\ c.target \in Targets
      BY <1>0, <1>2, <2>2, OpenedCase
    <3>2. "expired" \in Stopped
      BY DEF Stopped
    <3> HIDE DEF c
    <3>3. CASE PassCase(id, c)
      BY <1>1, <1>2, <3>1, <3>3, PassType
    <3>4. CASE RejectCase(id, c, "expired")
      BY <1>0, <1>1, <1>2, <3>1, <3>2, <3>4, RejectType
    <3> QED BY <2>2, <3>3, <3>4
  <2> QED BY <1>3, <2>1, <2>2
<1>5. BlockTyped' /\ MoneyTyped'
  BY <1>0, <1>1 DEF TypeOK, BlockTyped, MoneyTyped, moneyVars
<1>6. RestTyped'
  BY <1>1 DEF TypeInv, ParamsValid, TypeOK, RestTyped, stakeVars
<1> QED BY <1>4, <1>5, <1>6, TypePartsNext

\* executeDueSeizures
LEMMA ExecuteType ==
  ASSUME TypeInv, ExecuteDue
  PROVE  TypeInv'
<1>0. TypeOK
  BY DEF TypeInv
<1> DEFINE id == FirstDue[2]
           c == cases[id]
<1>1. /\ due # {} /\ phase = "execute" /\ due' = due \ {FirstDue}
      /\ UNCHANGED <<params, height, phase, caseSeq, voted, freeze, votingQueue, expiryQueue,
                     stakeVars, roles>>
  BY DEF ExecuteDue
<1>2. id \in CaseIds
  BY <1>0, <1>1, FirstDueIsDue DEF TypeOK
<1>3. \/ /\ executionQueue' = executionQueue \ {FirstDue}
         /\ UNCHANGED <<cases, tallyVars, moneyVars>>
      \/ c.status = "held" /\ \E u \in {0, staked[c.target]} : CarryOut(id, u)
      \/ c.status = "held" /\ Defer(id) /\ UNCHANGED <<tallyVars, moneyVars>>
  BY DEF ExecuteDue
<1> HIDE DEF id
<1>4. BlockTyped'
  BY <1>0, <1>1 DEF TypeOK, BlockTyped
<1>5. (c.status = "held") => id < caseSeq /\ c \in CaseRecords /\ c.target \in Targets
  BY <1>0, <1>2, OpenedCase
<1>6. CASE /\ executionQueue' = executionQueue \ {FirstDue}
           /\ UNCHANGED <<cases, tallyVars, moneyVars>>
  <2>1. StoresTyped' /\ MoneyTyped'
    BY <1>0, <1>1, <1>6 DEF TypeOK, StoresTyped, CasesTyped, MoneyTyped, tallyVars, moneyVars
  <2>2. RestTyped'
    BY <1>1, <1>6 DEF TypeInv, ParamsValid, TypeOK, RestTyped, tallyVars, stakeVars
  <2> QED BY <1>4, <2>1, <2>2, TypePartsNext
<1>7. ASSUME c.status = "held", NEW u, CarryOut(id, u) PROVE TypeInv'
  <2> DEFINE got == liquid[c.target]
             amount == IF c.assessed >= got THEN c.assessed ELSE got
             record == [height |-> height, case |-> id, amount |-> amount]
             d == [c EXCEPT !.status = "passed", !.recovered = c.recovered + got]
  <2>0. id < caseSeq /\ c \in CaseRecords /\ c.target \in Targets
    BY <1>5, <1>7
  <2>1. /\ executionQueue' = executionQueue \ {FirstDue}
        /\ cases' = [cases EXCEPT ![id] = d]
        /\ casesPassed' = casesPassed + 1
        /\ UnbondAndCollect(c.target, u)
        /\ ledger' = ledger \cup {record} /\ history' = history \cup {record}
    BY <1>7 DEF CarryOut
  <2>2. got \in Nat /\ height \in Nat
    BY <1>0, <1>5, <1>7 DEF TypeOK
  <2>3. d \in CaseRecords /\ d.target \in Targets
    <3> HIDE DEF got, c
    <3>1. c.recovered + got \in Nat
      BY <2>0, <2>2 DEF CaseRecords
    <3> QED BY <2>0, <3>1 DEF CaseRecords, Live
  <2>4. record \in SeizureRecords
    BY <1>2, <1>5, <1>7, <2>2 DEF SeizureRecords, CaseRecords
  <2> HIDE DEF record, d, c
  <2>5. CasesTyped'
    BY <1>0, <1>1, <1>2, <1>5, <1>7, <2>1, <2>3, WriteCase
  <2>6. MoneyTyped'
    BY <1>0, <1>5, <1>7, <2>1, CollectType
  <2>7. StoresTyped'
    BY <1>0, <1>1, <2>1, <2>5 DEF StoresTyped, TypeOK
  <2>8. RestTyped'
    BY <1>1, <2>1, <2>4 DEF TypeInv, ParamsValid, TypeOK, RestTyped, stakeVars
  <2> QED BY <1>4, <2>6, <2>7, <2>8, TypePartsNext
<1>8. CASE c.status = "held" /\ Defer(id) /\ UNCHANGED <<tallyVars, moneyVars>>
  <2> DEFINE d == [c EXCEPT !.executeAt = NextWindowOpening]
  <2>1. /\ executionQueue' = (executionQueue \ {FirstDue}) \cup {<<NextWindowOpening, id>>}
        /\ cases' = [cases EXCEPT ![id] = d]
    BY <1>8 DEF Defer
  <2>2. NextWindowOpening \in Nat
    BY <1>0, OpeningType DEF TypeOK
  <2>3. d \in CaseRecords /\ d.target \in Targets
    BY <1>5, <1>8, <2>2 DEF CaseRecords
  <2> HIDE DEF d
  <2>4. CasesTyped'
    BY <1>0, <1>1, <1>2, <1>5, <1>8, <2>1, <2>3, WriteCase
  <2>5. StoresTyped' /\ MoneyTyped'
    BY <1>0, <1>1, <1>2, <1>8, <2>1, <2>2, <2>4 DEF StoresTyped, MoneyTyped, TypeOK, tallyVars, moneyVars
  <2>6. RestTyped'
    BY <1>1, <1>8 DEF TypeInv, ParamsValid, TypeOK, RestTyped, tallyVars, stakeVars
  <2> QED BY <1>4, <2>5, <2>6, TypePartsNext
<1> QED BY <1>3, <1>6, <1>7, <1>8

\* expireFreezes, pruneSeizureLedger and the next block.
LEMMA FinishType ==
  ASSUME TypeInv, EndBlockFinish
  PROVE  TypeInv'
<1>0. TypeOK
  BY DEF TypeInv
<1>1. /\ freeze' = [t \in Targets |-> IF Lapsed(t) THEN NoFreeze ELSE freeze[t]]
      /\ expiryQueue' \subseteq expiryQueue
      /\ ledger' \subseteq ledger
      /\ bonded' \subseteq Validators
      /\ lastTotal' = SumFunction(power)
      /\ height' = height + 1 /\ phase' = "deliver" /\ due = {}
      /\ UNCHANGED <<params, due, caseSeq, cases, voted, votingQueue, executionQueue, recovered,
                     casesPassed, history, power, roles, moneyVars>>
  BY DEF EndBlockFinish, Pruned, InWindow
<1>2. NoFreeze \in Freezes
  BY DEF NoFreeze, Freezes
<1>3. freeze' \in [Targets -> Freezes]
  BY <1>0, <1>1, <1>2 DEF TypeOK
<1>4. lastTotal' \in Nat
  <2>1. power \in [Validators -> Nat]
    BY <1>0 DEF TypeOK
  <2>2. SumFunctionOnSet(power, Validators) \in Nat
    BY <2>1, SumNat, SetAssumption
  <2> QED BY <1>1, <2>1, <2>2 DEF SumFunction
<1>5. StoresTyped'
  BY <1>0, <1>1, <1>3 DEF StoresTyped, CasesTyped, TypeOK
<1>6. BlockTyped' /\ MoneyTyped'
  BY <1>0, <1>1 DEF TypeOK, BlockTyped, MoneyTyped, moneyVars
<1>7. RestTyped'
  BY <1>1, <1>4 DEF TypeInv, ParamsValid, TypeOK, RestTyped
<1> QED BY <1>5, <1>6, <1>7, TypePartsNext

\* What InitGenesis rebuilds.
LEMMA ImportType ==
  ASSUME TypeInv, ExportAndImport
  PROVE  TypeInv'
<1>0. TypeOK
  BY DEF TypeInv
<1>1. /\ votingQueue' = QueuedVotes /\ executionQueue' = QueuedSeizures /\ expiryQueue' = QueuedExpiries
      /\ recovered' = SeizedInAll /\ casesPassed' = PassedInAll
      /\ UNCHANGED <<params, blockVars, caseSeq, cases, voted, freeze, ledger, history, stakeVars,
                     roles, moneyVars>>
  BY DEF ExportAndImport
<1>2. /\ QueuedVotes \subseteq Nat \X CaseIds /\ QueuedSeizures \subseteq Nat \X CaseIds
      /\ QueuedExpiries \subseteq Nat \X Targets
  <2>1. \A id \in CaseIds : cases[id].votingEnds \in Nat /\ cases[id].executeAt \in Nat
    BY <1>0 DEF TypeOK, CaseRecords
  <2>2. \A t \in Targets : freeze[t].expires \in Nat
    BY <1>0 DEF TypeOK, Freezes
  <2> QED BY <2>1, <2>2 DEF QueuedVotes, QueuedSeizures, QueuedExpiries
<1>3. IsFiniteSet(CaseIds)
  BY BoundAssumption, FS_Interval DEF CaseIds
<1>4. SeizedInAll \in Nat
  <2> DEFINE f == [id \in CaseIds |-> IF cases[id].action = "seize" THEN cases[id].recovered ELSE 0]
  <2>1. \A id \in CaseIds : f[id] \in Nat
    BY <1>0 DEF TypeOK, CaseRecords
  <2> HIDE DEF f
  <2>2. SumFunctionOnSet(f, CaseIds) \in Nat
    BY <1>3, <2>1, SumNat
  <2> QED BY <2>2 DEF SeizedInAll, f
<1>5. PassedInAll \in Nat
  BY <1>3, FS_Subset, FS_CardinalityType DEF PassedInAll
<1>6. StoresTyped'
  BY <1>0, <1>1, <1>2, <1>5 DEF StoresTyped, CasesTyped, TypeOK
<1>7. BlockTyped' /\ MoneyTyped'
  BY <1>0, <1>1, <1>4 DEF TypeOK, BlockTyped, MoneyTyped, blockVars, moneyVars
<1>8. RestTyped'
  BY <1>1 DEF TypeInv, ParamsValid, TypeOK, RestTyped, stakeVars
<1> QED BY <1>6, <1>7, <1>8, TypePartsNext

\* Every step keeps the types.
LEMMA StepType == TypeInv /\ [Next]_vars => TypeInv'
<1> SUFFICES ASSUME TypeInv, [Next]_vars PROVE TypeInv'
  OBVIOUS
<1>0. Stopped = {"rejected", "expired", "withdrawn", "reversed", "vetoed"} /\ Live = {"voting", "held", "passed"}
  BY DEF Stopped, Live
<1>1. CASE Messages
  <2>1. ASSUME NEW a \in Accounts, NEW t \in Targets, NEW action \in Actions, OpenCase(a, t, action)
        PROVE  TypeInv'
    <3>1. Open(t, OpenerIdentity(a), action)
      BY <2>1 DEF OpenCase
    <3>2. OpenerIdentity(a) \in Openers
      BY OpenerType
    <3> QED BY <3>1, <3>2, OpenType
  <2>2. ASSUME NEW a \in Accounts, NEW t \in Targets, EmergencyFreeze(a, t) PROVE TypeInv'
    <3>1. Open(t, <<"account", a>>, "freeze") /\ "freeze" \in Actions
      BY <2>2 DEF EmergencyFreeze, Actions
    <3>2. <<"account", a>> \in Openers
      BY OpenerType
    <3> QED BY <3>1, <3>2, OpenType
  <2>3. ASSUME NEW a \in Accounts, NEW id \in Opened, WithdrawCase(a, id) PROVE TypeInv'
    BY <2>3, WithdrawType DEF Opened
  <2>4. ASSUME NEW a \in Accounts, NEW id \in Opened, EmergencyRelease(a, id) PROVE TypeInv'
    BY <1>0, <2>4, StoppedType DEF Opened, EmergencyRelease
  <2>5. ASSUME NEW a \in Accounts, NEW id \in Opened, OmbudsmanVeto(a, id) PROVE TypeInv'
    BY <1>0, <2>5, StoppedType DEF Opened, OmbudsmanVeto
  <2>6. ASSUME NEW a \in Accounts, NEW id \in Opened, NEW u, Sweep(a, id, u) PROVE TypeInv'
    BY <2>6, SweepType DEF Opened
  <2>7. ASSUME NEW a \in Validators, NEW id \in Opened, NEW option \in {"yes", "no", "abstain"},
               VoteCase(a, id, option)
        PROVE  TypeInv'
    BY <2>7, VoteType DEF Opened
  <2> QED BY <1>1, <2>1, <2>2, <2>3, <2>4, <2>5, <2>6, <2>7 DEF Messages
<1>2. CASE Governance
  <2>1. ASSUME NEW id \in Opened, ReverseCase(id) PROVE TypeInv'
    BY <1>0, <2>1, StoppedType DEF Opened, ReverseCase
  <2> QED BY <1>2, <2>1, ParamsType DEF Governance
<1>3. CASE EndBlocker
  BY <1>3, CollectDueType, ResolveType, ExecuteType, FinishType DEF EndBlocker
<1>4. CASE UNCHANGED vars
  <2>1. StoresTyped' /\ BlockTyped' /\ MoneyTyped'
    BY <1>4 DEF TypeInv, TypeOK, StoresTyped, CasesTyped, BlockTyped, MoneyTyped, vars, blockVars,
       queueVars, tallyVars, moneyVars
  <2>2. RestTyped'
    BY <1>4 DEF TypeInv, ParamsValid, TypeOK, RestTyped, vars, tallyVars, stakeVars
  <2> QED BY <2>1, <2>2, TypePartsNext
<1> QED BY <1>1, <1>2, <1>3, <1>4, SurroundingsType, ImportType DEF Next

\* Every store of x/enforcement holds values of its type in every reachable
\* state, whatever messages arrive and however the validators, the grants and
\* the parameters move.
THEOREM TypeCorrect == Spec => []TypeOK
<1>1. TypeInv => TypeOK
  BY DEF TypeInv
<1> QED BY <1>1, InitType, StepType, PTL DEF Spec
----------------------------------------------------------------------------
(* Cases, freezes and queues *)

\* A freeze has an expiry exactly while its case is being voted on, and does
\* not lapse before the vote ends.
Settled ==
  \A t \in Targets :
    /\ ~Frozen(t) => freeze[t].expires = 0
    /\ Frozen(t) => (freeze[t].expires > 0 <=> cases[freeze[t].case].status = "voting")
    /\ freeze[t].expires > 0 => cases[freeze[t].case].votingEnds <= freeze[t].expires

\* A queue holds a key exactly when the case or the freeze says so.
VotesQueued ==
  \A k \in Nat, id \in CaseIds :
    <<k, id>> \in votingQueue <=> cases[id].status = "voting" /\ cases[id].votingEnds = k
SeizuresQueued ==
  \A k \in Nat, id \in CaseIds :
    <<k, id>> \in executionQueue <=> cases[id].status = "held" /\ cases[id].executeAt = k
ExpiriesQueued ==
  \A k \in Nat, t \in Targets : <<k, t>> \in expiryQueue <=> k > 0 /\ freeze[t].expires = k
Queued == VotesQueued /\ SeizuresQueued /\ ExpiriesQueued

\* No vote is past its end.
VotesAhead ==
  \A id \in CaseIds : cases[id].status = "voting" =>
    height <= cases[id].votingEnds /\ (phase = "execute" => height < cases[id].votingEnds)

\* Only a seizure is held or recovers anything, and only seizures are on the ledger.
Ordered ==
  /\ \A id \in CaseIds : cases[id].action = "freeze" => cases[id].status # "held" /\ cases[id].recovered = 0
  /\ \A r \in ledger : cases[r.case].action = "seize" /\ cases[r.case].status # "unopened"

Agreement == FreezeIsAnsweredFor /\ Settled /\ Queued /\ VotesAhead /\ Ordered

\* What the end blocker has collected is what is still due.
DueIsQueued ==
  /\ phase = "resolve" => due = DueBy(votingQueue, height)
  /\ phase = "execute" => due = DueBy(executionQueue, height)

\* The running total is what the cases recovered.
Booked == recovered = SeizedInAll

Consistent == Agreement /\ DueIsQueued /\ Booked

Inv == TypeInv /\ Consistent

\* What no step after the opening changes about a case.
SameCase(c, d) ==
  /\ c.target = d.target /\ c.action = d.action /\ c.votingEnds = d.votingEnds
  /\ c.recovered = d.recovered

\* The statuses.
LEMMA Statuses ==
  /\ Live = {"voting", "held", "passed"}
  /\ Stopped = {"rejected", "expired", "withdrawn", "reversed", "vetoed"}
  /\ Actions = {"freeze", "seize"}
BY DEF Live, Stopped, Actions

\* Types of single entries.
LEMMA Entries ==
  ASSUME TypeInv
  PROVE  /\ CaseIds \subseteq Nat \ {0} /\ cases \in [CaseIds -> CaseRecords]
         /\ \A id \in CaseIds : /\ cases[id] \in CaseRecords
                                /\ cases[id].votingEnds \in Nat /\ cases[id].executeAt \in Nat
                                /\ cases[id].recovered \in Nat /\ cases[id].action \in Actions
                                /\ cases[id].status \in {"unopened"} \cup Live \cup Stopped
                                /\ cases[id].status # "unopened" => cases[id].target \in Targets
         /\ freeze \in [Targets -> Freezes]
         /\ \A t \in Targets : freeze[t].case \in Nat /\ freeze[t].expires \in Nat
         /\ votingQueue \subseteq Nat \X CaseIds /\ executionQueue \subseteq Nat \X CaseIds
         /\ expiryQueue \subseteq Nat \X Targets
         /\ height \in Nat /\ caseSeq \in Nat \ {0}
<1>0. TypeOK
  BY DEF TypeInv
<1>1. CaseIds \subseteq Nat \ {0}
  BY BoundAssumption DEF CaseIds
<1>2. cases \in [CaseIds -> CaseRecords] /\ freeze \in [Targets -> Freezes]
  BY <1>0 DEF TypeOK
<1>3. \A id \in CaseIds : cases[id].status # "unopened" => cases[id].target \in Targets
  BY <1>0, OpenedCase
<1>4. \A id \in CaseIds : /\ cases[id] \in CaseRecords
                          /\ cases[id].votingEnds \in Nat /\ cases[id].executeAt \in Nat
                          /\ cases[id].recovered \in Nat /\ cases[id].action \in Actions
                          /\ cases[id].status \in {"unopened"} \cup Live \cup Stopped
  BY <1>2 DEF CaseRecords
<1>5. \A t \in Targets : freeze[t].case \in Nat /\ freeze[t].expires \in Nat
  BY <1>2 DEF Freezes
<1> QED BY <1>0, <1>1, <1>2, <1>3, <1>4, <1>5 DEF TypeOK

\* A case is stopped: its freeze is lifted and its queue entry goes.
LEMMA StopAgree ==
  ASSUME TypeInv, Agreement, NEW id \in CaseIds, cases[id].status \in Live,
         NEW d, SameCase(d, cases[id]), d.status \in Stopped,
         cases' = [cases EXCEPT ![id] = d],
         Unfreeze(cases[id].target), Dequeue(id),
         ledger' = ledger, height' = height, phase' = phase
  PROVE  Agreement'
<1> DEFINE t == cases[id].target
<1>0. /\ CaseIds \subseteq Nat \ {0}
      /\ \A i \in CaseIds : cases[i].votingEnds \in Nat /\ cases[i].executeAt \in Nat
      /\ \A i \in CaseIds : cases[i].status # "unopened" => cases[i].target \in Targets
      /\ \A s \in Targets : freeze[s].case \in Nat /\ freeze[s].expires \in Nat
      /\ t \in Targets
  BY Entries, Statuses
<1>1. \A i \in CaseIds : cases'[i] = IF i = id THEN d ELSE cases[i]
  BY Entries
<1>2. \A s \in Targets : freeze'[s] = IF s = t THEN NoFreeze ELSE freeze[s]
  BY Entries, <1>0 DEF Unfreeze
<1>3. freeze[t].case = id
  BY DEF Agreement, FreezeIsAnsweredFor
<1>4. NoFreeze.case = 0 /\ NoFreeze.expires = 0
  BY DEF NoFreeze
<1>5. d.target = t /\ d.action = cases[id].action /\ d.recovered = cases[id].recovered
  BY DEF SameCase
<1>6. d.status # "voting" /\ d.status # "held" /\ d.status # "unopened" /\ d.status \notin Live
  BY Statuses
<1> HIDE DEF t
<1>7. FreezeIsAnsweredFor'
  <2>1. ASSUME NEW s \in Targets, freeze'[s].case # 0
        PROVE  /\ freeze'[s].case \in CaseIds
               /\ cases'[freeze'[s].case].target = s
               /\ cases'[freeze'[s].case].status \in Live
    <3>1. s # t /\ freeze'[s] = freeze[s]
      BY <1>2, <1>4, <2>1
    <3>2. /\ freeze[s].case \in CaseIds /\ cases[freeze[s].case].target = s
          /\ cases[freeze[s].case].status \in Live
      BY <2>1, <3>1 DEF Agreement, FreezeIsAnsweredFor, Frozen
    <3>3. freeze[s].case # id
      BY <3>1, <3>2 DEF t
    <3> QED BY <1>1, <3>1, <3>2, <3>3
  <2>2. ASSUME NEW i \in CaseIds, cases'[i].status \in Live
        PROVE  freeze'[cases'[i].target].case = i
    <3>1. i # id /\ cases'[i] = cases[i]
      BY <1>1, <1>6, <2>2
    <3>2. freeze[cases[i].target].case = i
      BY <2>2, <3>1 DEF Agreement, FreezeIsAnsweredFor
    <3>3. cases[i].target # t /\ cases[i].target \in Targets
      BY <1>0, <1>3, <2>2, <3>1, <3>2, Statuses
    <3> QED BY <1>2, <3>1, <3>2, <3>3
  <2> QED BY <2>1, <2>2 DEF FreezeIsAnsweredFor, Frozen
<1>8. Settled'
  <2> SUFFICES ASSUME NEW s \in Targets
               PROVE  /\ freeze'[s].case = 0 => freeze'[s].expires = 0
                      /\ freeze'[s].case # 0 =>
                           (freeze'[s].expires > 0 <=> cases'[freeze'[s].case].status = "voting")
                      /\ freeze'[s].expires > 0 =>
                           cases'[freeze'[s].case].votingEnds <= freeze'[s].expires
    BY DEF Settled, Frozen
  <2>1. CASE s = t
    BY <1>2, <1>4, <2>1
  <2>2. CASE s # t
    <3>1. freeze'[s] = freeze[s]
      BY <1>2, <2>2
    <3>2. /\ freeze[s].case = 0 => freeze[s].expires = 0
          /\ freeze[s].case # 0 =>
               (freeze[s].expires > 0 <=> cases[freeze[s].case].status = "voting")
          /\ freeze[s].expires > 0 => cases[freeze[s].case].votingEnds <= freeze[s].expires
      BY DEF Agreement, Settled, Frozen
    <3>3. freeze[s].case # 0 => freeze[s].case \in CaseIds /\ freeze[s].case # id
      BY <2>2 DEF Agreement, FreezeIsAnsweredFor, Frozen, t
    <3>4. freeze[s].case # 0 => cases'[freeze[s].case] = cases[freeze[s].case]
      BY <1>1, <3>3
    <3>5. freeze[s].expires > 0 => freeze[s].case # 0
      BY <1>0, <3>2
    <3> QED BY <3>1, <3>2, <3>4, <3>5
  <2> QED BY <2>1, <2>2
<1>9. Queued'
  <2>1. VotesQueued'
    <3> SUFFICES ASSUME NEW k \in Nat, NEW i \in CaseIds
                 PROVE  <<k, i>> \in votingQueue' <=> cases'[i].status = "voting" /\ cases'[i].votingEnds = k
      BY DEF VotesQueued
    <3>1. <<k, i>> \in votingQueue <=> cases[i].status = "voting" /\ cases[i].votingEnds = k
      BY DEF Agreement, Queued, VotesQueued
    <3>2. votingQueue' = IF cases[id].status = "voting"
                         THEN votingQueue \ {<<cases[id].votingEnds, id>>} ELSE votingQueue
      BY DEF Dequeue
    <3>3. CASE i = id
      BY <1>1, <1>6, <3>1, <3>2, <3>3
    <3>4. CASE i # id
      BY <1>1, <3>1, <3>2, <3>4
    <3> QED BY <3>3, <3>4
  <2>2. SeizuresQueued'
    <3> SUFFICES ASSUME NEW k \in Nat, NEW i \in CaseIds
                 PROVE  <<k, i>> \in executionQueue' <=> cases'[i].status = "held" /\ cases'[i].executeAt = k
      BY DEF SeizuresQueued
    <3>1. <<k, i>> \in executionQueue <=> cases[i].status = "held" /\ cases[i].executeAt = k
      BY DEF Agreement, Queued, SeizuresQueued
    <3>2. executionQueue' = IF cases[id].status = "held"
                            THEN executionQueue \ {<<cases[id].executeAt, id>>} ELSE executionQueue
      BY DEF Dequeue
    <3>3. CASE i = id
      BY <1>1, <1>6, <3>1, <3>2, <3>3
    <3>4. CASE i # id
      BY <1>1, <3>1, <3>2, <3>4
    <3> QED BY <3>3, <3>4
  <2>3. ExpiriesQueued'
    <3> SUFFICES ASSUME NEW k \in Nat, NEW s \in Targets
                 PROVE  <<k, s>> \in expiryQueue' <=> k > 0 /\ freeze'[s].expires = k
      BY DEF ExpiriesQueued
    <3>1. <<k, s>> \in expiryQueue <=> k > 0 /\ freeze[s].expires = k
      BY DEF Agreement, Queued, ExpiriesQueued
    <3>2. expiryQueue' = expiryQueue \ {<<freeze[t].expires, t>>}
      BY DEF Unfreeze, t
    <3>3. CASE s = t
      BY <1>2, <1>4, <3>1, <3>2, <3>3
    <3>4. CASE s # t
      BY <1>2, <3>1, <3>2, <3>4
    <3> QED BY <3>3, <3>4
  <2> QED BY <2>1, <2>2, <2>3 DEF Queued
<1>10. VotesAhead'
  BY <1>1, <1>6 DEF Agreement, VotesAhead
<1>11. Ordered'
  <2>1. \A i \in CaseIds : cases[i].action = "freeze" => cases[i].status # "held" /\ cases[i].recovered = 0
    BY DEF Agreement, Ordered
  <2>2. \A i \in CaseIds : cases'[i].action = "freeze" => cases'[i].status # "held" /\ cases'[i].recovered = 0
    BY <1>1, <1>5, <1>6, <2>1
  <2>3. \A r \in ledger : r.case \in CaseIds
    BY DEF TypeInv, TypeOK, SeizureRecords
  <2>4. \A r \in ledger : cases[r.case].action = "seize" /\ cases[r.case].status # "unopened"
    BY DEF Agreement, Ordered
  <2>5. \A r \in ledger' : cases'[r.case].action = "seize" /\ cases'[r.case].status # "unopened"
    BY <1>1, <1>5, <1>6, <2>3, <2>4
  <2> QED BY <2>2, <2>5 DEF Ordered
<1> QED BY <1>7, <1>8, <1>9, <1>10, <1>11 DEF Agreement

\* A case is confirmed: its freeze loses the expiry, and a seizure is queued.
LEMMA PassAgree ==
  ASSUME TypeInv, Agreement, NEW id \in CaseIds, cases[id].status = "voting",
         NEW d, SameCase(d, cases[id]), d.executeAt \in Nat,
         \/ /\ d.status = "held" /\ d.action = "seize"
            /\ executionQueue' = executionQueue \cup {<<d.executeAt, id>>}
         \/ d.status = "passed" /\ executionQueue' = executionQueue,
         cases' = [cases EXCEPT ![id] = d],
         MakePermanent(cases[id].target),
         votingQueue' = votingQueue \ {<<cases[id].votingEnds, id>>},
         ledger' = ledger, height' = height, phase' = phase
  PROVE  Agreement'
<1> DEFINE t == cases[id].target
<1>0. /\ CaseIds \subseteq Nat \ {0}
      /\ \A i \in CaseIds : cases[i].votingEnds \in Nat /\ cases[i].executeAt \in Nat
      /\ \A i \in CaseIds : cases[i].status # "unopened" => cases[i].target \in Targets
      /\ \A s \in Targets : freeze[s].case \in Nat /\ freeze[s].expires \in Nat
      /\ t \in Targets
  BY Entries, Statuses
<1>1. \A i \in CaseIds : cases'[i] = IF i = id THEN d ELSE cases[i]
  BY Entries
<1>2. \A s \in Targets : /\ freeze'[s].case = freeze[s].case
                         /\ freeze'[s].expires = IF s = t THEN 0 ELSE freeze[s].expires
  <2>1. freeze \in [Targets -> Freezes]
    BY Entries
  <2>2. freeze' = [freeze EXCEPT ![t] = [freeze[t] EXCEPT !.expires = 0]]
    BY DEF MakePermanent, t
  <2> QED BY <1>0, <2>1, <2>2 DEF Freezes
<1>3. freeze[t].case = id
  BY Statuses DEF Agreement, FreezeIsAnsweredFor
<1>5. d.target = t /\ d.action = cases[id].action /\ d.recovered = cases[id].recovered
  BY DEF SameCase
<1>6. d.status # "voting" /\ d.status # "unopened" /\ d.status \in Live
  BY Statuses
<1> HIDE DEF t
<1>7. FreezeIsAnsweredFor'
  <2>1. ASSUME NEW s \in Targets, freeze'[s].case # 0
        PROVE  /\ freeze'[s].case \in CaseIds
               /\ cases'[freeze'[s].case].target = s
               /\ cases'[freeze'[s].case].status \in Live
    <3>1. freeze'[s].case = freeze[s].case
      BY <1>2
    <3>2. /\ freeze[s].case \in CaseIds /\ cases[freeze[s].case].target = s
          /\ cases[freeze[s].case].status \in Live
      BY <2>1, <3>1 DEF Agreement, FreezeIsAnsweredFor, Frozen
    <3> QED BY <1>1, <1>5, <1>6, <3>1, <3>2 DEF t
  <2>2. ASSUME NEW i \in CaseIds, cases'[i].status \in Live
        PROVE  freeze'[cases'[i].target].case = i
    <3>1. CASE i = id
      BY <1>0, <1>1, <1>2, <1>3, <1>5, <3>1
    <3>2. CASE i # id
      <4>1. freeze[cases[i].target].case = i /\ cases[i].target \in Targets
        BY <1>0, <1>1, <2>2, <3>2, Statuses DEF Agreement, FreezeIsAnsweredFor
      <4> QED BY <1>1, <1>2, <3>2, <4>1
    <3> QED BY <3>1, <3>2
  <2> QED BY <2>1, <2>2 DEF FreezeIsAnsweredFor, Frozen
<1>8. Settled'
  <2> SUFFICES ASSUME NEW s \in Targets
               PROVE  /\ freeze'[s].case = 0 => freeze'[s].expires = 0
                      /\ freeze'[s].case # 0 =>
                           (freeze'[s].expires > 0 <=> cases'[freeze'[s].case].status = "voting")
                      /\ freeze'[s].expires > 0 =>
                           cases'[freeze'[s].case].votingEnds <= freeze'[s].expires
    BY DEF Settled, Frozen
  <2>1. CASE s = t
    <3>1. freeze'[s].case = id /\ freeze'[s].expires = 0 /\ id # 0
      BY <1>0, <1>2, <1>3, <2>1
    <3> QED BY <1>1, <1>6, <3>1
  <2>2. CASE s # t
    <3>1. freeze'[s].case = freeze[s].case /\ freeze'[s].expires = freeze[s].expires
      BY <1>2, <2>2
    <3>2. /\ freeze[s].case = 0 => freeze[s].expires = 0
          /\ freeze[s].case # 0 =>
               (freeze[s].expires > 0 <=> cases[freeze[s].case].status = "voting")
          /\ freeze[s].expires > 0 => cases[freeze[s].case].votingEnds <= freeze[s].expires
      BY DEF Agreement, Settled, Frozen
    <3>3. freeze[s].case # 0 => freeze[s].case \in CaseIds /\ freeze[s].case # id
      BY <2>2 DEF Agreement, FreezeIsAnsweredFor, Frozen, t
    <3>4. freeze[s].case # 0 => cases'[freeze[s].case] = cases[freeze[s].case]
      BY <1>1, <3>3
    <3>5. freeze[s].expires > 0 => freeze[s].case # 0
      BY <1>0, <3>2
    <3> QED BY <3>1, <3>2, <3>4, <3>5
  <2> QED BY <2>1, <2>2
<1>9. Queued'
  <2>1. VotesQueued'
    <3> SUFFICES ASSUME NEW k \in Nat, NEW i \in CaseIds
                 PROVE  <<k, i>> \in votingQueue' <=> cases'[i].status = "voting" /\ cases'[i].votingEnds = k
      BY DEF VotesQueued
    <3>1. <<k, i>> \in votingQueue <=> cases[i].status = "voting" /\ cases[i].votingEnds = k
      BY DEF Agreement, Queued, VotesQueued
    <3>2. CASE i = id
      BY <1>1, <1>6, <3>1, <3>2
    <3>3. CASE i # id
      BY <1>1, <3>1, <3>3
    <3> QED BY <3>2, <3>3
  <2>2. SeizuresQueued'
    <3> SUFFICES ASSUME NEW k \in Nat, NEW i \in CaseIds
                 PROVE  <<k, i>> \in executionQueue' <=> cases'[i].status = "held" /\ cases'[i].executeAt = k
      BY DEF SeizuresQueued
    <3>1. <<k, i>> \in executionQueue <=> cases[i].status = "held" /\ cases[i].executeAt = k
      BY DEF Agreement, Queued, SeizuresQueued
    <3>2. CASE i = id
      <4>1. cases'[i] = d /\ <<k, i>> \notin executionQueue
        BY <1>1, <3>1, <3>2
      <4> QED BY <3>2, <4>1
    <3>3. CASE i # id
      BY <1>1, <3>1, <3>3
    <3> QED BY <3>2, <3>3
  <2>3. ExpiriesQueued'
    <3> SUFFICES ASSUME NEW k \in Nat, NEW s \in Targets
                 PROVE  <<k, s>> \in expiryQueue' <=> k > 0 /\ freeze'[s].expires = k
      BY DEF ExpiriesQueued
    <3>1. <<k, s>> \in expiryQueue <=> k > 0 /\ freeze[s].expires = k
      BY DEF Agreement, Queued, ExpiriesQueued
    <3>2. expiryQueue' = expiryQueue \ {<<freeze[t].expires, t>>}
      BY DEF MakePermanent, t
    <3>3. CASE s = t
      BY <1>2, <3>1, <3>2, <3>3
    <3>4. CASE s # t
      BY <1>2, <3>1, <3>2, <3>4
    <3> QED BY <3>3, <3>4
  <2> QED BY <2>1, <2>2, <2>3 DEF Queued
<1>10. VotesAhead'
  BY <1>1, <1>6 DEF Agreement, VotesAhead
<1>11. Ordered'
  <2>1. \A i \in CaseIds : cases[i].action = "freeze" => cases[i].status # "held" /\ cases[i].recovered = 0
    BY DEF Agreement, Ordered
  <2>2. d.action = "freeze" => d.status # "held" /\ d.recovered = 0
    BY <1>5, <2>1
  <2>3. \A i \in CaseIds : cases'[i].action = "freeze" => cases'[i].status # "held" /\ cases'[i].recovered = 0
    BY <1>1, <2>1, <2>2
  <2>4. \A r \in ledger : r.case \in CaseIds
    BY DEF TypeInv, TypeOK, SeizureRecords
  <2>5. \A r \in ledger : cases[r.case].action = "seize" /\ cases[r.case].status # "unopened"
    BY DEF Agreement, Ordered
  <2>6. \A r \in ledger' : cases'[r.case].action = "seize" /\ cases'[r.case].status # "unopened"
    BY <1>1, <1>5, <1>6, <2>4, <2>5
  <2> QED BY <2>3, <2>6 DEF Ordered
<1> QED BY <1>7, <1>8, <1>9, <1>10, <1>11 DEF Agreement

\* A live case goes on with its freeze as it is: a vote is counted, a held
\* seizure is carried out or deferred, or an executed one is swept.
LEMMA GoOnAgree ==
  ASSUME TypeInv, Agreement, NEW id \in CaseIds, cases[id].status \in Live,
         NEW d, d.status \in Live, d.status = "voting" <=> cases[id].status = "voting",
         d.target = cases[id].target, d.action = cases[id].action,
         d.votingEnds = cases[id].votingEnds,
         d.action = "freeze" => d.status # "held" /\ d.recovered = 0,
         cases' = [cases EXCEPT ![id] = d],
         freeze' = freeze, expiryQueue' = expiryQueue, votingQueue' = votingQueue,
         \A k \in Nat, i \in CaseIds : <<k, i>> \in executionQueue' <=>
           IF i = id THEN d.status = "held" /\ d.executeAt = k ELSE <<k, i>> \in executionQueue,
         \A r \in ledger' : r \in ledger \/ (r.case = id /\ d.action = "seize"),
         height' = height, phase' = phase
  PROVE  Agreement'
<1>0. CaseIds \subseteq Nat \ {0} /\ \A s \in Targets : freeze[s].case \in Nat /\ freeze[s].expires \in Nat
  BY Entries
<1>1. \A i \in CaseIds : cases'[i] = IF i = id THEN d ELSE cases[i]
  BY Entries
<1>2. d.status # "unopened"
  BY Statuses
<1>3. FreezeIsAnsweredFor'
  <2>1. ASSUME NEW s \in Targets, freeze[s].case # 0
        PROVE  /\ freeze[s].case \in CaseIds
               /\ cases'[freeze[s].case].target = s
               /\ cases'[freeze[s].case].status \in Live
    <3>1. /\ freeze[s].case \in CaseIds /\ cases[freeze[s].case].target = s
          /\ cases[freeze[s].case].status \in Live
      BY <2>1 DEF Agreement, FreezeIsAnsweredFor, Frozen
    <3> QED BY <1>1, <3>1
  <2>2. ASSUME NEW i \in CaseIds, cases'[i].status \in Live
        PROVE  freeze[cases'[i].target].case = i
    <3>1. cases[i].status \in Live /\ cases'[i].target = cases[i].target
      BY <1>1, <2>2
    <3> QED BY <3>1 DEF Agreement, FreezeIsAnsweredFor
  <2> QED BY <2>1, <2>2 DEF FreezeIsAnsweredFor, Frozen
<1>4. Settled'
  <2> SUFFICES ASSUME NEW s \in Targets
               PROVE  /\ freeze[s].case = 0 => freeze[s].expires = 0
                      /\ freeze[s].case # 0 =>
                           (freeze[s].expires > 0 <=> cases'[freeze[s].case].status = "voting")
                      /\ freeze[s].expires > 0 =>
                           cases'[freeze[s].case].votingEnds <= freeze[s].expires
    BY DEF Settled, Frozen
  <2>1. /\ freeze[s].case = 0 => freeze[s].expires = 0
        /\ freeze[s].case # 0 =>
             (freeze[s].expires > 0 <=> cases[freeze[s].case].status = "voting")
        /\ freeze[s].expires > 0 => cases[freeze[s].case].votingEnds <= freeze[s].expires
    BY DEF Agreement, Settled, Frozen
  <2>2. freeze[s].case # 0 => freeze[s].case \in CaseIds
    BY DEF Agreement, FreezeIsAnsweredFor, Frozen
  <2>3. freeze[s].expires > 0 => freeze[s].case # 0
    BY <1>0, <2>1
  <2>4. freeze[s].case # 0 =>
          /\ cases'[freeze[s].case].status = "voting" <=> cases[freeze[s].case].status = "voting"
          /\ cases'[freeze[s].case].votingEnds = cases[freeze[s].case].votingEnds
    BY <1>1, <2>2
  <2> QED BY <2>1, <2>3, <2>4
<1>5. Queued'
  <2>1. VotesQueued'
    <3> SUFFICES ASSUME NEW k \in Nat, NEW i \in CaseIds
                 PROVE  <<k, i>> \in votingQueue <=> cases'[i].status = "voting" /\ cases'[i].votingEnds = k
      BY DEF VotesQueued
    <3>1. <<k, i>> \in votingQueue <=> cases[i].status = "voting" /\ cases[i].votingEnds = k
      BY DEF Agreement, Queued, VotesQueued
    <3> QED BY <1>1, <3>1
  <2>2. SeizuresQueued'
    <3> SUFFICES ASSUME NEW k \in Nat, NEW i \in CaseIds
                 PROVE  <<k, i>> \in executionQueue' <=> cases'[i].status = "held" /\ cases'[i].executeAt = k
      BY DEF SeizuresQueued
    <3>1. <<k, i>> \in executionQueue <=> cases[i].status = "held" /\ cases[i].executeAt = k
      BY DEF Agreement, Queued, SeizuresQueued
    <3>2. <<k, i>> \in executionQueue' <=>
            IF i = id THEN d.status = "held" /\ d.executeAt = k ELSE <<k, i>> \in executionQueue
      OBVIOUS
    <3> QED BY <1>1, <3>1, <3>2
  <2>3. ExpiriesQueued'
    BY DEF Agreement, Queued, ExpiriesQueued
  <2> QED BY <2>1, <2>2, <2>3 DEF Queued
<1>6. VotesAhead'
  BY <1>1 DEF Agreement, VotesAhead
<1>7. Ordered'
  <2>1. \A i \in CaseIds : cases'[i].action = "freeze" => cases'[i].status # "held" /\ cases'[i].recovered = 0
    BY <1>1 DEF Agreement, Ordered
  <2>2. \A r \in ledger : r.case \in CaseIds
    BY DEF TypeInv, TypeOK, SeizureRecords
  <2>3. \A r \in ledger : cases[r.case].action = "seize" /\ cases[r.case].status # "unopened"
    BY DEF Agreement, Ordered
  <2>4. \A r \in ledger : cases'[r.case].action = "seize" /\ cases'[r.case].status # "unopened"
    BY <1>1, <1>2, <2>2, <2>3
  <2>5. \A r \in ledger' : cases'[r.case].action = "seize" /\ cases'[r.case].status # "unopened"
    BY <1>1, <1>2, <2>4
  <2> QED BY <2>1, <2>5 DEF Ordered
<1> QED BY <1>3, <1>4, <1>5, <1>6, <1>7 DEF Agreement

\* A case is opened against an account that is not frozen.
LEMMA OpenAgree ==
  ASSUME TypeInv, Agreement, phase = "deliver",
         NEW t \in Targets, NEW opener, NEW action \in Actions, Open(t, opener, action)
  PROVE  Agreement'
<1> DEFINE id == caseSeq
           ends == height + params.voting
           expires == height + params.provisional
           d == [NoCase EXCEPT !.status = "voting", !.target = t, !.action = action,
                   !.opener = opener, !.votingEnds = ends, !.totalAtOpen = lastTotal]
<1>0. /\ CaseIds \subseteq Nat \ {0}
      /\ \A i \in CaseIds : cases[i].votingEnds \in Nat /\ cases[i].executeAt \in Nat
      /\ \A i \in CaseIds : cases[i].status # "unopened" => cases[i].target \in Targets
      /\ \A s \in Targets : freeze[s].case \in Nat /\ freeze[s].expires \in Nat
      /\ height \in Nat /\ caseSeq \in Nat \ {0}
  BY Entries
<1>1. ends \in Nat /\ expires \in Nat /\ ends > height /\ ends <= expires
  BY <1>0 DEF TypeInv, ParamsValid, TypeOK, Validate, ParamSets
<1>2. /\ cases' = [cases EXCEPT ![id] = d]
      /\ votingQueue' = votingQueue \cup {<<ends, id>>}
      /\ freeze' = [freeze EXCEPT ![t] = [case |-> id, expires |-> expires]]
      /\ expiryQueue' = expiryQueue \cup {<<expires, t>>}
      /\ id <= MaxCases /\ freeze[t].case = 0
      /\ executionQueue' = executionQueue /\ ledger' = ledger /\ height' = height /\ phase' = phase
  BY DEF Open, Frozen, tallyVars, blockVars
<1>3. id \in CaseIds
  BY <1>0, <1>2, BoundAssumption DEF CaseIds
<1>4. cases[id].status = "unopened"
  BY <1>0, <1>3 DEF TypeInv, TypeOK, NoCase
<1>5. /\ d.status = "voting" /\ d.target = t /\ d.action = action
      /\ d.votingEnds = ends /\ d.recovered = 0
  BY DEF NoCase
<1> HIDE DEF ends, expires, d, id
<1>6. \A i \in CaseIds : cases'[i] = IF i = id THEN d ELSE cases[i]
  BY <1>2, Entries
<1>7. \A s \in Targets : /\ freeze'[s].case = IF s = t THEN id ELSE freeze[s].case
                         /\ freeze'[s].expires = IF s = t THEN expires ELSE freeze[s].expires
  BY <1>2, Entries
<1>8. \A i \in CaseIds : cases[i].status \in Live => cases[i].target # t /\ i # id /\ cases[i].target \in Targets
  BY <1>0, <1>2, <1>4, Statuses DEF Agreement, FreezeIsAnsweredFor
<1>9. \A s \in Targets : freeze[s].case # 0 =>
        freeze[s].case \in CaseIds /\ freeze[s].case # id /\ s # t /\ cases[freeze[s].case].status \in Live
  BY <1>2, <1>4, Statuses DEF Agreement, FreezeIsAnsweredFor, Frozen
<1>10. FreezeIsAnsweredFor'
  <2>1. ASSUME NEW s \in Targets, freeze'[s].case # 0
        PROVE  /\ freeze'[s].case \in CaseIds
               /\ cases'[freeze'[s].case].target = s
               /\ cases'[freeze'[s].case].status \in Live
    <3>1. CASE s = t
      BY <1>3, <1>5, <1>6, <1>7, <3>1, Statuses
    <3>2. CASE s # t
      <4>1. freeze'[s].case = freeze[s].case /\ freeze[s].case # 0
        BY <1>7, <2>1, <3>2
      <4>2. cases[freeze[s].case].target = s
        BY <4>1 DEF Agreement, FreezeIsAnsweredFor, Frozen
      <4> QED BY <1>6, <1>9, <4>1, <4>2
    <3> QED BY <3>1, <3>2
  <2>2. ASSUME NEW i \in CaseIds, cases'[i].status \in Live
        PROVE  freeze'[cases'[i].target].case = i
    <3>1. CASE i = id
      BY <1>5, <1>6, <1>7, <3>1
    <3>2. CASE i # id
      <4>1. cases'[i] = cases[i] /\ cases[i].status \in Live
        BY <1>6, <2>2, <3>2
      <4>2. freeze[cases[i].target].case = i
        BY <4>1 DEF Agreement, FreezeIsAnsweredFor
      <4> QED BY <1>7, <1>8, <4>1, <4>2
    <3> QED BY <3>1, <3>2
  <2> QED BY <2>1, <2>2 DEF FreezeIsAnsweredFor, Frozen
<1>11. Settled'
  <2> SUFFICES ASSUME NEW s \in Targets
               PROVE  /\ freeze'[s].case = 0 => freeze'[s].expires = 0
                      /\ freeze'[s].case # 0 =>
                           (freeze'[s].expires > 0 <=> cases'[freeze'[s].case].status = "voting")
                      /\ freeze'[s].expires > 0 =>
                           cases'[freeze'[s].case].votingEnds <= freeze'[s].expires
    BY DEF Settled, Frozen
  <2>1. CASE s = t
    <3>1. freeze'[s].case = id /\ freeze'[s].expires = expires /\ cases'[id] = d
      BY <1>3, <1>6, <1>7, <2>1
    <3>2. expires > 0 /\ id # 0
      BY <1>0, <1>1, <1>3
    <3> QED BY <1>1, <1>5, <3>1, <3>2
  <2>2. CASE s # t
    <3>1. freeze'[s].case = freeze[s].case /\ freeze'[s].expires = freeze[s].expires
      BY <1>7, <2>2
    <3>2. /\ freeze[s].case = 0 => freeze[s].expires = 0
          /\ freeze[s].case # 0 =>
               (freeze[s].expires > 0 <=> cases[freeze[s].case].status = "voting")
          /\ freeze[s].expires > 0 => cases[freeze[s].case].votingEnds <= freeze[s].expires
      BY DEF Agreement, Settled, Frozen
    <3>3. freeze[s].case # 0 => cases'[freeze[s].case] = cases[freeze[s].case]
      BY <1>6, <1>9
    <3>4. freeze[s].expires > 0 => freeze[s].case # 0
      BY <1>0, <3>2
    <3> QED BY <3>1, <3>2, <3>3, <3>4
  <2> QED BY <2>1, <2>2
<1>12. Queued'
  <2>1. VotesQueued'
    <3> SUFFICES ASSUME NEW k \in Nat, NEW i \in CaseIds
                 PROVE  <<k, i>> \in votingQueue' <=> cases'[i].status = "voting" /\ cases'[i].votingEnds = k
      BY DEF VotesQueued
    <3>1. <<k, i>> \in votingQueue <=> cases[i].status = "voting" /\ cases[i].votingEnds = k
      BY DEF Agreement, Queued, VotesQueued
    <3>2. CASE i = id
      BY <1>2, <1>4, <1>5, <1>6, <3>1, <3>2
    <3>3. CASE i # id
      BY <1>2, <1>6, <3>1, <3>3
    <3> QED BY <3>2, <3>3
  <2>2. SeizuresQueued'
    <3> SUFFICES ASSUME NEW k \in Nat, NEW i \in CaseIds
                 PROVE  <<k, i>> \in executionQueue' <=> cases'[i].status = "held" /\ cases'[i].executeAt = k
      BY DEF SeizuresQueued
    <3>1. <<k, i>> \in executionQueue <=> cases[i].status = "held" /\ cases[i].executeAt = k
      BY DEF Agreement, Queued, SeizuresQueued
    <3> QED BY <1>2, <1>4, <1>5, <1>6, <3>1
  <2>3. ExpiriesQueued'
    <3> SUFFICES ASSUME NEW k \in Nat, NEW s \in Targets
                 PROVE  <<k, s>> \in expiryQueue' <=> k > 0 /\ freeze'[s].expires = k
      BY DEF ExpiriesQueued
    <3>1. <<k, s>> \in expiryQueue <=> k > 0 /\ freeze[s].expires = k
      BY DEF Agreement, Queued, ExpiriesQueued
    <3>2. CASE s = t
      <4>1. freeze[t].expires = 0
        BY <1>2 DEF Agreement, Settled, Frozen
      <4>2. freeze'[s].expires = expires /\ <<k, s>> \notin expiryQueue
        BY <1>7, <3>1, <3>2, <4>1
      <4>3. expires > 0
        BY <1>0, <1>1
      <4> QED BY <1>2, <3>2, <4>2, <4>3
    <3>3. CASE s # t
      BY <1>2, <1>7, <3>1, <3>3
    <3> QED BY <3>2, <3>3
  <2> QED BY <2>1, <2>2, <2>3 DEF Queued
<1>13. VotesAhead'
  <2>1. ASSUME NEW i \in CaseIds, cases'[i].status = "voting"
        PROVE  height <= cases'[i].votingEnds
    <3>1. CASE i = id
      BY <1>0, <1>1, <1>5, <1>6, <3>1
    <3>2. CASE i # id
      BY <1>6, <2>1, <3>2 DEF Agreement, VotesAhead
    <3> QED BY <3>1, <3>2
  <2> QED BY <1>2, <2>1 DEF VotesAhead
<1>14. Ordered'
  <2>1. \A i \in CaseIds : cases'[i].action = "freeze" => cases'[i].status # "held" /\ cases'[i].recovered = 0
    BY <1>5, <1>6 DEF Agreement, Ordered
  <2>2. \A r \in ledger : r.case \in CaseIds
    BY DEF TypeInv, TypeOK, SeizureRecords
  <2>3. \A r \in ledger : cases[r.case].action = "seize" /\ cases[r.case].status # "unopened"
    BY DEF Agreement, Ordered
  <2>4. \A r \in ledger' : cases'[r.case].action = "seize" /\ cases'[r.case].status # "unopened"
    BY <1>2, <1>4, <1>6, <2>2, <2>3
  <2> QED BY <2>1, <2>4 DEF Ordered
<1> QED BY <1>10, <1>11, <1>12, <1>13, <1>14 DEF Agreement

\* Nothing about cases, freezes and queues changes.
LEMMA FrameAgree ==
  ASSUME TypeInv, Agreement, UNCHANGED <<cases, freeze, votingQueue, executionQueue, expiryQueue>>,
         ledger' \subseteq ledger, VotesAhead'
  PROVE  Agreement'
<1>1. FreezeIsAnsweredFor' /\ Settled'
  BY DEF Agreement, FreezeIsAnsweredFor, Settled, Frozen
<1>2. Queued'
  BY DEF Agreement, Queued, VotesQueued, SeizuresQueued, ExpiriesQueued
<1>3. Ordered'
  BY DEF Agreement, Ordered
<1> QED BY <1>1, <1>2, <1>3 DEF Agreement

----------------------------------------------------------------------------
(* The running total *)

\* What a case counts for in the total.
Seized(c) == IF c.action = "seize" THEN c.recovered ELSE 0

\* There are finitely many cases.
LEMMA CasesFinite == IsFiniteSet(CaseIds)
BY BoundAssumption, FS_Interval DEF CaseIds

\* No case counts for more or less than before.
LEMMA SeizedSame ==
  ASSUME \A i \in CaseIds : Seized(cases'[i]) = Seized(cases[i])
  PROVE  SeizedInAll' = SeizedInAll
<1> DEFINE f == [i \in CaseIds |-> IF cases[i].action = "seize" THEN cases[i].recovered ELSE 0]
           g == [i \in CaseIds |-> IF cases'[i].action = "seize" THEN cases'[i].recovered ELSE 0]
<1>1. \A i \in CaseIds : g[i] = f[i]
  BY DEF Seized
<1>2. SeizedInAll = SumFunctionOnSet(f, CaseIds) /\ SeizedInAll' = SumFunctionOnSet(g, CaseIds)
  BY DEF SeizedInAll
<1> HIDE DEF f, g
<1>3. SumFunctionOnSet(g, CaseIds) = SumFunctionOnSet(f, CaseIds)
  BY <1>1, CasesFinite, SumCong
<1> QED BY <1>2, <1>3

\* One case recovers k more.
LEMMA SeizedMore ==
  ASSUME TypeInv, NEW id \in CaseIds, NEW k \in Nat,
         Seized(cases'[id]) = Seized(cases[id]) + k,
         \A i \in CaseIds : i # id => cases'[i] = cases[i]
  PROVE  SeizedInAll' = SeizedInAll + k
<1> DEFINE f == [i \in CaseIds |-> IF cases[i].action = "seize" THEN cases[i].recovered ELSE 0]
           g == [i \in CaseIds |-> IF cases'[i].action = "seize" THEN cases'[i].recovered ELSE 0]
<1>1. g[id] = f[id] + k /\ \A i \in CaseIds : i # id => g[i] = f[i]
  BY DEF Seized
<1>2. \A i \in CaseIds : f[i] \in Int
  BY Entries
<1>3. SeizedInAll = SumFunctionOnSet(f, CaseIds) /\ SeizedInAll' = SumFunctionOnSet(g, CaseIds)
  BY DEF SeizedInAll
<1> HIDE DEF f, g
<1>4. k \in Int
  OBVIOUS
<1>5. SumFunctionOnSet(g, CaseIds) = SumFunctionOnSet(f, CaseIds) + k
  BY <1>1, <1>2, <1>4, CasesFinite, SumUpdate
<1> QED BY <1>3, <1>5

\* The case machinery moves no money: a written case counts for what it did.
LEMMA SeizedKept ==
  ASSUME TypeInv, NEW id \in CaseIds, NEW d, cases' = [cases EXCEPT ![id] = d],
         Seized(d) = Seized(cases[id])
  PROVE  SeizedInAll' = SeizedInAll
<1>1. \A i \in CaseIds : cases'[i] = IF i = id THEN d ELSE cases[i]
  BY Entries
<1>2. \A i \in CaseIds : Seized(cases'[i]) = Seized(cases[i])
  BY <1>1
<1> QED BY <1>2, SeizedSame

----------------------------------------------------------------------------
(* One lemma per group of actions *)

\* The genesis state agrees.
LEMMA InitInv == Init => Inv
<1> SUFFICES ASSUME Init PROVE Inv
  OBVIOUS
<1>1. TypeInv
  BY InitType
<1>2. \A id \in CaseIds : cases[id].status = "unopened" /\ cases[id].action = "freeze" /\ cases[id].recovered = 0
  BY DEF Init, NoCase
<1>3. \A t \in Targets : freeze[t].case = 0 /\ freeze[t].expires = 0
  BY DEF Init, NoFreeze
<1>4. FreezeIsAnsweredFor
  BY <1>2, <1>3, Statuses DEF FreezeIsAnsweredFor, Frozen
<1>5. Settled
  BY <1>3 DEF Settled, Frozen
<1>6. Queued
  <2>1. votingQueue = {} /\ executionQueue = {} /\ expiryQueue = {}
    BY DEF Init
  <2> QED BY <1>2, <1>3, <2>1 DEF Queued, VotesQueued, SeizuresQueued, ExpiriesQueued
<1>7. VotesAhead /\ Ordered /\ DueIsQueued
  BY <1>2 DEF Init, VotesAhead, Ordered, DueIsQueued
<1>8. Booked
  <2> DEFINE f == [id \in CaseIds |-> IF cases[id].action = "seize" THEN cases[id].recovered ELSE 0]
  <2>1. \A id \in CaseIds : f[id] = 0
    BY <1>2
  <2> HIDE DEF f
  <2>2. SumFunctionOnSet(f, CaseIds) = 0
    BY <2>1, CasesFinite, SumZero
  <2> QED BY <2>2 DEF Init, Booked, SeizedInAll, f
<1> QED BY <1>1, <1>4, <1>5, <1>6, <1>7, <1>8 DEF Inv, Consistent, Agreement

\* passCase keeps the agreement and the total.
LEMMA PassKeeps ==
  ASSUME TypeInv, Agreement, NEW id \in CaseIds, cases[id].status = "voting",
         NEW c \in CaseRecords, SameCase(c, cases[id]), PassCase(id, c),
         ledger' = ledger, height' = height, phase' = phase
  PROVE  Agreement' /\ SeizedInAll' = SeizedInAll
<1>0. /\ MakePermanent(cases[id].target) /\ c.target = cases[id].target
      /\ votingQueue' = votingQueue \ {<<cases[id].votingEnds, id>>}
      /\ c.action \in Actions /\ c.executeAt \in Nat
  BY DEF PassCase, SameCase, CaseRecords
<1>1. CASE c.action = "seize"
  <2> DEFINE value == liquid[c.target] + staked[c.target] + unbonding[c.target]
             at == height + SeizureDelayFor(params, value)
             d == [c EXCEPT !.status = "held", !.resolvedAt = height,
                            !.assessed = value, !.executeAt = at]
  <2>1. cases' = [cases EXCEPT ![id] = d] /\ executionQueue' = executionQueue \cup {<<at, id>>}
    BY <1>1 DEF PassCase, HoldSeizure
  <2>2. value \in Nat
    <3>1. c.target \in Targets
      BY <1>0, Entries
    <3> QED BY <3>1 DEF TypeInv, TypeOK
  <2>3. at \in Nat
    <3>1. params \in ParamSets /\ Validate(params) /\ height \in Nat
      BY DEF TypeInv, TypeOK, ParamsValid
    <3> HIDE DEF value
    <3> QED BY <2>2, <3>1, DelayType
  <2> HIDE DEF at, value
  <2>4. /\ d.status = "held" /\ d.executeAt = at /\ d.action = "seize"
        /\ d.target = c.target /\ d.votingEnds = c.votingEnds /\ d.recovered = c.recovered
    BY <1>1 DEF CaseRecords
  <2> HIDE DEF d
  <2>5. SameCase(d, cases[id])
    BY <1>1, <2>4 DEF SameCase
  <2>6. Agreement'
    BY <1>0, <2>1, <2>3, <2>4, <2>5, PassAgree
  <2>7. Seized(d) = Seized(cases[id])
    BY <2>5 DEF Seized, SameCase
  <2> QED BY <2>1, <2>6, <2>7, SeizedKept
<1>2. CASE c.action # "seize"
  <2> DEFINE d == [c EXCEPT !.status = "passed", !.resolvedAt = height]
  <2>1. cases' = [cases EXCEPT ![id] = d] /\ executionQueue' = executionQueue
    BY <1>2 DEF PassCase
  <2>2. /\ d.status = "passed" /\ d.executeAt = c.executeAt /\ d.action = c.action
        /\ d.target = c.target /\ d.votingEnds = c.votingEnds /\ d.recovered = c.recovered
    BY DEF CaseRecords
  <2> HIDE DEF d
  <2>3. SameCase(d, cases[id]) /\ d.executeAt \in Nat
    BY <1>0, <2>2 DEF SameCase
  <2>4. Agreement'
    BY <1>0, <2>1, <2>2, <2>3, PassAgree
  <2>5. Seized(d) = Seized(cases[id])
    BY <2>3 DEF Seized, SameCase
  <2> QED BY <2>1, <2>4, <2>5, SeizedKept
<1> QED BY <1>1, <1>2

\* rejectCase keeps the agreement and the total.
LEMMA RejectKeeps ==
  ASSUME TypeInv, Agreement, NEW id \in CaseIds, cases[id].status = "voting",
         NEW c \in CaseRecords, SameCase(c, cases[id]), NEW status \in Stopped,
         RejectCase(id, c, status), ledger' = ledger, height' = height, phase' = phase
  PROVE  Agreement' /\ SeizedInAll' = SeizedInAll
<1> DEFINE d == [c EXCEPT !.status = status, !.resolvedAt = height]
<1>1. cases' = [cases EXCEPT ![id] = d]
  BY DEF RejectCase
<1>2. /\ d.status = status /\ d.action = c.action
      /\ d.target = c.target /\ d.votingEnds = c.votingEnds /\ d.recovered = c.recovered
  BY DEF CaseRecords
<1> HIDE DEF d
<1>3. SameCase(d, cases[id]) /\ d.status \in Stopped
  BY <1>2 DEF SameCase
<1>4. Unfreeze(cases[id].target)
  <2>1. freeze[cases[id].target].case = id
    BY Statuses DEF Agreement, FreezeIsAnsweredFor
  <2> QED BY <2>1 DEF RejectCase, LiftFreeze, SameCase
<1>5. Dequeue(id)
  BY DEF RejectCase, Dequeue, SameCase
<1>6. Agreement'
  BY <1>1, <1>3, <1>4, <1>5, StopAgree, Statuses
<1>7. Seized(d) = Seized(cases[id])
  BY <1>3 DEF Seized, SameCase
<1> QED BY <1>1, <1>6, <1>7, SeizedKept

\* Stopping a case keeps the agreement and the total.
LEMMA StopKeeps ==
  ASSUME TypeInv, Agreement, NEW id \in CaseIds, cases[id].status \in Live, NEW status \in Stopped,
         StopWith(id, status), Dequeue(id),
         Unfreeze(cases[id].target) \/ LiftFreeze(cases[id].target, id),
         ledger' = ledger, height' = height, phase' = phase
  PROVE  Agreement' /\ SeizedInAll' = SeizedInAll
<1> DEFINE d == [cases[id] EXCEPT !.status = status, !.resolvedAt = height]
<1>1. cases' = [cases EXCEPT ![id] = d]
  BY DEF StopWith
<1>2. SameCase(d, cases[id]) /\ d.status \in Stopped
  <2>1. cases[id] \in CaseRecords
    BY Entries
  <2> QED BY <2>1 DEF SameCase, CaseRecords
<1> HIDE DEF d
<1>3. Unfreeze(cases[id].target)
  <2>1. freeze[cases[id].target].case = id
    BY DEF Agreement, FreezeIsAnsweredFor
  <2> QED BY <2>1 DEF LiftFreeze
<1>4. Agreement'
  BY <1>1, <1>2, <1>3, StopAgree
<1>5. Seized(d) = Seized(cases[id])
  BY <1>2 DEF Seized, SameCase
<1> QED BY <1>1, <1>4, <1>5, SeizedKept

\* A tally changes nothing but the tally.
LEMMA TallyKeeps ==
  ASSUME NEW c \in CaseRecords, NEW option \in {"yes", "no", "abstain"}, NEW p \in Nat
  PROVE  /\ Tallied(c, option, p) \in CaseRecords /\ SameCase(Tallied(c, option, p), c)
         /\ Tallied(c, option, p).status = c.status /\ Tallied(c, option, p).executeAt = c.executeAt
<1>1. CASE option = "yes"
  <2>1. Tallied(c, option, p) = [c EXCEPT !.yes = @ + p]
    BY <1>1 DEF Tallied
  <2> QED BY <2>1 DEF SameCase, CaseRecords
<1>2. CASE option = "no"
  <2>1. Tallied(c, option, p) = [c EXCEPT !.no = @ + p]
    BY <1>2 DEF Tallied
  <2> QED BY <2>1 DEF SameCase, CaseRecords
<1>3. CASE option = "abstain"
  <2>1. Tallied(c, option, p) = c
    BY <1>3 DEF Tallied
  <2> QED BY <2>1 DEF SameCase
<1> QED BY <1>1, <1>2, <1>3

\* OpenCase and EmergencyFreeze.
LEMMA OpenKeeps ==
  ASSUME TypeInv, Consistent, phase = "deliver",
         NEW t \in Targets, NEW opener, NEW action \in Actions, Open(t, opener, action)
  PROVE  Consistent'
<1> DEFINE d == [NoCase EXCEPT !.status = "voting", !.target = t, !.action = action,
                   !.opener = opener, !.votingEnds = height + params.voting, !.totalAtOpen = lastTotal]
<1>1. Agreement'
  BY OpenAgree DEF Consistent
<1>2. /\ cases' = [cases EXCEPT ![caseSeq] = d] /\ caseSeq <= MaxCases
      /\ phase' = phase /\ recovered' = recovered
  BY DEF Open, blockVars, tallyVars
<1>3. caseSeq \in CaseIds
  BY <1>2, BoundAssumption DEF TypeInv, TypeOK, CaseIds
<1>4. cases[caseSeq] = NoCase
  BY <1>3 DEF TypeInv, TypeOK
<1>5. Seized(d) = Seized(cases[caseSeq])
  BY <1>4 DEF Seized, NoCase
<1> HIDE DEF d
<1>6. SeizedInAll' = SeizedInAll
  BY <1>2, <1>3, <1>5, SeizedKept
<1>7. DueIsQueued'
  BY <1>2 DEF DueIsQueued
<1> QED BY <1>1, <1>2, <1>6, <1>7 DEF Consistent, Booked

\* VoteCase
LEMMA VoteKeeps ==
  ASSUME TypeInv, Consistent, NEW a \in Validators, NEW id \in CaseIds,
         NEW option \in {"yes", "no", "abstain"}, VoteCase(a, id, option)
  PROVE  Consistent'
<1> DEFINE c == Tallied(cases[id], option, power[a])
<1>1. /\ cases[id].status = "voting" /\ phase = "deliver" /\ phase' = phase /\ height' = height
      /\ ledger' = ledger /\ recovered' = recovered
      /\ \/ PassCase(id, c) \/ RejectCase(id, c, "rejected")
         \/ cases' = [cases EXCEPT ![id] = c] /\ UNCHANGED <<freeze, queueVars>>
  BY DEF VoteCase, blockVars
<1>2. cases[id] \in CaseRecords /\ power[a] \in Nat
  BY Entries DEF TypeInv, TypeOK
<1>3. /\ c \in CaseRecords /\ SameCase(c, cases[id])
      /\ c.status = "voting" /\ c.executeAt = cases[id].executeAt
  BY <1>1, <1>2, TallyKeeps
<1> HIDE DEF c
<1>4. Agreement
  BY DEF Consistent
<1>5. Agreement' /\ SeizedInAll' = SeizedInAll
  <2>1. CASE PassCase(id, c)
    BY <1>1, <1>3, <1>4, <2>1, PassKeeps
  <2>2. CASE RejectCase(id, c, "rejected")
    BY <1>1, <1>3, <1>4, <2>2, RejectKeeps, Statuses
  <2>3. CASE cases' = [cases EXCEPT ![id] = c] /\ UNCHANGED <<freeze, queueVars>>
    <3>1. UNCHANGED <<freeze, votingQueue, executionQueue, expiryQueue>>
      BY <2>3 DEF queueVars
    <3>2. \A k \in Nat, i \in CaseIds : <<k, i>> \in executionQueue' <=>
            IF i = id THEN c.status = "held" /\ c.executeAt = k ELSE <<k, i>> \in executionQueue
      BY <1>1, <1>3, <1>4, <3>1 DEF Agreement, Queued, SeizuresQueued
    <3>3. /\ c.target = cases[id].target /\ c.action = cases[id].action
          /\ c.votingEnds = cases[id].votingEnds /\ c.recovered = cases[id].recovered
      BY <1>3 DEF SameCase
    <3>4. c.action = "freeze" => c.status # "held" /\ c.recovered = 0
      BY <1>3, <1>4, <3>3 DEF Agreement, Ordered
    <3>5. Agreement'
      BY <1>1, <1>3, <1>4, <2>3, <3>1, <3>2, <3>3, <3>4, GoOnAgree, Statuses
    <3>6. Seized(c) = Seized(cases[id])
      BY <3>3 DEF Seized
    <3> QED BY <2>3, <3>5, <3>6, SeizedKept
  <2> QED BY <1>1, <2>1, <2>2, <2>3
<1> QED BY <1>1, <1>5 DEF Consistent, Booked, DueIsQueued

\* WithdrawCase
LEMMA WithdrawKeeps ==
  ASSUME TypeInv, Consistent, NEW a, NEW id \in CaseIds, WithdrawCase(a, id)
  PROVE  Consistent'
<1>1. /\ cases[id].status = "voting" /\ phase = "deliver" /\ phase' = phase /\ height' = height
      /\ ledger' = ledger /\ recovered' = recovered /\ RejectCase(id, cases[id], "withdrawn")
  BY DEF WithdrawCase, blockVars
<1>2. cases[id] \in CaseRecords /\ SameCase(cases[id], cases[id]) /\ "withdrawn" \in Stopped
  BY Entries, Statuses DEF SameCase
<1>3. Agreement
  BY DEF Consistent
<1>4. Agreement' /\ SeizedInAll' = SeizedInAll
  BY <1>1, <1>2, <1>3, RejectKeeps
<1> QED BY <1>1, <1>4 DEF Consistent, Booked, DueIsQueued

\* ReverseCase, EmergencyRelease and OmbudsmanVeto.
LEMMA StoppedKeeps ==
  ASSUME TypeInv, Consistent, NEW id \in CaseIds, phase = "deliver", cases[id].status \in Live,
         NEW status \in Stopped, StopWith(id, status), Dequeue(id),
         Unfreeze(cases[id].target) \/ LiftFreeze(cases[id].target, id),
         UNCHANGED <<params, blockVars, caseSeq, voted, tallyVars, stakeVars, roles, moneyVars>>
  PROVE  Consistent'
<1>1. phase' = phase /\ height' = height /\ ledger' = ledger /\ recovered' = recovered
  BY DEF blockVars, tallyVars
<1>2. Agreement
  BY DEF Consistent
<1>3. Agreement' /\ SeizedInAll' = SeizedInAll
  BY <1>1, <1>2, StopKeeps
<1> QED BY <1>1, <1>3 DEF Consistent, Booked, DueIsQueued

\* SweepSeizure
LEMMA SweepKeeps ==
  ASSUME TypeInv, Consistent, NEW a, NEW id \in CaseIds, NEW u, Sweep(a, id, u)
  PROVE  Consistent'
<1> DEFINE got == liquid[cases[id].target]
           d == [cases[id] EXCEPT !.recovered = cases[id].recovered + got]
<1>1. /\ cases[id].status = "passed" /\ cases[id].action = "seize"
      /\ cases' = [cases EXCEPT ![id] = d]
      /\ phase = "deliver" /\ phase' = phase /\ height' = height
      /\ UNCHANGED <<freeze, votingQueue, executionQueue, expiryQueue, ledger>>
      /\ recovered' = recovered + got
  BY DEF Sweep, UnbondAndCollect, blockVars, queueVars
<1>2. cases[id] \in CaseRecords /\ cases[id].target \in Targets /\ cases[id].recovered \in Nat
  BY <1>1, Entries
<1>3. got \in Nat
  BY <1>2 DEF TypeInv, TypeOK
<1> HIDE DEF got
<1>4. /\ d.status = "passed" /\ d.action = "seize" /\ d.target = cases[id].target
      /\ d.votingEnds = cases[id].votingEnds /\ d.recovered = cases[id].recovered + got
  BY <1>1, <1>2 DEF CaseRecords
<1> HIDE DEF d
<1>5. \A k \in Nat, i \in CaseIds : <<k, i>> \in executionQueue' <=>
        IF i = id THEN d.status = "held" /\ d.executeAt = k ELSE <<k, i>> \in executionQueue
  BY <1>1, <1>4 DEF Consistent, Agreement, Queued, SeizuresQueued
<1>6. Agreement
  BY DEF Consistent
<1>7. Agreement'
  BY <1>1, <1>4, <1>5, <1>6, GoOnAgree, Statuses
<1>8. \A i \in CaseIds : cases'[i] = IF i = id THEN d ELSE cases[i]
  BY <1>1, Entries
<1>9. Seized(cases'[id]) = Seized(cases[id]) + got
  BY <1>1, <1>4, <1>8 DEF Seized
<1>10. SeizedInAll' = SeizedInAll + got
  BY <1>3, <1>8, <1>9, SeizedMore
<1> QED BY <1>1, <1>7, <1>10 DEF Consistent, Booked, DueIsQueued

\* Steps that touch neither cases, freezes and queues nor the block.
LEMMA FrameKeeps ==
  ASSUME TypeInv, Consistent,
         UNCHANGED <<cases, freeze, votingQueue, executionQueue, expiryQueue, ledger, recovered,
                     height, phase, due>>
  PROVE  Consistent'
<1>1. VotesAhead'
  BY DEF Consistent, Agreement, VotesAhead
<1>2. Agreement'
  BY <1>1, FrameAgree DEF Consistent
<1>3. SeizedInAll' = SeizedInAll
  BY SeizedSame
<1>4. DueIsQueued'
  BY DEF Consistent, DueIsQueued, DueBy
<1> QED BY <1>2, <1>3, <1>4 DEF Consistent, Booked

\* The end blocker starts: what is due is read from the queue.
LEMMA StartKeeps ==
  ASSUME TypeInv, Consistent, EndBlockStart
  PROVE  Consistent'
<1>1. /\ UNCHANGED <<cases, freeze, votingQueue, executionQueue, expiryQueue, ledger, recovered, height>>
      /\ phase' = "resolve" /\ due' = DueBy(votingQueue, height)
  BY DEF EndBlockStart, queueVars, tallyVars
<1>2. VotesAhead'
  BY <1>1 DEF Consistent, Agreement, VotesAhead
<1>3. Agreement'
  BY <1>1, <1>2, FrameAgree DEF Consistent
<1>4. SeizedInAll' = SeizedInAll
  BY <1>1, SeizedSame
<1>5. DueIsQueued'
  BY <1>1 DEF DueIsQueued, DueBy
<1> QED BY <1>1, <1>3, <1>4, <1>5 DEF Consistent, Booked

\* resolveDueCases finds every case it has collected still being voted on.
LEMMA ResolveKeeps ==
  ASSUME TypeInv, Consistent, ResolveDue
  PROVE  Consistent'
<1> DEFINE id == FirstDue[2]
           c == cases[id]
<1>1. /\ due # {} /\ phase = "resolve" /\ phase' = phase /\ height' = height
      /\ due' = due \ {FirstDue} /\ ledger' = ledger /\ recovered' = recovered
  BY DEF ResolveDue
<1>2. FirstDue \in due /\ FirstDue = <<FirstDue[1], id>> /\ FirstDue[1] \in Nat /\ id \in CaseIds
  BY <1>1, FirstDueIsDue DEF TypeInv, TypeOK
<1>3. due = DueBy(votingQueue, height) /\ FirstDue \in votingQueue
  BY <1>1, <1>2 DEF Consistent, DueIsQueued, DueBy
<1>4. c.status = "voting" /\ c.votingEnds = FirstDue[1]
  BY <1>2, <1>3 DEF Consistent, Agreement, Queued, VotesQueued
<1>5. PassCase(id, c) \/ RejectCase(id, c, "expired")
  BY <1>4 DEF ResolveDue
<1>6. votingQueue' = votingQueue \ {FirstDue}
  BY <1>2, <1>4, <1>5 DEF PassCase, RejectCase
<1> HIDE DEF id
<1>7. c \in CaseRecords /\ SameCase(c, cases[id]) /\ "expired" \in Stopped
  BY <1>2, Entries, Statuses DEF SameCase
<1> HIDE DEF c
<1>8. Agreement /\ cases[id].status = "voting"
  BY <1>4 DEF Consistent, c
<1>9. Agreement' /\ SeizedInAll' = SeizedInAll
  <2>1. CASE PassCase(id, c)
    BY <1>1, <1>2, <1>7, <1>8, <2>1, PassKeeps
  <2>2. CASE RejectCase(id, c, "expired")
    BY <1>1, <1>2, <1>7, <1>8, <2>2, RejectKeeps
  <2> QED BY <1>5, <2>1, <2>2
<1>10. DueIsQueued'
  BY <1>1, <1>3, <1>6 DEF DueIsQueued, DueBy
<1> QED BY <1>1, <1>9, <1>10 DEF Consistent, Booked

\* Once nothing is due, every vote ends in a later block.
LEMMA ExecuteStartKeeps ==
  ASSUME TypeInv, Consistent, ExecuteStart
  PROVE  Consistent'
<1>1. /\ UNCHANGED <<cases, freeze, votingQueue, executionQueue, expiryQueue, ledger, recovered, height>>
      /\ phase = "resolve" /\ due = {} /\ phase' = "execute" /\ due' = DueBy(executionQueue, height)
  BY DEF ExecuteStart, queueVars, tallyVars
<1>2. DueBy(votingQueue, height) = {}
  BY <1>1 DEF Consistent, DueIsQueued
<1>3. ASSUME NEW id \in CaseIds, cases[id].status = "voting" PROVE height < cases[id].votingEnds
  <2>1. cases[id].votingEnds \in Nat /\ height \in Nat
    BY Entries
  <2>2. <<cases[id].votingEnds, id>> \in votingQueue
    BY <1>3, <2>1 DEF Consistent, Agreement, Queued, VotesQueued
  <2>3. ~(cases[id].votingEnds <= height)
    BY <1>2, <2>2 DEF DueBy
  <2> QED BY <2>1, <2>3
<1>4. VotesAhead'
  BY <1>1, <1>3 DEF Consistent, Agreement, VotesAhead
<1>5. Agreement'
  BY <1>1, <1>4, FrameAgree DEF Consistent
<1>6. SeizedInAll' = SeizedInAll
  BY <1>1, SeizedSame
<1>7. DueIsQueued'
  BY <1>1 DEF DueIsQueued, DueBy
<1> QED BY <1>1, <1>5, <1>6, <1>7 DEF Consistent, Booked

\* executeDueSeizures finds every seizure it has collected still held.
LEMMA ExecuteKeeps ==
  ASSUME TypeInv, Consistent, ExecuteDue
  PROVE  Consistent'
<1> DEFINE id == FirstDue[2]
           c == cases[id]
<1>1. /\ due # {} /\ phase = "execute" /\ phase' = phase /\ height' = height
      /\ due' = due \ {FirstDue} /\ freeze' = freeze
      /\ votingQueue' = votingQueue /\ expiryQueue' = expiryQueue
  BY DEF ExecuteDue
<1>2. FirstDue \in due /\ FirstDue = <<FirstDue[1], id>> /\ FirstDue[1] \in Nat /\ id \in CaseIds
  BY <1>1, FirstDueIsDue DEF TypeInv, TypeOK
<1>3. due = DueBy(executionQueue, height) /\ FirstDue \in executionQueue
  BY <1>1, <1>2 DEF Consistent, DueIsQueued, DueBy
<1>4. c.status = "held" /\ c.executeAt = FirstDue[1]
  BY <1>2, <1>3 DEF Consistent, Agreement, Queued, SeizuresQueued
<1>5. \/ \E u \in {0, staked[c.target]} : CarryOut(id, u)
      \/ Defer(id) /\ UNCHANGED <<tallyVars, moneyVars>>
  BY <1>4 DEF ExecuteDue
<1> HIDE DEF id
<1>6. /\ Agreement /\ c \in CaseRecords /\ c.target \in Targets /\ c.recovered \in Nat
      /\ c.action = "seize" /\ height \in Nat
  <2>1. c.action \in Actions /\ c \in CaseRecords /\ c.target \in Targets /\ c.recovered \in Nat /\ height \in Nat
    BY <1>2, <1>4, Entries
  <2>2. c.action # "freeze"
    BY <1>2, <1>4 DEF Consistent, Agreement, Ordered
  <2> QED BY <2>1, <2>2, Statuses DEF Consistent
<1>7. \A k \in Nat, i \in CaseIds :
        <<k, i>> \in executionQueue \ {FirstDue} <=> i # id /\ <<k, i>> \in executionQueue
  <2> SUFFICES ASSUME NEW k \in Nat, NEW i \in CaseIds
               PROVE  <<k, i>> \in executionQueue \ {FirstDue} <=> i # id /\ <<k, i>> \in executionQueue
    OBVIOUS
  <2>1. <<k, i>> \in executionQueue <=> cases[i].status = "held" /\ cases[i].executeAt = k
    BY DEF Consistent, Agreement, Queued, SeizuresQueued
  <2>2. <<k, i>> = FirstDue <=> k = FirstDue[1] /\ i = id
    BY <1>2
  <2> QED BY <1>4, <2>1, <2>2
<1>8. ASSUME NEW u, CarryOut(id, u) PROVE Consistent'
  <2> DEFINE got == liquid[c.target]
             d == [c EXCEPT !.status = "passed", !.recovered = c.recovered + got]
  <2>1. /\ executionQueue' = executionQueue \ {FirstDue}
        /\ cases' = [cases EXCEPT ![id] = d]
        /\ recovered' = recovered + got
        /\ \A r \in ledger' : r \in ledger \/ r.case = id
    BY <1>8 DEF CarryOut, UnbondAndCollect
  <2>2. got \in Nat
    BY <1>6 DEF TypeInv, TypeOK
  <2> HIDE DEF got
  <2>3. /\ d.status = "passed" /\ d.action = "seize" /\ d.target = cases[id].target
        /\ d.votingEnds = cases[id].votingEnds /\ d.recovered = cases[id].recovered + got
    BY <1>6 DEF CaseRecords
  <2> HIDE DEF d
  <2>4. \A k \in Nat, i \in CaseIds : <<k, i>> \in executionQueue' <=>
          IF i = id THEN d.status = "held" /\ d.executeAt = k ELSE <<k, i>> \in executionQueue
    BY <1>7, <2>1, <2>3
  <2>5. cases[id].status \in Live /\ cases[id].status # "voting" /\ d.status \in Live
    BY <1>4, <2>3, Statuses
  <2>6. Agreement'
    <3>1. cases[id].action = "seize" /\ Agreement
      BY <1>6
    <3>2. /\ d.action # "freeze" /\ d.status # "voting"
          /\ d.target = cases[id].target /\ d.votingEnds = cases[id].votingEnds
          /\ d.action = cases[id].action
      BY <2>3, <3>1
    <3>3. cases' = [cases EXCEPT ![id] = d]
      BY <2>1
    <3>4. \A r \in ledger' : r \in ledger \/ (r.case = id /\ d.action = "seize")
      BY <2>1, <2>3
    <3>5. /\ freeze' = freeze /\ expiryQueue' = expiryQueue /\ votingQueue' = votingQueue
          /\ height' = height /\ phase' = phase /\ id \in CaseIds
      BY <1>1, <1>2
    <3> HIDE DEF c
    <3> QED BY <2>4, <2>5, <3>1, <3>2, <3>3, <3>4, <3>5, GoOnAgree
  <2>7. \A i \in CaseIds : cases'[i] = IF i = id THEN d ELSE cases[i]
    BY <2>1, Entries
  <2>8. Seized(cases'[id]) = Seized(cases[id]) + got
    BY <1>2, <1>6, <2>3, <2>7 DEF Seized
  <2>9. SeizedInAll' = SeizedInAll + got
    BY <1>2, <2>2, <2>7, <2>8, SeizedMore
  <2>10. DueIsQueued'
    BY <1>1, <1>3, <2>1 DEF DueIsQueued, DueBy
  <2> QED BY <2>1, <2>6, <2>9, <2>10 DEF Consistent, Booked
<1>9. CASE Defer(id) /\ UNCHANGED <<tallyVars, moneyVars>>
  <2> DEFINE at == NextWindowOpening
             d == [c EXCEPT !.executeAt = at]
  <2>1. /\ executionQueue' = (executionQueue \ {FirstDue}) \cup {<<at, id>>}
        /\ cases' = [cases EXCEPT ![id] = d]
        /\ recovered' = recovered /\ ledger' = ledger
    BY <1>9 DEF Defer, tallyVars
  <2>2. at \in Nat /\ at > height
    BY OpeningType DEF TypeInv, TypeOK
  <2> HIDE DEF at
  <2>3. /\ d.status = "held" /\ d.action = "seize" /\ d.target = cases[id].target
        /\ d.votingEnds = cases[id].votingEnds /\ d.recovered = cases[id].recovered
        /\ d.executeAt = at
    BY <1>4, <1>6 DEF CaseRecords
  <2> HIDE DEF d
  <2>4. \A k \in Nat, i \in CaseIds : <<k, i>> \in executionQueue' <=>
          IF i = id THEN d.status = "held" /\ d.executeAt = k ELSE <<k, i>> \in executionQueue
    BY <1>7, <2>1, <2>3
  <2>5. cases[id].status \in Live /\ cases[id].status # "voting" /\ d.status \in Live
    BY <1>4, <2>3, Statuses
  <2>6. Agreement'
    <3>1. d.action # "freeze" /\ d.status # "voting" /\ \A r \in ledger' : r \in ledger
      BY <2>1, <2>3
    <3>2. cases[id].action = "seize"
      BY <1>6
    <3>3. cases' = [cases EXCEPT ![id] = d] /\ Agreement
      BY <1>6, <2>1
    <3>4. /\ d.target = cases[id].target /\ d.votingEnds = cases[id].votingEnds
          /\ d.action = cases[id].action
      BY <2>3, <3>2
    <3>5. /\ freeze' = freeze /\ expiryQueue' = expiryQueue /\ votingQueue' = votingQueue
          /\ height' = height /\ phase' = phase /\ id \in CaseIds
      BY <1>1, <1>2
    <3>6. \A r \in ledger' : r \in ledger \/ (r.case = id /\ d.action = "seize")
      BY <3>1
    <3> HIDE DEF c
    <3> QED BY <2>4, <2>5, <3>1, <3>3, <3>4, <3>5, <3>6, GoOnAgree
  <2>7. Seized(d) = Seized(cases[id])
    BY <1>6, <2>3 DEF Seized
  <2>8. SeizedInAll' = SeizedInAll
    BY <1>2, <2>1, <2>7, SeizedKept
  <2>9. DueIsQueued'
    BY <1>1, <1>3, <1>6, <2>1, <2>2 DEF DueIsQueued, DueBy
  <2> QED BY <2>1, <2>6, <2>8, <2>9 DEF Consistent, Booked
<1> QED BY <1>5, <1>8, <1>9

\* expireFreezes finds nothing to lift: a freeze with an expiry belongs to a
\* vote, and every vote left ends in a later block.
LEMMA FinishKeeps ==
  ASSUME TypeInv, Consistent, EndBlockFinish
  PROVE  Consistent'
<1>1. /\ freeze' = [t \in Targets |-> IF Lapsed(t) THEN NoFreeze ELSE freeze[t]]
      /\ expiryQueue' = expiryQueue \ {<<freeze[t].expires, t>> : t \in {u \in Targets : Lapsed(u)}}
      /\ ledger' \subseteq ledger /\ phase = "execute" /\ phase' = "deliver" /\ height' = height + 1
      /\ UNCHANGED <<cases, votingQueue, executionQueue, recovered>>
  BY DEF EndBlockFinish, Pruned, InWindow
<1>2. ASSUME NEW t \in Targets PROVE ~Lapsed(t)
  <2> SUFFICES ASSUME Lapsed(t) PROVE FALSE
    OBVIOUS
  <2>1. PICK k \in expiryQueue : k[1] <= height /\ k[2] = t
    BY DEF Lapsed, DueBy
  <2>2. k = <<k[1], t>> /\ k[1] \in Nat
    BY <2>1, Entries
  <2>3. k[1] > 0 /\ freeze[t].expires = k[1]
    BY <2>1, <2>2 DEF Consistent, Agreement, Queued, ExpiriesQueued
  <2>4. Frozen(t)
    BY DEF Lapsed
  <2>5. freeze[t].case \in CaseIds
    BY <2>4 DEF Consistent, Agreement, FreezeIsAnsweredFor
  <2>6. cases[freeze[t].case].status = "voting" /\ cases[freeze[t].case].votingEnds <= freeze[t].expires
    BY <2>3, <2>4 DEF Consistent, Agreement, Settled
  <2>7. height < cases[freeze[t].case].votingEnds
    BY <1>1, <2>5, <2>6 DEF Consistent, Agreement, VotesAhead
  <2>8. cases[freeze[t].case].votingEnds \in Nat /\ height \in Nat
    BY <2>5, Entries
  <2> QED BY <2>1, <2>2, <2>3, <2>6, <2>7, <2>8
<1>3. freeze' = freeze /\ expiryQueue' = expiryQueue
  <2>1. freeze \in [Targets -> Freezes]
    BY Entries
  <2> QED BY <1>1, <1>2, <2>1
<1>4. VotesAhead'
  <2>1. ASSUME NEW id \in CaseIds, cases[id].status = "voting" PROVE height + 1 <= cases[id].votingEnds
    <3>1. height < cases[id].votingEnds
      BY <1>1, <2>1 DEF Consistent, Agreement, VotesAhead
    <3> QED BY <3>1, Entries
  <2> QED BY <1>1, <2>1 DEF VotesAhead
<1>5. Agreement'
  BY <1>1, <1>3, <1>4, FrameAgree DEF Consistent
<1>6. SeizedInAll' = SeizedInAll
  BY <1>1, SeizedSame
<1>7. DueIsQueued'
  BY <1>1 DEF DueIsQueued
<1> QED BY <1>1, <1>5, <1>6, <1>7 DEF Consistent, Booked

\* The queues are what InitGenesis rebuilds.
LEMMA Rebuilt ==
  ASSUME TypeInv, Consistent
  PROVE  /\ votingQueue = QueuedVotes /\ executionQueue = QueuedSeizures
         /\ expiryQueue = QueuedExpiries /\ recovered = SeizedInAll
<1>0. /\ votingQueue \subseteq Nat \X CaseIds /\ executionQueue \subseteq Nat \X CaseIds
      /\ expiryQueue \subseteq Nat \X Targets
      /\ \A i \in CaseIds : cases[i].votingEnds \in Nat /\ cases[i].executeAt \in Nat
      /\ \A t \in Targets : freeze[t].expires \in Nat
  BY Entries
<1>1. votingQueue = QueuedVotes
  <2>1. \A k \in Nat, i \in CaseIds : <<k, i>> \in votingQueue <=> <<k, i>> \in QueuedVotes
    BY DEF Consistent, Agreement, Queued, VotesQueued, QueuedVotes
  <2>2. QueuedVotes \subseteq Nat \X CaseIds
    BY <1>0 DEF QueuedVotes
  <2> QED BY <1>0, <2>1, <2>2
<1>2. executionQueue = QueuedSeizures
  <2>1. \A k \in Nat, i \in CaseIds : <<k, i>> \in executionQueue <=> <<k, i>> \in QueuedSeizures
    BY DEF Consistent, Agreement, Queued, SeizuresQueued, QueuedSeizures
  <2>2. QueuedSeizures \subseteq Nat \X CaseIds
    BY <1>0 DEF QueuedSeizures
  <2> QED BY <1>0, <2>1, <2>2
<1>3. expiryQueue = QueuedExpiries
  <2>1. \A k \in Nat, t \in Targets : <<k, t>> \in expiryQueue <=> <<k, t>> \in QueuedExpiries
    BY <1>0 DEF Consistent, Agreement, Queued, ExpiriesQueued, QueuedExpiries
  <2>2. QueuedExpiries \subseteq Nat \X Targets
    BY <1>0 DEF QueuedExpiries
  <2>3. expiryQueue \subseteq QueuedExpiries /\ QueuedExpiries \subseteq expiryQueue
    BY <1>0, <2>1, <2>2
  <2> QED BY <2>3
<1> QED BY <1>1, <1>2, <1>3 DEF Consistent, Booked

\* A restart changes none of it.
LEMMA ImportKeeps ==
  ASSUME TypeInv, Consistent, ExportAndImport
  PROVE  Consistent'
<1>1. UNCHANGED <<cases, freeze, votingQueue, executionQueue, expiryQueue, ledger, recovered,
                  height, phase, due>>
  BY Rebuilt DEF ExportAndImport, blockVars
<1> QED BY <1>1, FrameKeeps

\* Every step keeps the invariant.
LEMMA StepInv == Inv /\ [Next]_vars => Inv'
<1> SUFFICES ASSUME Inv, [Next]_vars PROVE Inv'
  OBVIOUS
<1>0. TypeInv /\ Consistent
  BY DEF Inv
<1>1. TypeInv'
  BY <1>0, StepType
<1>2. CASE Messages
  <2>1. ASSUME NEW a \in Accounts, NEW t \in Targets, NEW action \in Actions, OpenCase(a, t, action)
        PROVE  Consistent'
    BY <1>0, <2>1, OpenKeeps DEF OpenCase
  <2>2. ASSUME NEW a \in Accounts, NEW t \in Targets, EmergencyFreeze(a, t) PROVE Consistent'
    BY <1>0, <2>2, OpenKeeps, Statuses DEF EmergencyFreeze
  <2>3. ASSUME NEW a \in Accounts, NEW id \in Opened, WithdrawCase(a, id) PROVE Consistent'
    BY <1>0, <2>3, WithdrawKeeps DEF Opened
  <2>4. ASSUME NEW a \in Accounts, NEW id \in Opened, EmergencyRelease(a, id) PROVE Consistent'
    BY <1>0, <2>4, StoppedKeeps, Statuses DEF Opened, EmergencyRelease
  <2>5. ASSUME NEW a \in Accounts, NEW id \in Opened, OmbudsmanVeto(a, id) PROVE Consistent'
    BY <1>0, <2>5, StoppedKeeps, Statuses DEF Opened, OmbudsmanVeto
  <2>6. ASSUME NEW a \in Accounts, NEW id \in Opened, NEW u, Sweep(a, id, u) PROVE Consistent'
    BY <1>0, <2>6, SweepKeeps DEF Opened
  <2>7. ASSUME NEW a \in Validators, NEW id \in Opened, NEW option \in {"yes", "no", "abstain"},
               VoteCase(a, id, option)
        PROVE  Consistent'
    BY <1>0, <2>7, VoteKeeps DEF Opened
  <2>8. Consistent'
    BY <1>2, <2>1, <2>2, <2>3, <2>4, <2>5, <2>6, <2>7 DEF Messages
  <2> QED BY <1>1, <2>8 DEF Inv
<1>3. CASE Governance
  <2>1. ASSUME NEW id \in Opened, ReverseCase(id) PROVE Consistent'
    BY <1>0, <2>1, StoppedKeeps, Statuses DEF Opened, ReverseCase
  <2>2. ASSUME NEW p, UpdateParams(p) PROVE Consistent'
    BY <1>0, <2>2, FrameKeeps DEF UpdateParams, blockVars, queueVars, tallyVars
  <2>3. Consistent'
    BY <1>3, <2>1, <2>2 DEF Governance
  <2> QED BY <1>1, <2>3 DEF Inv
<1>4. CASE Surroundings
  <2>1. UNCHANGED <<cases, freeze, votingQueue, executionQueue, expiryQueue, ledger, recovered,
                    height, phase, due>>
    BY <1>4 DEF Surroundings, PowerMoves, RoleMoved, MoneyMoves, blockVars, queueVars, tallyVars
  <2>2. Consistent'
    BY <1>0, <2>1, FrameKeeps
  <2> QED BY <1>1, <2>2 DEF Inv
<1>5. CASE EndBlocker
  <2>1. Consistent'
    BY <1>0, <1>5, StartKeeps, ResolveKeeps, ExecuteStartKeeps, ExecuteKeeps, FinishKeeps DEF EndBlocker
  <2> QED BY <1>1, <2>1 DEF Inv
<1>6. CASE ExportAndImport
  <2>1. Consistent'
    BY <1>0, <1>6, ImportKeeps
  <2> QED BY <1>1, <2>1 DEF Inv
<1>7. CASE UNCHANGED vars
  <2>1. UNCHANGED <<cases, freeze, votingQueue, executionQueue, expiryQueue, ledger, recovered,
                    height, phase, due>>
    BY <1>7 DEF vars, blockVars, queueVars, tallyVars
  <2>2. Consistent'
    BY <1>0, <2>1, FrameKeeps
  <2> QED BY <1>1, <2>2 DEF Inv
<1> QED BY <1>2, <1>3, <1>4, <1>5, <1>6, <1>7 DEF Next

\* The invariant holds in every reachable state.
LEMMA AlwaysInv == Spec => []Inv
BY InitInv, StepInv, PTL DEF Spec

----------------------------------------------------------------------------
(* The theorems *)

\* An account is frozen exactly while one live case names it, and it is that
\* case the freeze names: no order of messages, blocks and restarts leaves an
\* account frozen with nobody answering for it.
THEOREM FreezesAnsweredFor == Spec => []FreezeIsAnsweredFor
<1>1. Inv => FreezeIsAnsweredFor
  BY DEF Inv, Consistent, Agreement
<1> QED BY <1>1, AlwaysInv, PTL

\* What one signature does alone stays undecided and bounded: a freeze with an
\* expiry belongs to a running vote, and expireFreezes never lifts one early.
THEOREM ProvisionalUndecided == Spec => []ProvisionalMeansUndecided
<1>1. ASSUME Inv PROVE ProvisionalMeansUndecided
  <2>0. TypeInv /\ FreezeIsAnsweredFor /\ Settled /\ VotesAhead
    BY <1>1 DEF Inv, Consistent, Agreement
  <2>1. ASSUME NEW t \in Targets, freeze[t].expires > 0
        PROVE  /\ cases[freeze[t].case].status = "voting"
               /\ cases[freeze[t].case].votingEnds <= freeze[t].expires
               /\ phase = "deliver" => height <= cases[freeze[t].case].votingEnds
    <3>1. Frozen(t)
      BY <2>0, <2>1, Entries DEF Settled
    <3>2. freeze[t].case \in CaseIds
      BY <2>0, <3>1 DEF FreezeIsAnsweredFor
    <3>3. cases[freeze[t].case].status = "voting" /\ cases[freeze[t].case].votingEnds <= freeze[t].expires
      BY <2>0, <2>1, <3>1 DEF Settled
    <3>4. height <= cases[freeze[t].case].votingEnds
      BY <2>0, <3>2, <3>3 DEF VotesAhead
    <3> QED BY <3>3, <3>4
  <2>2. ASSUME NEW t \in Targets, Frozen(t), freeze[t].expires = 0
        PROVE  cases[freeze[t].case].status \in {"held", "passed"}
    <3>1. cases[freeze[t].case].status \in Live
      BY <2>0, <2>2 DEF FreezeIsAnsweredFor
    <3>2. cases[freeze[t].case].status # "voting"
      BY <2>0, <2>2 DEF Settled
    <3> QED BY <3>1, <3>2, Statuses
  <2> QED BY <2>1, <2>2 DEF ProvisionalMeansUndecided
<1> QED BY <1>1, AlwaysInv, PTL

\* At every step the queues and the running total are what InitGenesis would
\* rebuild from the cases and freezes, so the chain may be restarted from its
\* own export between any two blocks and carries on as if it had not been.
THEOREM RestartSafe == Spec => []RestartKeepsState
<1>1. ASSUME Inv PROVE RestartKeepsState
  <2>0. TypeInv /\ Consistent /\ FreezeIsAnsweredFor /\ Ordered
    BY <1>1 DEF Inv, Consistent, Agreement
  <2>1. ValidGenesis
    BY <2>0 DEF FreezeIsAnsweredFor, Ordered, ValidGenesis
  <2> QED BY <2>0, <2>1, Rebuilt DEF RestartKeepsState
<1> QED BY <1>1, AlwaysInv, PTL

\* What a step may do to the cases: nothing, or write one that is not stopped,
\* and recover something only for a seizure that comes out passed.
LEMMA OneCaseWritten ==
  ASSUME Inv, Next
  PROVE  \/ cases' = cases
         \/ \E j \in CaseIds : \E d : /\ cases' = [cases EXCEPT ![j] = d]
                                      /\ cases[j].status \notin Stopped
                                      /\ \/ d.recovered = cases[j].recovered
                                         \/ /\ cases[j].status \in Live /\ cases[j].action = "seize"
                                            /\ d.status = "passed"
                                            /\ d.recovered - cases[j].recovered = vault' - vault
<1> DEFINE Writes(j, d) ==
             /\ cases' = [cases EXCEPT ![j] = d]
             /\ cases[j].status \notin Stopped
             /\ \/ d.recovered = cases[j].recovered
                \/ /\ cases[j].status \in Live /\ cases[j].action = "seize"
                   /\ d.status = "passed"
                   /\ d.recovered - cases[j].recovered = vault' - vault
           Goal == cases' = cases \/ \E j \in CaseIds : \E d : Writes(j, d)
<1> SUFFICES Goal
  OBVIOUS
<1>0. TypeInv /\ Consistent /\ \A j \in CaseIds : cases[j] \in CaseRecords
  BY Entries DEF Inv
<1>1. ASSUME NEW id \in CaseIds, cases[id].status \in Live,
             NEW c \in CaseRecords, c.recovered = cases[id].recovered,
             PassCase(id, c) \/ (\E s \in Stopped : RejectCase(id, c, s)) \/ cases' = [cases EXCEPT ![id] = c]
      PROVE  Goal
  <2>1. PICK d : cases' = [cases EXCEPT ![id] = d] /\ d.recovered = c.recovered
    <3>1. CASE PassCase(id, c) /\ c.action = "seize"
      <4> DEFINE value == liquid[c.target] + staked[c.target] + unbonding[c.target]
                 at == height + SeizureDelayFor(params, value)
                 e == [c EXCEPT !.status = "held", !.resolvedAt = height,
                                !.assessed = value, !.executeAt = at]
      <4>1. cases' = [cases EXCEPT ![id] = e]
        BY <3>1 DEF PassCase, HoldSeizure
      <4> HIDE DEF value, at
      <4>2. e.recovered = c.recovered
        BY DEF CaseRecords
      <4> QED BY <4>1, <4>2
    <3>2. CASE PassCase(id, c) /\ c.action # "seize"
      <4> DEFINE e == [c EXCEPT !.status = "passed", !.resolvedAt = height]
      <4>1. cases' = [cases EXCEPT ![id] = e]
        BY <3>2 DEF PassCase
      <4>2. e.recovered = c.recovered
        BY DEF CaseRecords
      <4> QED BY <4>1, <4>2
    <3>3. ASSUME NEW s \in Stopped, RejectCase(id, c, s)
          PROVE  \E d : cases' = [cases EXCEPT ![id] = d] /\ d.recovered = c.recovered
      <4> DEFINE e == [c EXCEPT !.status = s, !.resolvedAt = height]
      <4>1. cases' = [cases EXCEPT ![id] = e]
        BY <3>3 DEF RejectCase
      <4>2. e.recovered = c.recovered
        BY DEF CaseRecords
      <4> QED BY <4>1, <4>2
    <3> QED BY <1>1, <3>1, <3>2, <3>3
  <2>2. cases[id].status \notin Stopped
    BY <1>1, Statuses
  <2>3. Writes(id, d)
    BY <1>1, <2>1, <2>2
  <2> QED BY <2>3
<1>2. ASSUME NEW id \in CaseIds, cases[id].status \in Live, NEW s, StopWith(id, s) PROVE Goal
  <2> DEFINE d == [cases[id] EXCEPT !.status = s, !.resolvedAt = height]
  <2>1. cases' = [cases EXCEPT ![id] = d]
    BY <1>2 DEF StopWith
  <2>2. d.recovered = cases[id].recovered
    BY <1>0 DEF CaseRecords
  <2> HIDE DEF d
  <2>3. Writes(id, d)
    BY <1>2, <2>1, <2>2, Statuses
  <2> QED BY <2>3
<1>3. ASSUME NEW id \in CaseIds, NEW u, NEW d, NEW c \in CaseRecords, c = cases[id],
             cases[id].status \in Live, cases[id].action = "seize",
             UnbondAndCollect(c.target, u), cases' = [cases EXCEPT ![id] = d],
             d.status = "passed", d.recovered = c.recovered + liquid[c.target]
      PROVE  Goal
  <2>1. c.target \in Targets /\ c.recovered \in Nat
    BY <1>0, <1>3, Entries, Statuses
  <2>2. liquid[c.target] \in Nat /\ vault \in Nat
    BY <1>0, <2>1 DEF TypeInv, TypeOK
  <2>3. vault' = vault + liquid[c.target]
    BY <1>3 DEF UnbondAndCollect
  <2>4. d.recovered - cases[id].recovered = vault' - vault
    BY <1>3, <2>1, <2>2, <2>3
  <2>5. Writes(id, d)
    BY <1>3, <2>4, Statuses
  <2> QED BY <2>5
<1>4. CASE Messages
  <2>1. ASSUME NEW t \in Targets, NEW opener, NEW action, Open(t, opener, action) PROVE Goal
    <3> DEFINE d == [NoCase EXCEPT !.status = "voting", !.target = t, !.action = action,
                       !.opener = opener, !.votingEnds = height + params.voting, !.totalAtOpen = lastTotal]
    <3>1. cases' = [cases EXCEPT ![caseSeq] = d] /\ caseSeq <= MaxCases
      BY <2>1 DEF Open
    <3>2. caseSeq \in CaseIds
      BY <1>0, <3>1, BoundAssumption DEF TypeInv, TypeOK, CaseIds
    <3>3. cases[caseSeq] = NoCase
      BY <1>0, <3>2 DEF TypeInv, TypeOK
    <3>4. d.recovered = cases[caseSeq].recovered /\ cases[caseSeq].status \notin Stopped
      BY <3>3, Statuses DEF NoCase
    <3> HIDE DEF d
    <3>5. Writes(caseSeq, d)
      BY <3>1, <3>4
    <3> QED BY <3>2, <3>5
  <2>2. ASSUME NEW a \in Accounts, NEW id \in Opened, WithdrawCase(a, id) PROVE Goal
    <3>1. id \in CaseIds /\ cases[id].status \in Live /\ RejectCase(id, cases[id], "withdrawn") /\ "withdrawn" \in Stopped
      BY <2>2, Statuses DEF Opened, WithdrawCase
    <3> HIDE DEF Goal
    <3> QED BY <1>0, <1>1, <3>1
  <2>3. ASSUME NEW a \in Accounts, NEW id \in Opened, EmergencyRelease(a, id) \/ OmbudsmanVeto(a, id)
        PROVE  Goal
    <3>1. /\ id \in CaseIds /\ cases[id].status \in Live
          /\ StopWith(id, "reversed") \/ StopWith(id, "vetoed")
      BY <2>3, Statuses DEF Opened, EmergencyRelease, OmbudsmanVeto
    <3> HIDE DEF Goal
    <3> QED BY <1>2, <3>1
  <2>4. ASSUME NEW a \in Accounts, NEW id \in Opened, NEW u, Sweep(a, id, u) PROVE Goal
    <3> DEFINE c == cases[id]
               d == [c EXCEPT !.recovered = c.recovered + liquid[c.target]]
    <3>1. /\ id \in CaseIds /\ c.status = "passed" /\ c.action = "seize"
          /\ UnbondAndCollect(c.target, u) /\ cases' = [cases EXCEPT ![id] = d]
      BY <2>4 DEF Opened, Sweep
    <3>2. c \in CaseRecords
      BY <1>0, <3>1
    <3>3. d.status = "passed" /\ d.recovered = c.recovered + liquid[c.target]
      BY <3>1, <3>2 DEF CaseRecords
    <3> HIDE DEF Goal, d
    <3> QED BY <1>3, <3>1, <3>2, <3>3, Statuses
  <2>5. ASSUME NEW a \in Validators, NEW id \in Opened, NEW option \in {"yes", "no", "abstain"},
               VoteCase(a, id, option)
        PROVE  Goal
    <3> DEFINE c == Tallied(cases[id], option, power[a])
    <3>1. /\ id \in CaseIds /\ cases[id].status \in Live
          /\ \/ PassCase(id, c) \/ RejectCase(id, c, "rejected") \/ cases' = [cases EXCEPT ![id] = c]
      BY <2>5, Statuses DEF Opened, VoteCase
    <3>2. power[a] \in Nat
      BY <1>0 DEF TypeInv, TypeOK
    <3>3. c \in CaseRecords /\ SameCase(c, cases[id])
      BY <1>0, <3>1, <3>2, TallyKeeps
    <3> HIDE DEF Goal, c
    <3>4. c.recovered = cases[id].recovered /\ "rejected" \in Stopped
      BY <3>3, Statuses DEF SameCase
    <3> QED BY <1>1, <3>1, <3>3, <3>4
  <2> HIDE DEF Goal
  <2> QED BY <1>4, <2>1, <2>2, <2>3, <2>4, <2>5 DEF Messages, OpenCase, EmergencyFreeze
<1>5. CASE Governance
  <2>1. ASSUME NEW id \in Opened, ReverseCase(id) PROVE Goal
    <3>1. id \in CaseIds /\ cases[id].status \in Live /\ StopWith(id, "reversed")
      BY <2>1, Statuses DEF Opened, ReverseCase
    <3> HIDE DEF Goal
    <3> QED BY <1>2, <3>1
  <2>2. ASSUME NEW p, UpdateParams(p) PROVE Goal
    BY <2>2 DEF UpdateParams
  <2> HIDE DEF Goal
  <2> QED BY <1>5, <2>1, <2>2 DEF Governance
<1>6. CASE EndBlocker
  <2>1. CASE EndBlockStart \/ ExecuteStart \/ EndBlockFinish
    BY <2>1 DEF EndBlockStart, ExecuteStart, EndBlockFinish
  <2>2. CASE ResolveDue
    <3> DEFINE id == FirstDue[2]
    <3>1. id \in CaseIds
      BY <1>0, <2>2, FirstDueIsDue DEF ResolveDue, TypeInv, TypeOK
    <3>2. \/ cases' = cases
          \/ cases[id].status = "voting" /\ (PassCase(id, cases[id]) \/ RejectCase(id, cases[id], "expired"))
      BY <2>2 DEF ResolveDue
    <3> HIDE DEF id
    <3>3. CASE cases[id].status = "voting" /\ (PassCase(id, cases[id]) \/ RejectCase(id, cases[id], "expired"))
      <4> HIDE DEF Goal
      <4> QED BY <1>0, <1>1, <3>1, <3>3, Statuses
    <3> QED BY <3>2, <3>3
  <2>3. CASE ExecuteDue
    <3> DEFINE id == FirstDue[2]
               c == cases[id]
    <3>1. id \in CaseIds
      BY <1>0, <2>3, FirstDueIsDue DEF ExecuteDue, TypeInv, TypeOK
    <3>2. \/ cases' = cases
          \/ c.status = "held" /\ Defer(id)
          \/ c.status = "held" /\ \E u \in {0, staked[c.target]} : CarryOut(id, u)
      BY <2>3 DEF ExecuteDue
    <3> HIDE DEF id
    <3>3. CASE c.status = "held" /\ Defer(id)
      <4> DEFINE d == [c EXCEPT !.executeAt = NextWindowOpening]
      <4>1. cases' = [cases EXCEPT ![id] = d]
        BY <3>3 DEF Defer
      <4>2. d.recovered = c.recovered
        BY <1>0, <3>1 DEF CaseRecords
      <4> HIDE DEF d
      <4>3. Writes(id, d)
        BY <3>3, <4>1, <4>2, Statuses
      <4> QED BY <3>1, <4>3
    <3>4. ASSUME NEW u, c.status = "held", CarryOut(id, u) PROVE Goal
      <4> DEFINE d == [c EXCEPT !.status = "passed", !.recovered = c.recovered + liquid[c.target]]
      <4>1. cases' = [cases EXCEPT ![id] = d] /\ UnbondAndCollect(c.target, u)
        BY <3>4 DEF CarryOut
      <4>2. c \in CaseRecords
        BY <1>0, <3>1
      <4>3. d.status = "passed" /\ d.recovered = c.recovered + liquid[c.target]
        BY <4>2 DEF CaseRecords
      <4>4. c.action = "seize"
        BY <1>0, <3>1, <3>4, <4>2, Statuses DEF Consistent, Agreement, Ordered, CaseRecords
      <4> HIDE DEF Goal, d
      <4> QED BY <1>3, <3>1, <3>4, <4>1, <4>2, <4>3, <4>4, Statuses
    <3> QED BY <3>2, <3>3, <3>4
  <2> HIDE DEF Goal
  <2> QED BY <1>6, <2>1, <2>2, <2>3 DEF EndBlocker
<1>7. CASE Surroundings \/ ExportAndImport
  BY <1>7 DEF Surroundings, PowerMoves, RoleMoved, MoneyMoves, ExportAndImport
<1> QED BY <1>4, <1>5, <1>6, <1>7 DEF Next

\* A case that was rejected, expired, withdrawn, reversed or vetoed stays so:
\* no vote, message, block or restart brings it back.
THEOREM StoppedStaysStopped == Spec => StoppedForGood
<1> DEFINE Stays == \A id \in CaseIds : cases[id].status \in Stopped => cases'[id].status = cases[id].status
<1>1. ASSUME Inv, [Next]_vars PROVE [Stays]_vars
  <2>1. CASE UNCHANGED vars
    BY <2>1
  <2>2. CASE Next
    <3>1. cases \in [CaseIds -> CaseRecords]
      BY <1>1, Entries DEF Inv
    <3>2. ASSUME cases' = cases PROVE Stays
      BY <3>2
    <3>3. ASSUME NEW j \in CaseIds, NEW d, cases' = [cases EXCEPT ![j] = d], cases[j].status \notin Stopped
          PROVE  Stays
      BY <3>1, <3>3
    <3> HIDE DEF Stays
    <3>4. \/ cases' = cases
          \/ \E j \in CaseIds : \E d :
               cases' = [cases EXCEPT ![j] = d] /\ cases[j].status \notin Stopped
      BY <1>1, <2>2, OneCaseWritten
    <3>5. Stays
      BY <3>2, <3>3, <3>4
    <3> QED BY <3>5
  <2> QED BY <1>1, <2>1, <2>2
<1>2. Spec => [][Stays]_vars
  BY <1>1, AlwaysInv, PTL DEF Spec
<1> QED BY <1>2 DEF StoppedForGood

\* Money is taken from an account only for a seizure that was decided and not
\* stopped, while that case's own freeze is on the account, and all of it
\* reaches the recovery destination.
THEOREM TakenWhileOrdered == Spec => TakenOnlyWhileOrdered
<1> DEFINE Taken ==
      \A id \in CaseIds :
        cases'[id].recovered # cases[id].recovered
        => /\ cases'[id].status = "passed" /\ cases[id].action = "seize"
           /\ freeze[cases[id].target].case = id
           /\ cases'[id].recovered - cases[id].recovered = vault' - vault
<1>1. ASSUME Inv, [Next]_vars PROVE [Taken]_vars
  <2>1. CASE UNCHANGED vars
    BY <2>1
  <2>2. CASE Next
    <3>1. cases \in [CaseIds -> CaseRecords] /\ FreezeIsAnsweredFor
      BY <1>1, Entries DEF Inv, Consistent, Agreement
    <3>2. ASSUME cases' = cases PROVE Taken
      BY <3>2
    <3>3. ASSUME NEW j \in CaseIds, NEW d, cases' = [cases EXCEPT ![j] = d],
                 \/ d.recovered = cases[j].recovered
                 \/ /\ cases[j].status \in Live /\ cases[j].action = "seize"
                    /\ d.status = "passed"
                    /\ d.recovered - cases[j].recovered = vault' - vault
          PROVE  Taken
      BY <3>1, <3>3 DEF FreezeIsAnsweredFor
    <3> HIDE DEF Taken
    <3>4. \/ cases' = cases
          \/ \E j \in CaseIds : \E d :
               /\ cases' = [cases EXCEPT ![j] = d]
               /\ \/ d.recovered = cases[j].recovered
                  \/ /\ cases[j].status \in Live /\ cases[j].action = "seize"
                     /\ d.status = "passed"
                     /\ d.recovered - cases[j].recovered = vault' - vault
      BY <1>1, <2>2, OneCaseWritten
    <3>5. Taken
      BY <3>2, <3>3, <3>4
    <3> QED BY <3>5
  <2> QED BY <1>1, <2>1, <2>2
<1>2. Spec => [][Taken]_vars
  BY <1>1, AlwaysInv, PTL DEF Spec
<1> QED BY <1>2 DEF TakenOnlyWhileOrdered

----------------------------------------------------------------------------
(* What a step does to one case *)

\* PassCase: the threshold was reached; a seizure is held for the delay that
\* what the target has now earns it.
Decided(c, d) ==
  /\ c.status = "voting" /\ d.target = c.target
  /\ d.yes >= RequiredPower(params, d.totalAtOpen)
  /\ \/ d.status = "passed" /\ c.action = "freeze"
     \/ /\ d.status = "held" /\ d.resolvedAt = height
        /\ d.assessed = Holdings(d.target)
        /\ d.executeAt = height + SeizureDelayFor(params, d.assessed)

\* Defer: the same seizure, due in a later block.
Deferred(c, d) ==
  /\ c.status = "held" /\ d.status = "held" /\ d.target = c.target
  /\ d.yes = c.yes /\ d.totalAtOpen = c.totalAtOpen
  /\ d.resolvedAt = c.resolvedAt /\ d.assessed = c.assessed
  /\ d.executeAt \in Nat /\ d.executeAt >= c.executeAt

\* CarryOut: a held seizure that is due.
CarriedOut(c, d) == c.status = "held" /\ d.status = "passed" /\ c.executeAt <= height

\* Any write to a case: the rest leave it open, stop it, or sweep for it again.
Written(c, d) ==
  \/ Decided(c, d) \/ Deferred(c, d) \/ CarriedOut(c, d)
  \/ d.status \notin {"held", "passed"}
  \/ c.status = "passed" /\ d.status = "passed"

\* passCase, as the vote or the end blocker calls it.
LEMMA PassWrites ==
  ASSUME TypeInv, NEW id \in CaseIds, NEW c \in CaseRecords,
         cases[id].status = "voting", c.target = cases[id].target, c.action = cases[id].action,
         c.yes >= RequiredPower(params, c.totalAtOpen), PassCase(id, c)
  PROVE  \E d : cases' = [cases EXCEPT ![id] = d] /\ Decided(cases[id], d)
<1>1. CASE c.action = "seize"
  <2> DEFINE value == liquid[c.target] + staked[c.target] + unbonding[c.target]
             at == height + SeizureDelayFor(params, value)
             d == [c EXCEPT !.status = "held", !.resolvedAt = height,
                            !.assessed = value, !.executeAt = at]
  <2>1. cases' = [cases EXCEPT ![id] = d]
    BY <1>1 DEF PassCase, HoldSeizure
  <2>2. value = Holdings(c.target) /\ at = height + SeizureDelayFor(params, value)
    BY DEF Holdings
  <2> HIDE DEF value, at
  <2>3. /\ d.status = "held" /\ d.resolvedAt = height /\ d.assessed = value /\ d.executeAt = at
        /\ d.target = c.target /\ d.yes = c.yes /\ d.totalAtOpen = c.totalAtOpen
    BY DEF CaseRecords
  <2> HIDE DEF d
  <2>4. Decided(cases[id], d)
    BY <2>2, <2>3 DEF Decided
  <2> QED BY <2>1, <2>4
<1>2. CASE c.action # "seize"
  <2> DEFINE d == [c EXCEPT !.status = "passed", !.resolvedAt = height]
  <2>1. cases' = [cases EXCEPT ![id] = d]
    BY <1>2 DEF PassCase
  <2>2. /\ d.status = "passed" /\ d.target = c.target /\ d.yes = c.yes /\ d.totalAtOpen = c.totalAtOpen
        /\ c.action = "freeze"
    BY <1>2, Statuses DEF CaseRecords
  <2> HIDE DEF d
  <2>3. Decided(cases[id], d)
    BY <2>2 DEF Decided
  <2> QED BY <2>1, <2>3
<1> QED BY <1>1, <1>2

\* rejectCase.
LEMMA RejectWrites ==
  ASSUME NEW id \in CaseIds, NEW c \in CaseRecords, NEW s \in Stopped, RejectCase(id, c, s)
  PROVE  \E d : cases' = [cases EXCEPT ![id] = d] /\ Written(cases[id], d)
<1> DEFINE d == [c EXCEPT !.status = s, !.resolvedAt = height]
<1>1. cases' = [cases EXCEPT ![id] = d]
  BY DEF RejectCase
<1>2. d.status \notin {"held", "passed"}
  BY Statuses DEF CaseRecords
<1> HIDE DEF d
<1>3. Written(cases[id], d)
  BY <1>2 DEF Written
<1> QED BY <1>1, <1>3

\* The three ways to stop a case.
LEMMA StopWrites ==
  ASSUME TypeInv, NEW id \in CaseIds, NEW s \in Stopped, StopWith(id, s)
  PROVE  \E d : cases' = [cases EXCEPT ![id] = d] /\ Written(cases[id], d)
<1> DEFINE d == [cases[id] EXCEPT !.status = s, !.resolvedAt = height]
<1>1. cases' = [cases EXCEPT ![id] = d]
  BY DEF StopWith
<1>2. d.status \notin {"held", "passed"}
  BY Statuses, Entries DEF CaseRecords
<1> HIDE DEF d
<1>3. Written(cases[id], d)
  BY <1>2 DEF Written
<1> QED BY <1>1, <1>3

\* Every step writes at most one case, in one of these ways.
LEMMA CaseWritten ==
  ASSUME Inv, Next
  PROVE  \/ cases' = cases
         \/ \E j \in CaseIds : \E d : cases' = [cases EXCEPT ![j] = d] /\ Written(cases[j], d)
<1> DEFINE Goal == \/ cases' = cases
                   \/ \E j \in CaseIds : \E d : cases' = [cases EXCEPT ![j] = d] /\ Written(cases[j], d)
<1> SUFFICES Goal
  OBVIOUS
<1>0. TypeInv /\ Consistent /\ TypeOK /\ \A j \in CaseIds : cases[j] \in CaseRecords
  BY Entries DEF Inv, TypeInv
<1>a. \A j \in CaseIds : (\E d : cases' = [cases EXCEPT ![j] = d] /\ Decided(cases[j], d)) => Goal
  BY DEF Written
<1>1. CASE Messages
  <2>1. ASSUME NEW t \in Targets, NEW opener, NEW action, Open(t, opener, action) PROVE Goal
    <3> DEFINE d == [NoCase EXCEPT !.status = "voting", !.target = t, !.action = action,
                       !.opener = opener, !.votingEnds = height + params.voting, !.totalAtOpen = lastTotal]
    <3>1. cases' = [cases EXCEPT ![caseSeq] = d] /\ caseSeq <= MaxCases
      BY <2>1 DEF Open
    <3>2. caseSeq \in CaseIds
      BY <1>0, <3>1, BoundAssumption DEF TypeOK, CaseIds
    <3>3. d.status \notin {"held", "passed"}
      BY DEF NoCase
    <3> HIDE DEF d
    <3>4. Written(cases[caseSeq], d)
      BY <3>3 DEF Written
    <3> QED BY <3>1, <3>2, <3>4
  <2>2. ASSUME NEW a \in Accounts, NEW id \in Opened, WithdrawCase(a, id) PROVE Goal
    <3>1. id \in CaseIds /\ RejectCase(id, cases[id], "withdrawn") /\ "withdrawn" \in Stopped
      BY <2>2, Statuses DEF Opened, WithdrawCase
    <3> QED BY <1>0, <3>1, RejectWrites
  <2>3. ASSUME NEW a \in Accounts, NEW id \in Opened, EmergencyRelease(a, id) \/ OmbudsmanVeto(a, id)
        PROVE  Goal
    <3>1. id \in CaseIds /\ \E s \in Stopped : StopWith(id, s)
      BY <2>3, Statuses DEF Opened, EmergencyRelease, OmbudsmanVeto
    <3> QED BY <1>0, <3>1, StopWrites
  <2>4. ASSUME NEW a \in Accounts, NEW id \in Opened, NEW u, Sweep(a, id, u) PROVE Goal
    <3> DEFINE d == [cases[id] EXCEPT !.recovered = @ + liquid[cases[id].target]]
    <3>1. id \in CaseIds /\ cases[id].status = "passed" /\ cases' = [cases EXCEPT ![id] = d]
      BY <2>4 DEF Opened, Sweep
    <3>2. d.status = "passed"
      BY <1>0, <3>1 DEF CaseRecords
    <3> HIDE DEF d
    <3>3. Written(cases[id], d)
      BY <3>1, <3>2 DEF Written
    <3> QED BY <3>1, <3>3
  <2>5. ASSUME NEW a \in Validators, NEW id \in Opened, NEW option \in {"yes", "no", "abstain"},
               VoteCase(a, id, option)
        PROVE  Goal
    <3> DEFINE c == Tallied(cases[id], option, power[a])
    <3>1. /\ id \in CaseIds /\ cases[id].status = "voting"
          /\ \/ c.yes >= RequiredPower(params, c.totalAtOpen) /\ PassCase(id, c)
             \/ RejectCase(id, c, "rejected") \/ cases' = [cases EXCEPT ![id] = c]
      BY <2>5 DEF Opened, VoteCase
    <3>2. power[a] \in Nat
      BY <1>0 DEF TypeOK
    <3>3. c \in CaseRecords /\ SameCase(c, cases[id]) /\ c.status = "voting"
      BY <1>0, <3>1, <3>2, TallyKeeps
    <3> HIDE DEF c
    <3>4. c.target = cases[id].target /\ c.action = cases[id].action /\ "rejected" \in Stopped
      BY <3>3, Statuses DEF SameCase
    <3>5. CASE c.yes >= RequiredPower(params, c.totalAtOpen) /\ PassCase(id, c)
      <4> HIDE DEF Goal
      <4>1. \E d : cases' = [cases EXCEPT ![id] = d] /\ Decided(cases[id], d)
        BY <1>0, <3>1, <3>3, <3>4, <3>5, PassWrites
      <4> QED BY <1>a, <3>1, <4>1
    <3>6. CASE RejectCase(id, c, "rejected")
      BY <3>1, <3>3, <3>4, <3>6, RejectWrites
    <3>7. CASE cases' = [cases EXCEPT ![id] = c]
      <4>1. Written(cases[id], c)
        BY <3>3 DEF Written
      <4> QED BY <3>1, <3>7, <4>1
    <3> QED BY <3>1, <3>5, <3>6, <3>7
  <2> HIDE DEF Goal
  <2> QED BY <1>1, <2>1, <2>2, <2>3, <2>4, <2>5 DEF Messages, OpenCase, EmergencyFreeze
<1>2. CASE Governance
  <2>1. ASSUME NEW id \in Opened, ReverseCase(id) PROVE Goal
    <3>1. id \in CaseIds /\ \E s \in Stopped : StopWith(id, s)
      BY <2>1, Statuses DEF Opened, ReverseCase
    <3> QED BY <1>0, <3>1, StopWrites
  <2>2. ASSUME NEW p, UpdateParams(p) PROVE Goal
    BY <2>2 DEF UpdateParams
  <2> HIDE DEF Goal
  <2> QED BY <1>2, <2>1, <2>2 DEF Governance
<1>3. CASE EndBlocker
  <2>1. CASE EndBlockStart \/ ExecuteStart \/ EndBlockFinish
    BY <2>1 DEF EndBlockStart, ExecuteStart, EndBlockFinish
  <2>2. CASE ResolveDue
    <3> DEFINE id == FirstDue[2]
    <3>1. id \in CaseIds
      BY <1>0, <2>2, FirstDueIsDue DEF ResolveDue, TypeOK
    <3>2. \/ cases' = cases
          \/ cases[id].status = "voting" /\ RejectCase(id, cases[id], "expired")
          \/ /\ cases[id].status = "voting" /\ PassCase(id, cases[id])
             /\ cases[id].yes >= RequiredPower(params, cases[id].totalAtOpen)
      BY <2>2 DEF ResolveDue
    <3> HIDE DEF id
    <3>3. CASE /\ cases[id].status = "voting" /\ PassCase(id, cases[id])
               /\ cases[id].yes >= RequiredPower(params, cases[id].totalAtOpen)
      <4> HIDE DEF Goal
      <4>1. \E d : cases' = [cases EXCEPT ![id] = d] /\ Decided(cases[id], d)
        BY <1>0, <3>1, <3>3, PassWrites
      <4> QED BY <1>a, <3>1, <4>1
    <3>4. CASE RejectCase(id, cases[id], "expired")
      <4>1. "expired" \in Stopped
        BY Statuses
      <4> QED BY <1>0, <3>1, <3>4, <4>1, RejectWrites
    <3> QED BY <3>2, <3>3, <3>4
  <2>3. CASE ExecuteDue
    <3> DEFINE id == FirstDue[2]
               c == cases[id]
    <3>1. /\ due # {} /\ phase = "execute"
          /\ \/ cases' = cases
             \/ c.status = "held" /\ Defer(id)
             \/ c.status = "held" /\ \E u \in {0, staked[c.target]} : CarryOut(id, u)
      BY <2>3 DEF ExecuteDue
    <3>2. id \in CaseIds /\ FirstDue \in due /\ FirstDue = <<FirstDue[1], id>> /\ FirstDue[1] \in Nat
      BY <1>0, <3>1, FirstDueIsDue DEF TypeOK
    <3>3. FirstDue \in executionQueue /\ FirstDue[1] <= height
      BY <1>0, <3>1, <3>2 DEF Consistent, DueIsQueued, DueBy
    <3>4. c.executeAt = FirstDue[1]
      BY <1>0, <3>2, <3>3 DEF Consistent, Agreement, Queued, SeizuresQueued
    <3>5. c.executeAt <= height /\ c.executeAt \in Nat /\ height \in Nat /\ c \in CaseRecords
      BY <1>0, <3>2, <3>3, <3>4, Entries
    <3> HIDE DEF id
    <3>6. CASE c.status = "held" /\ Defer(id)
      <4> DEFINE at == NextWindowOpening
                 d == [c EXCEPT !.executeAt = at]
      <4>1. cases' = [cases EXCEPT ![id] = d]
        BY <3>6 DEF Defer
      <4>2. at \in Nat /\ at > height
        BY <1>0, OpeningType DEF TypeOK
      <4> HIDE DEF at
      <4>3. /\ d.status = "held" /\ d.target = c.target /\ d.yes = c.yes
            /\ d.totalAtOpen = c.totalAtOpen /\ d.resolvedAt = c.resolvedAt
            /\ d.assessed = c.assessed /\ d.executeAt = at
        BY <3>5, <3>6 DEF CaseRecords
      <4>4. at >= c.executeAt
        BY <3>5, <4>2
      <4> HIDE DEF d, c
      <4>5. Written(c, d)
        BY <3>6, <4>2, <4>3, <4>4 DEF Written, Deferred
      <4> QED BY <3>2, <4>1, <4>5 DEF c
    <3>7. ASSUME NEW u, c.status = "held", CarryOut(id, u) PROVE Goal
      <4> DEFINE d == [c EXCEPT !.status = "passed", !.recovered = c.recovered + liquid[c.target]]
      <4>1. cases' = [cases EXCEPT ![id] = d]
        BY <3>7 DEF CarryOut
      <4>2. d.status = "passed"
        BY <3>5 DEF CaseRecords
      <4> HIDE DEF d, c
      <4>3. Written(c, d)
        BY <3>5, <3>7, <4>2 DEF Written, CarriedOut
      <4> QED BY <3>2, <4>1, <4>3 DEF c
    <3> QED BY <3>1, <3>6, <3>7
  <2> HIDE DEF Goal
  <2> QED BY <1>3, <2>1, <2>2, <2>3 DEF EndBlocker
<1>4. CASE Surroundings \/ ExportAndImport
  BY <1>4 DEF Surroundings, PowerMoves, RoleMoved, MoneyMoves, ExportAndImport
<1> QED BY <1>1, <1>2, <1>3, <1>4 DEF Next

----------------------------------------------------------------------------
(* The wait *)

\* A seizure is held by a decision of the validators under the threshold in
\* force, for the delay its assessed value earns on that day, and it is carried
\* out when it is due and not before: no vote, deferral, amendment or restart
\* shortens the wait in which the ombudsman can stop it.
THEOREM SeizureAlwaysWaits == Spec => SeizureWaits
<1> DEFINE Waits(c, d) ==
      /\ c.status # "held" /\ d.status = "held"
         => /\ d.yes >= RequiredPower(params, d.totalAtOpen)
            /\ d.executeAt = height + SeizureDelayFor(params, d.assessed)
      /\ c.status = "held" /\ d.status = "held" => d.executeAt >= c.executeAt
      /\ c.status # "passed" /\ d.status = "passed" /\ c.action = "seize"
         => c.status = "held" /\ height >= c.executeAt
    Waited == \A id \in CaseIds : Waits(cases[id], cases'[id])
<1>1. ASSUME Inv, [Next]_vars PROVE [Waited]_vars
  <2>0. TypeInv /\ height \in Nat /\ \A id \in CaseIds : cases[id] \in CaseRecords
    BY <1>1, Entries DEF Inv
  <2>1. ASSUME NEW j \in CaseIds, NEW d, cases' = [cases EXCEPT ![j] = d], Written(cases[j], d)
        PROVE  Waited
    <3>1. cases[j].executeAt \in Nat
      BY <2>0 DEF CaseRecords
    <3>2. Waits(cases[j], d)
      BY <2>0, <2>1, <3>1 DEF Written, Decided, Deferred, CarriedOut
    <3>3. \A id \in CaseIds : cases[id].executeAt \in Nat /\ (id # j => cases'[id] = cases[id])
      BY <2>0, <2>1 DEF CaseRecords
    <3>4. cases'[j] = d
      BY <2>0, <2>1, Entries
    <3> QED BY <3>2, <3>3, <3>4
  <2>2. ASSUME cases' = cases PROVE Waited
    <3>1. \A id \in CaseIds : cases[id].executeAt \in Nat
      BY <2>0 DEF CaseRecords
    <3> QED BY <2>2, <3>1
  <2> HIDE DEF Waited
  <2>3. CASE Next
    BY <1>1, <2>1, <2>2, <2>3, CaseWritten
  <2> QED BY <1>1, <2>3
<1>2. Spec => [][Waited]_vars
  BY <1>1, AlwaysInv, PTL DEF Spec
<1> QED BY <1>2 DEF SeizureWaits

----------------------------------------------------------------------------
(* The money *)

\* A message leaves the parameters, the clock and the ledger alone, and no
\* message but a sweep moves money or the running total.
LEMMA MessageFrame ==
  ASSUME Messages
  PROVE  /\ UNCHANGED <<params, height, ledger, history>>
         /\ \/ UNCHANGED <<moneyVars, recovered>>
            \/ \E a \in Accounts, id \in Opened : \E u : Sweep(a, id, u)
<1> USE DEF blockVars, tallyVars
<1>1. ASSUME NEW t, NEW opener, NEW action, Open(t, opener, action)
      PROVE  UNCHANGED <<params, height, ledger, history, moneyVars, recovered>>
  BY <1>1 DEF Open
<1>2. ASSUME NEW a, NEW t, NEW action, OpenCase(a, t, action) \/ EmergencyFreeze(a, t)
      PROVE  UNCHANGED <<params, height, ledger, history, moneyVars, recovered>>
  <2>1. CASE OpenCase(a, t, action)
    BY <1>1, <2>1 DEF OpenCase
  <2>2. CASE EmergencyFreeze(a, t)
    BY <1>1, <2>2 DEF EmergencyFreeze
  <2> QED BY <1>2, <2>1, <2>2
<1>3. ASSUME NEW a, NEW id, WithdrawCase(a, id)
      PROVE  UNCHANGED <<params, height, ledger, history, moneyVars, recovered>>
  BY <1>3 DEF WithdrawCase
<1>4. ASSUME NEW a, NEW id, EmergencyRelease(a, id)
      PROVE  UNCHANGED <<params, height, ledger, history, moneyVars, recovered>>
  BY <1>4 DEF EmergencyRelease
<1>5. ASSUME NEW a, NEW id, OmbudsmanVeto(a, id)
      PROVE  UNCHANGED <<params, height, ledger, history, moneyVars, recovered>>
  BY <1>5 DEF OmbudsmanVeto
<1>6. ASSUME NEW a, NEW id, NEW u, Sweep(a, id, u)
      PROVE  UNCHANGED <<params, height, ledger, history>>
  BY <1>6 DEF Sweep
<1>7. ASSUME NEW a, NEW id, NEW option, VoteCase(a, id, option)
      PROVE  UNCHANGED <<params, height, ledger, history, moneyVars, recovered>>
  BY <1>7 DEF VoteCase
<1>8. CASE \E a \in Accounts, t \in Targets :
             (\E action \in Actions : OpenCase(a, t, action)) \/ EmergencyFreeze(a, t)
  BY <1>2, <1>8
<1>9. CASE \E a \in Accounts, id \in Opened :
             \/ WithdrawCase(a, id) \/ EmergencyRelease(a, id) \/ OmbudsmanVeto(a, id)
             \/ \E u \in {0, staked[cases[id].target]} : Sweep(a, id, u)
  BY <1>3, <1>4, <1>5, <1>6, <1>9
<1>10. CASE \E a \in Validators, id \in Opened, option \in {"yes", "no", "abstain"} :
              VoteCase(a, id, option)
  BY <1>7, <1>10
<1> QED BY <1>8, <1>9, <1>10 DEF Messages

\* So do governance, but for an amendment, and what happens around the module.
LEMMA OutsideFrame ==
  ASSUME Governance \/ Surroundings \/ ExportAndImport
  PROVE  /\ UNCHANGED <<height, ledger, history>>
         /\ params' = params \/ \E p \in ParamChoices : UpdateParams(p)
<1> USE DEF blockVars, tallyVars
<1>1. ASSUME NEW p, UpdateParams(p)
      PROVE  UNCHANGED <<height, ledger, history>>
  BY <1>1 DEF UpdateParams
<1>2. ASSUME NEW id, ReverseCase(id)
      PROVE  UNCHANGED <<params, height, ledger, history>>
  BY <1>2 DEF ReverseCase
<1>3. CASE Surroundings
  BY <1>3 DEF Surroundings, PowerMoves, RoleMoved, MoneyMoves
<1>4. CASE ExportAndImport
  BY <1>4 DEF ExportAndImport
<1>5. CASE Governance
  BY <1>1, <1>2, <1>5 DEF Governance
<1> QED BY <1>3, <1>4, <1>5

\* A step that touches the targets' money, or the running total, takes it for a
\* case or is their own.
LEMMA MoneyTouched ==
  ASSUME Inv, Next
  PROVE  \/ UNCHANGED <<moneyVars, recovered>>
         \/ \E t \in Targets : \E u : UnbondAndCollect(t, u)
         \/ \E t \in Targets : MoneyMoves(t)
<1>0. TypeInv /\ TypeOK
  BY DEF Inv, TypeInv
<1>1. ASSUME NEW a, NEW id \in Opened, NEW u, Sweep(a, id, u)
      PROVE  \E t \in Targets : UnbondAndCollect(t, u)
  <2>1. id \in CaseIds /\ UnbondAndCollect(cases[id].target, u) /\ cases[id].status = "passed"
    BY <1>1 DEF Sweep, Opened
  <2>2. cases[id].target \in Targets
    BY <1>0, <2>1, Entries
  <2> QED BY <2>1, <2>2
<1>2. ASSUME ExecuteDue
      PROVE  UNCHANGED <<moneyVars, recovered>> \/ \E t \in Targets : \E u : UnbondAndCollect(t, u)
  <2> DEFINE id == FirstDue[2]
  <2>1. id \in CaseIds
    BY <1>0, <1>2, FirstDueIsDue DEF ExecuteDue, TypeOK
  <2>2. \/ UNCHANGED <<moneyVars, recovered>>
        \/ cases[id].status = "held" /\ \E u : CarryOut(id, u)
    BY <1>2 DEF ExecuteDue, tallyVars
  <2> HIDE DEF id
  <2>3. cases[id].status = "held" => cases[id].target \in Targets
    BY <1>0, <2>1, Entries
  <2> QED BY <2>2, <2>3 DEF CarryOut
<1>3. CASE Messages
  BY <1>1, <1>3, MessageFrame
<1>4. CASE EndBlocker
  BY <1>2, <1>4 DEF EndBlocker, EndBlockStart, ResolveDue, ExecuteStart, EndBlockFinish, tallyVars
<1>5. CASE Governance \/ Surroundings
  BY <1>5 DEF Governance, ReverseCase, UpdateParams, Surroundings, PowerMoves, RoleMoved, tallyVars
<1>6. CASE ExportAndImport
  BY <1>0, <1>6, Rebuilt DEF ExportAndImport, Inv
<1> QED BY <1>3, <1>4, <1>5, <1>6 DEF Next

\* unbondEverything and collect: what leaves the account reaches the destination.
LEMMA CollectHoldings ==
  ASSUME TypeInv, NEW t \in Targets, NEW u, UnbondAndCollect(t, u), NEW s \in Targets
  PROVE  IF s = t THEN liquid'[s] + staked'[s] + unbonding'[s] = Holdings(s) - (vault' - vault)
                  ELSE liquid'[s] + staked'[s] + unbonding'[s] = Holdings(s)
<1>1. /\ liquid \in [Targets -> Nat] /\ staked \in [Targets -> Nat]
      /\ unbonding \in [Targets -> Nat] /\ vault \in Nat
  BY DEF TypeInv, TypeOK
<1>2. /\ u \in 0 .. staked[t]
      /\ staked' = [staked EXCEPT ![t] = staked[t] - u]
      /\ unbonding' = [unbonding EXCEPT ![t] = unbonding[t] + u]
      /\ liquid' = [liquid EXCEPT ![t] = 0]
      /\ vault' = vault + liquid[t]
  BY DEF UnbondAndCollect
<1>3. CASE s = t
  <2>1. liquid'[s] = 0 /\ staked'[s] = staked[s] - u /\ unbonding'[s] = unbonding[s] + u
    BY <1>1, <1>2, <1>3
  <2>2. vault' - vault = liquid[s]
    BY <1>1, <1>2, <1>3
  <2>3. staked[s] \in Nat /\ u \in Int /\ unbonding[s] \in Nat /\ liquid[s] \in Nat
    BY <1>1, <1>2
  <2> QED BY <1>3, <2>1, <2>2, <2>3 DEF Holdings
<1>4. CASE s # t
  <2>1. liquid'[s] = liquid[s] /\ staked'[s] = staked[s] /\ unbonding'[s] = unbonding[s]
    BY <1>1, <1>2, <1>4
  <2> QED BY <1>4, <2>1 DEF Holdings
<1> QED BY <1>3, <1>4

\* What a target does itself: only a transfer lowers what it holds, and the
\* restriction sends a frozen account's transfers to the destination.
LEMMA OwnHoldings ==
  ASSUME TypeInv, NEW t \in Targets, MoneyMoves(t), NEW s \in Targets, Frozen(s),
         liquid'[s] + staked'[s] + unbonding'[s] < Holdings(s)
  PROVE  vault' - vault = Holdings(s) - (liquid'[s] + staked'[s] + unbonding'[s])
<1>1. /\ liquid \in [Targets -> Nat] /\ staked \in [Targets -> Nat]
      /\ unbonding \in [Targets -> Nat] /\ vault \in Nat
  BY DEF TypeInv, TypeOK
<1> DEFINE l == liquid[s]
           k == staked[s]
           b == unbonding[s]
           total == liquid'[s] + staked'[s] + unbonding'[s]
<1>2. l \in Nat /\ k \in Nat /\ b \in Nat /\ Holdings(s) = l + k + b
  BY <1>1 DEF Holdings
<1>3. CASE s # t
  <2>1. liquid'[s] = l /\ staked'[s] = k /\ unbonding'[s] = b
    BY <1>1, <1>3 DEF MoneyMoves
  <2> QED BY <1>2, <2>1
<1>4. CASE s = t
  <2>1. CASE liquid' = [liquid EXCEPT ![t] = @ + 1] /\ UNCHANGED <<staked, unbonding, vault>>
    <3>1. liquid'[s] = l + 1 /\ staked'[s] = k /\ unbonding'[s] = b
      BY <1>1, <1>4, <2>1
    <3> HIDE DEF l, k, b
    <3> QED BY <1>2, <3>1
  <2>2. CASE \E to : /\ SendRestriction(t, to)
                     /\ liquid' = [liquid EXCEPT ![t] = @ - 1]
                     /\ vault' = IF to = Destination THEN vault + 1 ELSE vault
                     /\ UNCHANGED <<staked, unbonding>>
    <3>1. liquid'[s] = l - 1 /\ staked'[s] = k /\ unbonding'[s] = b /\ vault' = vault + 1
      BY <1>1, <1>4, <2>2 DEF SendRestriction
    <3> HIDE DEF l, k, b
    <3> QED BY <1>1, <1>2, <3>1
  <2>3. CASE /\ liquid' = [liquid EXCEPT ![t] = @ - 1]
             /\ staked' = [staked EXCEPT ![t] = @ + 1] /\ UNCHANGED <<unbonding, vault>>
    <3>1. liquid'[s] = l - 1 /\ staked'[s] = k + 1 /\ unbonding'[s] = b
      BY <1>1, <1>4, <2>3
    <3> HIDE DEF l, k, b
    <3> QED BY <1>2, <3>1
  <2>4. CASE /\ staked' = [staked EXCEPT ![t] = @ - 1]
             /\ unbonding' = [unbonding EXCEPT ![t] = @ + 1] /\ UNCHANGED <<liquid, vault>>
    <3>1. liquid'[s] = l /\ staked'[s] = k - 1 /\ unbonding'[s] = b + 1
      BY <1>1, <1>4, <2>4
    <3> HIDE DEF l, k, b
    <3> QED BY <1>2, <3>1
  <2>5. CASE /\ liquid' = [liquid EXCEPT ![t] = @ + unbonding[t]]
             /\ unbonding' = [unbonding EXCEPT ![t] = 0] /\ UNCHANGED <<staked, vault>>
    <3>1. liquid'[s] = l + b /\ staked'[s] = k /\ unbonding'[s] = 0
      BY <1>1, <1>4, <2>5
    <3> HIDE DEF l, k, b
    <3> QED BY <1>2, <3>1
  <2> QED BY <2>1, <2>2, <2>3, <2>4, <2>5 DEF MoneyMoves
<1> QED BY <1>3, <1>4

\* What a frozen account holds, spendable, delegated or on its way back, leaves
\* it only for the recovery destination, by whatever step it leaves.
THEOREM FrozenFundsNeverLeave == Spec => FrozenFundsStay
<1> DEFINE Stay == \A t \in Targets :
             Frozen(t) /\ Holdings(t)' < Holdings(t) => vault' - vault = Holdings(t) - Holdings(t)'
<1>1. ASSUME Inv, [Next]_vars PROVE [Stay]_vars
  <2>0. TypeInv
    BY <1>1 DEF Inv
  <2>1. CASE UNCHANGED moneyVars
    <3> SUFFICES ASSUME NEW t \in Targets, Holdings(t)' < Holdings(t) PROVE FALSE
      OBVIOUS
    <3>1. Holdings(t)' = Holdings(t)
      BY <2>1 DEF moneyVars, Holdings
    <3>2. Holdings(t) \in Nat
      BY <2>0 DEF Holdings, TypeInv, TypeOK
    <3> QED BY <3>1, <3>2
  <2>2. ASSUME NEW t \in Targets, NEW u, UnbondAndCollect(t, u) PROVE Stay
    <3> SUFFICES ASSUME NEW s \in Targets, Frozen(s), Holdings(s)' < Holdings(s)
                 PROVE  vault' - vault = Holdings(s) - Holdings(s)'
      OBVIOUS
    <3>1. Holdings(s)' = liquid'[s] + staked'[s] + unbonding'[s]
      BY DEF Holdings
    <3>2. Holdings(s) \in Nat /\ vault \in Nat /\ vault' \in Nat
      BY <2>0, <2>2 DEF Holdings, TypeInv, TypeOK, UnbondAndCollect
    <3>3. IF s = t THEN Holdings(s)' = Holdings(s) - (vault' - vault) ELSE Holdings(s)' = Holdings(s)
      BY <2>0, <2>2, <3>1, CollectHoldings
    <3> QED BY <3>2, <3>3
  <2>3. ASSUME NEW t \in Targets, MoneyMoves(t) PROVE Stay
    <3> SUFFICES ASSUME NEW s \in Targets, Frozen(s), Holdings(s)' < Holdings(s)
                 PROVE  vault' - vault = Holdings(s) - Holdings(s)'
      OBVIOUS
    <3>1. Holdings(s)' = liquid'[s] + staked'[s] + unbonding'[s]
      BY DEF Holdings
    <3> QED BY <2>0, <2>3, <3>1, OwnHoldings
  <2> HIDE DEF Stay
  <2>4. CASE Next
    <3>1. \/ UNCHANGED moneyVars
          \/ \E t \in Targets : \E u : UnbondAndCollect(t, u)
          \/ \E t \in Targets : MoneyMoves(t)
      BY <1>1, <2>4, MoneyTouched
    <3> QED BY <2>1, <2>2, <2>3, <3>1
  <2> QED BY <1>1, <2>4
<1>2. Spec => [][Stay]_vars
  BY <1>1, AlwaysInv, PTL DEF Spec
<1> QED BY <1>2 DEF FrozenFundsStay

\* Enforcement neither makes money nor loses any: a step of the module, vote,
\* veto, deferral, sweep, reversal or restart, leaves every account and the
\* destination as they were, or takes some amount out of one account, pays that
\* amount to the destination and counts that amount as recovered (collect,
\* addRecovered), whatever part of the stake could not be unbonded.
CollectedOnly ==
  \/ \E t \in Targets : MoneyMoves(t)
  \/ vault' = vault /\ recovered' = recovered /\ \A s \in Targets : Holdings(s)' = Holdings(s)
  \/ \E t \in Targets, k \in Nat :
       /\ vault' = vault + k /\ recovered' = recovered + k
       /\ \A s \in Targets : Holdings(s)' = Holdings(s) - (IF s = t THEN k ELSE 0)
NothingIsLost == [][CollectedOnly]_vars

\* For every set of accounts, every seizure and every order of blocks,
\* messages and refused undelegations, nothing is lost.
THEOREM NothingEverLost == Spec => NothingIsLost
<1>1. ASSUME Inv, Next PROVE CollectedOnly
  <2>0. TypeInv
    BY <1>1 DEF Inv
  <2>1. CASE UNCHANGED <<moneyVars, recovered>>
    BY <2>1 DEF moneyVars, Holdings, CollectedOnly
  <2>2. ASSUME NEW t \in Targets, NEW u, UnbondAndCollect(t, u) PROVE CollectedOnly
    <3> DEFINE k == liquid[t]
    <3>1. /\ k \in Nat /\ vault \in Nat
          /\ vault' = vault + k /\ recovered' = recovered + k
      BY <2>0, <2>2 DEF UnbondAndCollect, TypeInv, TypeOK
    <3> HIDE DEF k
    <3>2. ASSUME NEW s \in Targets
          PROVE  Holdings(s)' = Holdings(s) - (IF s = t THEN k ELSE 0)
      <4>1. Holdings(s)' = liquid'[s] + staked'[s] + unbonding'[s]
        BY DEF Holdings
      <4>2. Holdings(s) \in Nat
        BY <2>0 DEF Holdings, TypeInv, TypeOK
      <4>3. IF s = t THEN Holdings(s)' = Holdings(s) - (vault' - vault) ELSE Holdings(s)' = Holdings(s)
        BY <2>0, <2>2, <4>1, CollectHoldings
      <4>4. vault' - vault = k
        BY <3>1
      <4> QED BY ONLY <4>2, <4>3, <4>4
    <3> QED BY <3>1, <3>2 DEF CollectedOnly
  <2>3. CASE \E t \in Targets : MoneyMoves(t)
    BY <2>3 DEF CollectedOnly
  <2> QED BY <1>1, <2>1, <2>2, <2>3, MoneyTouched
<1>2. Spec => [][CollectedOnly]_vars
  BY <1>1, AlwaysInv, PTL DEF Spec
<1> QED BY <1>2 DEF NothingIsLost

----------------------------------------------------------------------------
(* The rolling window *)

\* What a record of the ledger counts for is added up over finitely many.
LEMMA SumOfPart ==
  ASSUME NEW S, S \subseteq SeizureRecords, IsFiniteSet(S), NEW T \in SUBSET S
  PROVE  SumOf(S) \in Nat /\ SumOf(T) \in Nat /\ SumOf(T) <= SumOf(S)
<1> DEFINE f == [r \in S |-> r.amount]
           g == [r \in T |-> r.amount]
<1>1. SumOf(S) = SumFunctionOnSet(f, S) /\ SumOf(T) = SumFunctionOnSet(g, T)
  BY DEF SumOf
<1>2. (\A r \in S : f[r] \in Nat) /\ (\A r \in T : g[r] = f[r])
  BY DEF SeizureRecords
<1>3. IsFiniteSet(T)
  BY FS_Subset
<1> HIDE DEF f, g
<1>4. SumFunctionOnSet(g, T) = SumFunctionOnSet(f, T)
  BY <1>2, <1>3, SumCong
<1>5. SumFunctionOnSet(f, T) <= SumFunctionOnSet(f, S)
  BY <1>2, SumSubset
<1>6. SumFunctionOnSet(f, T) \in Nat /\ SumFunctionOnSet(f, S) \in Nat
  BY <1>2, <1>3, SumNat
<1> QED BY <1>1, <1>4, <1>5, <1>6

\* One more record.
LEMMA SumOfMore ==
  ASSUME NEW S, S \subseteq SeizureRecords, IsFiniteSet(S), NEW r \in SeizureRecords
  PROVE  SumOf(S \cup {r}) <= SumOf(S) + r.amount
<1>1. S \cup {r} \subseteq SeizureRecords /\ IsFiniteSet(S \cup {r}) /\ r.amount \in Nat
  BY FS_AddElement DEF SeizureRecords
<1>2. SumOf(S) \in Nat
  BY SumOfPart
<1>3. CASE r \in S
  <2>1. S \cup {r} = S
    BY <1>3
  <2>2. SumOf(S \cup {r}) = SumOf(S)
    BY <2>1, Zenon
  <2>3. SumOf(S) <= SumOf(S) + r.amount
    BY <1>1, <1>2
  <2> QED BY <2>2, <2>3, Zenon
<1>4. CASE r \notin S
  <2> DEFINE f == [x \in S |-> x.amount]
             g == [x \in S \cup {r} |-> x.amount]
  <2>1. SumOf(S) = SumFunctionOnSet(f, S) /\ SumOf(S \cup {r}) = SumFunctionOnSet(g, S \cup {r})
    BY DEF SumOf
  <2>2. g[r] = r.amount /\ (\A x \in S : g[x] = f[x]) /\ \A x \in S \cup {r} : g[x] \in Int
    BY <1>1 DEF SeizureRecords
  <2>3. (S \cup {r}) \ {r} = S
    BY <1>4
  <2> HIDE DEF f, g
  <2>4. SumFunctionOnSet(g, S \cup {r}) = g[r] + SumFunctionOnSet(g, (S \cup {r}) \ {r})
    BY <1>1, <2>2, SumRemove
  <2>5. SumFunctionOnSet(g, S) = SumFunctionOnSet(f, S)
    BY <2>2, SumCong
  <2>6. SumOf(S \cup {r}) = r.amount + SumOf(S)
    BY <2>1, <2>2, <2>3, <2>4, <2>5
  <2> QED BY <1>1, <1>2, <2>6
<1> QED BY <1>3, <1>4

\* A later block and a shorter window begin the window no earlier.
LEMMA WindowMoves ==
  ASSUME NEW p \in ParamSets, NEW q \in ParamSets, NEW h \in Nat, NEW k \in Nat,
         q.window <= p.window, h <= k
  PROVE  /\ WindowStartHeight(p, h) \in Nat /\ WindowStartHeight(q, k) \in Nat
         /\ WindowStartHeight(p, h) <= WindowStartHeight(q, k)
         /\ WindowStartHeight(p, h) <= h
BY DEF WindowStartHeight, ParamSets

\* Governance does not tighten the limits under seizures already carried out:
\* it lengthens no window and lowers neither the cap nor the count.
LimitsEased ==
  /\ params'.window <= params.window
  /\ params'.cap >= params.cap
  /\ params'.maxSeizures >= params.maxSeizures

\* Nobody pays an account that is frozen.
NobodyPaysFrozen == \A t \in Targets : Frozen(t) => Holdings(t)' <= Holdings(t)

\* Nobody pays during the delay, so a held seizure was assessed at no less than
\* what its target still holds.
AssessedInFull ==
  \A id \in CaseIds : cases[id].status = "held" => Holdings(cases[id].target) <= cases[id].assessed

WindowInv == IsFiniteSet(ledger) /\ WindowLimitsHold /\ AssessedInFull

\* The assessment of a case survives a step in which nobody pays.
LEMMA StepAssessed ==
  ASSUME Inv, TypeInv', AssessedInFull, NobodyPaysFrozen, Next
  PROVE  AssessedInFull'
<1> SUFFICES ASSUME NEW id \in CaseIds, cases'[id].status = "held"
             PROVE  \A t \in Targets : t = cases'[id].target => Holdings(t)' <= cases'[id].assessed
  <2>1. ASSUME NEW id \in CaseIds, cases'[id].status = "held" PROVE cases'[id].target \in Targets
    <3>1. IF id < caseSeq' THEN cases'[id].target \in Targets ELSE cases'[id] = NoCase
      BY DEF TypeInv, TypeOK
    <3> QED BY <2>1, <3>1 DEF NoCase
  <2> QED BY <2>1 DEF AssessedInFull, Holdings
<1> DEFINE c == cases[id]
           d == cases'[id]
<1>0. TypeInv /\ cases \in [CaseIds -> CaseRecords] /\ FreezeIsAnsweredFor
  BY Entries DEF Inv, Consistent, Agreement
<1>1. c.status \in Live /\ d.target = c.target /\ Holdings(c.target) <= d.assessed
  <2>1. CASE cases' = cases
    BY <2>1, Statuses DEF AssessedInFull
  <2>2. ASSUME NEW j \in CaseIds, NEW e, cases' = [cases EXCEPT ![j] = e], Written(cases[j], e)
        PROVE  c.status \in Live /\ d.target = c.target /\ Holdings(c.target) <= d.assessed
    <3>1. CASE j # id
      <4>1. d = c
        BY <1>0, <2>2, <3>1
      <4> QED BY <4>1, Statuses DEF AssessedInFull
    <3>2. CASE j = id
      <4>1. d = e
        BY <1>0, <2>2, <3>2
      <4>2. Decided(c, d) \/ Deferred(c, d)
        BY <2>2, <3>2, <4>1 DEF Written, CarriedOut
      <4>3. CASE Decided(c, d)
        <5>1. c.status \in Live /\ d.target = c.target /\ d.assessed = Holdings(d.target)
          BY <4>3, Statuses DEF Decided
        <5>2. c.target \in Targets
          BY <1>0, <5>1, Entries, Statuses
        <5>3. Holdings(c.target) \in Nat
          BY <1>0, <5>2 DEF Holdings, TypeInv, TypeOK
        <5> QED BY <5>1, <5>3
      <4>4. CASE Deferred(c, d)
        BY <4>4, Statuses DEF Deferred, AssessedInFull
      <4> QED BY <4>2, <4>3, <4>4
    <3> QED BY <3>1, <3>2
  <2> QED BY <2>1, <2>2, CaseWritten
<1>2. c.target \in Targets /\ Frozen(c.target)
  <2>1. c.target \in Targets /\ id # 0
    BY <1>0, <1>1, Entries, Statuses
  <2>2. freeze[c.target].case = id
    BY <1>0, <1>1 DEF FreezeIsAnsweredFor
  <2> QED BY <2>1, <2>2 DEF Frozen
<1> SUFFICES ASSUME NEW t \in Targets, t = d.target PROVE Holdings(t)' <= d.assessed
  OBVIOUS
<1>3. Frozen(t) /\ Holdings(t) <= d.assessed
  BY <1>1, <1>2
<1>4. Holdings(t)' <= Holdings(t)
  BY <1>3 DEF NobodyPaysFrozen
<1>5. Holdings(t) \in Nat /\ Holdings(t)' \in Nat
  BY <1>0 DEF Holdings, TypeInv, TypeOK
<1>6. d.assessed \in Nat
  BY DEF TypeInv, TypeOK, CaseRecords
<1> QED BY <1>3, <1>4, <1>5, <1>6

\* How a step writes the ledger: not at all, by pruning it as the height goes
\* up, or by one seizure the window admits.
LEMMA LedgerWritten ==
  ASSUME Inv, Next
  PROVE  \/ UNCHANGED <<ledger, history, height>>
         \/ /\ ledger' = InWindow(params, height) /\ height' = height + 1
            /\ UNCHANGED <<history, params>>
         \/ \E id \in CaseIds : \E r :
              /\ cases[id].status = "held" /\ AdmitSeizure(cases[id].assessed)
              /\ r.height = height
              /\ r.amount = IF cases[id].assessed >= liquid[cases[id].target]
                            THEN cases[id].assessed ELSE liquid[cases[id].target]
              /\ ledger' = ledger \cup {r} /\ history' = history \cup {r}
              /\ UNCHANGED <<params, height>>
<1>1. CASE ExecuteDue
  <2> DEFINE id == FirstDue[2]
  <2>1. id \in CaseIds
    BY <1>1, FirstDueIsDue DEF ExecuteDue, Inv, TypeInv, TypeOK
  <2>2. /\ UNCHANGED <<params, height>>
        /\ \/ UNCHANGED <<ledger, history>>
           \/ cases[id].status = "held" /\ AdmitSeizure(cases[id].assessed) /\ \E u : CarryOut(id, u)
    BY <1>1 DEF ExecuteDue, tallyVars
  <2> HIDE DEF id
  <2>3. ASSUME NEW u, CarryOut(id, u)
        PROVE  \E r : /\ r.height = height
                      /\ r.amount = IF cases[id].assessed >= liquid[cases[id].target]
                                    THEN cases[id].assessed ELSE liquid[cases[id].target]
                      /\ ledger' = ledger \cup {r} /\ history' = history \cup {r}
    <3> DEFINE amount == IF cases[id].assessed >= liquid[cases[id].target]
                         THEN cases[id].assessed ELSE liquid[cases[id].target]
               r == [height |-> height, case |-> id, amount |-> amount]
    <3>1. ledger' = ledger \cup {r} /\ history' = history \cup {r}
      BY <2>3 DEF CarryOut
    <3>2. r.height = height /\ r.amount = amount
      OBVIOUS
    <3> HIDE DEF r
    <3> QED BY <3>1, <3>2
  <2> QED BY <2>1, <2>2, <2>3
<1>2. CASE EndBlockFinish
  BY <1>2 DEF EndBlockFinish, Pruned
<1>3. ASSUME Messages \/ Governance \/ Surroundings \/ ExportAndImport
      PROVE  UNCHANGED <<ledger, history, height>>
  BY <1>3, MessageFrame, OutsideFrame
<1>4. CASE EndBlockStart \/ ResolveDue \/ ExecuteStart
  BY <1>4 DEF EndBlockStart, ResolveDue, ExecuteStart, tallyVars
<1> QED BY <1>1, <1>2, <1>3, <1>4 DEF Next, EndBlocker

\* A window that lost records is within limits that were not tightened.
LEMMA FewerRecords ==
  ASSUME NEW W, W \subseteq SeizureRecords, IsFiniteSet(W), NEW V \in SUBSET W,
         NEW n \in Nat, NEW c \in Nat, NEW m \in Nat, NEW b \in Nat,
         Cardinality(W) <= n, SumOf(W) <= c, n <= m, c <= b
  PROVE  Cardinality(V) <= m /\ SumOf(V) <= b
<1>1. Cardinality(V) <= Cardinality(W) /\ Cardinality(W) \in Nat /\ Cardinality(V) \in Nat
  BY FS_Subset, FS_CardinalityType
<1>2. SumOf(V) <= SumOf(W) /\ SumOf(W) \in Nat /\ SumOf(V) \in Nat
  BY SumOfPart
<1> QED BY <1>1, <1>2

LEMMA StepWindow ==
  ASSUME Inv, TypeInv', WindowInv, LimitsEased, NobodyPaysFrozen, Next
  PROVE  WindowInv'
<1> DEFINE W == InWindow(params, height)
           start == WindowStartHeight(params, height)
           V == {r \in ledger' : r.height >= WindowStartHeight(params', height')}
           seen == {r \in history' : r.height >= WindowStartHeight(params', height')}
<1>0. /\ TypeInv /\ params \in ParamSets /\ params' \in ParamSets
      /\ height \in Nat /\ height' \in Nat
      /\ ledger \subseteq SeizureRecords /\ ledger' \subseteq SeizureRecords
      /\ history \subseteq SeizureRecords
      /\ \A r \in history : r.height \in Nat
  BY DEF Inv, TypeInv, TypeOK, SeizureRecords
<1>1. /\ Cardinality(W) <= params.maxSeizures /\ SumOf(W) <= params.cap
      /\ {r \in history : r.height >= start} \subseteq ledger
      /\ IsFiniteSet(ledger) /\ AssessedInFull
  BY DEF WindowInv, WindowLimitsHold
<1>2. /\ params.maxSeizures \in Nat /\ params'.maxSeizures \in Nat
      /\ params.cap \in Nat /\ params'.cap \in Nat
      /\ params.maxSeizures <= params'.maxSeizures /\ params.cap <= params'.cap
      /\ params'.window <= params.window
  BY <1>0 DEF ParamSets, LimitsEased
<1>3. W \subseteq ledger /\ W \subseteq SeizureRecords /\ IsFiniteSet(W)
  BY <1>0, <1>1, FS_Subset DEF InWindow
<1>4. AssessedInFull'
  BY <1>1, StepAssessed
<1>5. SUFFICES IsFiniteSet(ledger') /\ Cardinality(V) <= params'.maxSeizures /\ SumOf(V) <= params'.cap
               /\ seen \subseteq ledger'
  <2>1. InWindow(params, height)' = V
    BY DEF InWindow
  <2>2. SumOf(InWindow(params, height))' = SumOf(V)
    BY <2>1 DEF SumOf
  <2> HIDE DEF V, W
  <2> QED BY <1>4, <1>5, <2>1, <2>2 DEF WindowInv, WindowLimitsHold
<1>6. CASE height' \in {height, height + 1}
  <2>1. /\ start \in Nat /\ WindowStartHeight(params', height') \in Nat
        /\ start <= WindowStartHeight(params', height') /\ start <= height
    BY <1>0, <1>2, <1>6, WindowMoves
  <2> HIDE DEF start
  <2>2. CASE UNCHANGED <<ledger, history, height>>
    <3>1. V \subseteq W /\ seen \subseteq ledger' /\ ledger' = ledger
      BY <1>0, <1>1, <2>1, <2>2 DEF InWindow, start, SeizureRecords
    <3> HIDE DEF V, W, seen
    <3> QED BY <1>1, <1>2, <1>3, <3>1, FewerRecords
  <2>3. CASE ledger' = W /\ UNCHANGED <<history, params>>
    <3>1. V \subseteq W
      BY <2>3
    <3>2. seen \subseteq {r \in history : r.height >= start}
      BY <1>0, <2>1, <2>3
    <3>3. seen \subseteq ledger'
      BY <1>1, <2>1, <2>3, <3>2 DEF InWindow, start
    <3> HIDE DEF V, W, seen
    <3> QED BY <1>1, <1>2, <1>3, <2>3, <3>1, <3>3, FewerRecords
  <2>4. ASSUME NEW id \in CaseIds, NEW r,
               cases[id].status = "held", AdmitSeizure(cases[id].assessed), r.height = height,
               r.amount = IF cases[id].assessed >= liquid[cases[id].target]
                          THEN cases[id].assessed ELSE liquid[cases[id].target],
               ledger' = ledger \cup {r}, history' = history \cup {r}, UNCHANGED <<params, height>>
        PROVE  IsFiniteSet(ledger') /\ Cardinality(V) <= params'.maxSeizures /\ SumOf(V) <= params'.cap
               /\ seen \subseteq ledger'
    <3>1. V = W \cup {r} /\ r \in SeizureRecords
      BY <1>0, <2>1, <2>4 DEF InWindow, start
    <3>2. IsFiniteSet(ledger') /\ seen \subseteq ledger'
      BY <1>1, <2>4, FS_AddElement DEF start
    <3>3. cases[id].target \in Targets /\ cases[id].assessed \in Nat
      BY <1>0, <2>4, Entries DEF CaseRecords
    <3>4. r.amount = cases[id].assessed
      <4>1. Holdings(cases[id].target) <= cases[id].assessed
        BY <1>1, <2>4 DEF AssessedInFull
      <4>2. /\ liquid[cases[id].target] \in Nat /\ staked[cases[id].target] \in Nat
            /\ unbonding[cases[id].target] \in Nat
        BY <1>0, <3>3 DEF TypeInv, TypeOK
      <4>3. liquid[cases[id].target] <= cases[id].assessed
        BY <3>3, <4>1, <4>2 DEF Holdings
      <4> QED BY <2>4, <3>3, <4>2, <4>3
    <3>5. Cardinality(V) <= params.maxSeizures
      <4>1. Cardinality(W) < params.maxSeizures
        BY <2>4 DEF AdmitSeizure
      <4>2. Cardinality(W) \in Nat /\ Cardinality(V) <= Cardinality(W) + 1 /\ Cardinality(V) \in Nat
        <5> HIDE DEF W, V
        <5>1. IsFiniteSet(V) /\ Cardinality(V) = IF r \in W THEN Cardinality(W) ELSE Cardinality(W) + 1
          BY <1>3, <3>1, FS_AddElement
        <5>2. Cardinality(W) \in Nat
          BY <1>3, FS_CardinalityType
        <5>3. Cardinality(V) \in Nat
          BY <5>1, FS_CardinalityType
        <5> QED BY <5>1, <5>2, <5>3
      <4> HIDE DEF W, V
      <4> QED BY <1>2, <4>1, <4>2
    <3>6. SumOf(V) <= params.cap
      <4>1. r.amount > 0 => SumOf(W) + r.amount <= params.cap
        BY <2>4, <3>4 DEF AdmitSeizure
      <4> HIDE DEF W, V
      <4>2. SumOf(V) <= SumOf(W) + r.amount
        BY <1>3, <3>1, SumOfMore
      <4>3. SumOf(W) \in Nat
        BY <1>3, SumOfPart
      <4>4. SumOf(V) \in Nat
        <5>1. IsFiniteSet(V) /\ V \subseteq SeizureRecords
          BY <1>3, <3>1, FS_AddElement
        <5> QED BY <5>1, SumOfPart
      <4>5. SumOf(W) + r.amount <= params.cap
        BY <1>1, <1>2, <3>3, <3>4, <4>1, <4>3
      <4> QED BY <1>2, <3>3, <3>4, <4>2, <4>3, <4>4, <4>5
    <3> QED BY <2>4, <3>2, <3>5, <3>6
  <2> HIDE DEF V, W, seen
  <2> QED BY <1>6, <2>2, <2>3, <2>4, LedgerWritten DEF W
<1>7. height' \in {height, height + 1}
  BY LedgerWritten
<1> QED BY <1>6, <1>7

LEMMA InitWindow == Init => WindowInv
<1> SUFFICES ASSUME Init PROVE WindowInv
  OBVIOUS
<1>1. ledger = {} /\ history = {} /\ \A id \in CaseIds : cases[id].status = "unopened"
  BY DEF Init, NoCase
<1>2. params.cap \in Nat /\ params.maxSeizures \in Nat
  BY SetAssumption DEF Init, ParamSets
<1>3. InWindow(params, height) = {}
  BY <1>1 DEF InWindow
<1>4. Cardinality({}) = 0 /\ IsFiniteSet({})
  BY FS_EmptySet
<1>5. SumOf({}) = 0
  BY SumEmpty DEF SumOf
<1> QED BY <1>1, <1>2, <1>3, <1>4, <1>5 DEF WindowInv, WindowLimitsHold, AssessedInFull

\* As long as nobody pays an account whose seizure waits, and governance does
\* not tighten the limits under what was already carried out, no rolling window
\* holds more seizures, or more value, than its parameters allow, and pruning
\* loses no seizure a window still counts: for every number of cases due in one
\* block, every deferral and every order of blocks and messages.
THEOREM WindowLimitsAlwaysHold ==
  Spec /\ [][LimitsEased /\ NobodyPaysFrozen]_vars => []WindowLimitsHold
<1>1. ASSUME Inv, Inv', WindowInv, [Next]_vars, [LimitsEased /\ NobodyPaysFrozen]_vars PROVE WindowInv'
  <2>1. CASE UNCHANGED vars
    <3>1. UNCHANGED <<params, height, ledger, history, cases, liquid, staked, unbonding>>
      BY <2>1 DEF vars, blockVars, tallyVars, moneyVars
    <3>2. InWindow(params, height)' = InWindow(params, height)
      BY <3>1 DEF InWindow
    <3>3. SumOf(InWindow(params, height))' = SumOf(InWindow(params, height))
      BY <3>2 DEF SumOf
    <3>4. WindowLimitsHold'
      BY <1>1, <3>1, <3>2, <3>3 DEF WindowInv, WindowLimitsHold
    <3>5. AssessedInFull'
      BY <1>1, <3>1 DEF WindowInv, AssessedInFull, Holdings
    <3> QED BY <1>1, <3>1, <3>4, <3>5 DEF WindowInv
  <2>2. CASE Next /\ LimitsEased /\ NobodyPaysFrozen
    BY <1>1, <2>2, StepWindow DEF Inv
  <2> QED BY <1>1, <2>1, <2>2
<1>2. Spec /\ [][LimitsEased /\ NobodyPaysFrozen]_vars => []WindowInv
  BY <1>1, InitWindow, AlwaysInv, PTL DEF Spec
<1>3. WindowInv => WindowLimitsHold
  BY DEF WindowInv
<1> QED BY <1>2, <1>3, PTL

=============================================================================
