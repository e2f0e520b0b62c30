------------------------------ MODULE Custody -------------------------------
(* x/custody: claims on assets that are held on other chains.                *)
(*                                                                           *)
(* Attestors say what was deposited and what is held in reserve.  When       *)
(* enough of them name the same deposit a claim is minted, as long as the    *)
(* reserve covers it; a redemption burns claims at once and is paid on the   *)
(* other chain later, which attestors confirm.                               *)
(*                                                                           *)
(* A handler that returns an error leaves no trace, whatever it wrote before *)
(* it returned.  The recipient of a deposit is part of what its amount       *)
(* stands for: attestors agree on both or on neither.  Who holds claims is   *)
(* left out, and so is the age published beside a reserve.  Only a genesis   *)
(* file can pause an asset, and none here does.                              *)
EXTENDS Integers, FiniteSets, FiniteSetsExt, Functions

CONSTANTS
  Denoms,          \* assets of other chains
  Refs,            \* transactions there that deposit
  Payouts,         \* transactions there that pay a redemption
  AttestorIds,     \* who may be an attestor
  Amounts,         \* amounts of deposits and redemptions
  Holdings,        \* what an attestor may say is held
  ParamChoices,    \* parameters governance may propose
  GenesisParams,   \* parameters of the genesis file
  None,            \* an absent entry
  MaxRedemptions,  \* bound: redemptions requested
  MaxHeight        \* bound: blocks

ValidateParams(p) ==
  p.threshold >= 2 /\ p.feeBps <= 1000 /\ p.maxAge > 0

ParamSets == [threshold : Nat, delay : Nat, feeBps : Nat, maxAge : Nat]
Reports == [held : Nat, asOf : Nat]
Deposits == [amount : Nat \ {0}, status : {"pending", "credited"}]
Redemptions == [denom : Denoms, amount : Nat, status : {"pending", "settled"},
                payableAt : Nat, settledRef : Payouts \cup {None}]

ASSUME CustodyAssumption ==
  /\ IsFiniteSet(Denoms) /\ IsFiniteSet(Refs) /\ IsFiniteSet(AttestorIds)
  /\ Amounts \subseteq Nat \ {0} /\ Holdings \subseteq Nat
  /\ ParamChoices \subseteq ParamSets
  /\ GenesisParams \in ParamSets /\ ValidateParams(GenesisParams)
  /\ MaxRedemptions \in Nat /\ MaxHeight \in Nat \ {0}

ASSUME NoneAssumption == None \notin Nat \cup Reports \cup Deposits \cup Redemptions

VARIABLES
  params, assets, attestors,
  deposits,       \* by asset and transaction
  attestations,   \* who attested a deposit
  externalRefs,   \* the deposits that were credited
  redemptions,    \* by number
  redeemSeq,
  confirmations,  \* who confirmed a redemption; the same collection as
                  \* attestations, under ids that cannot meet
  reports,        \* what each attestor last said is held, and when
  reserves,       \* the figure published for each asset
  height,
  claims,         \* claims in anybody's hands
  fees,           \* claims in the module account
  confirmed       \* history: the confirmations attestors have sent

registerVars == <<params, assets, attestors>>
depositVars == <<deposits, attestations, externalRefs>>
redemptionVars == <<redemptions, redeemSeq, confirmations, confirmed>>
reserveVars == <<reports, reserves>>
moneyVars == <<claims, fees>>
vars == <<registerVars, depositVars, redemptionVars, reserveVars, moneyVars, height>>

DepositIds == Denoms \X Refs
RedemptionIds == 1 .. MaxRedemptions

Init ==
  /\ params = GenesisParams /\ assets = {} /\ attestors = {}
  /\ deposits = [id \in DepositIds |-> None] /\ attestations = {} /\ externalRefs = {}
  /\ redemptions = [n \in RedemptionIds |-> None] /\ redeemSeq = 0 /\ confirmations = {}
  /\ reports = [d \in Denoms |-> [a \in AttestorIds |-> None]]
  /\ reserves = [d \in Denoms |-> None]
  /\ height = 1
  /\ claims = [d \in Denoms |-> 0] /\ fees = [d \in Denoms |-> 0]
  /\ confirmed = {}

\* The module's cut, rounded up.
fee(amount) ==
  LET f == (amount * params.feeBps + 9999) \div 10000 IN IF f > amount THEN amount ELSE f

issued(d) == claims[d] + fees[d]
----------------------------------------------------------------------------
(* Governance. *)

RegisterAsset(d) ==
  /\ d \notin assets
  /\ assets' = assets \cup {d}
  /\ UNCHANGED <<params, attestors, depositVars, redemptionVars, reserveVars, moneyVars,
                 height>>

SetAttestor(a, active) ==
  /\ attestors' = IF active THEN attestors \cup {a} ELSE attestors \ {a}
  /\ UNCHANGED <<params, assets, depositVars, redemptionVars, reserveVars, moneyVars, height>>

UpdateParams(p) ==
  /\ ValidateParams(p)
  /\ params' = p
  /\ UNCHANGED <<assets, attestors, depositVars, redemptionVars, reserveVars, moneyVars,
                 height>>

\* The fees the module has earned become claims like any other; asking for
\* nothing pays all of them out.
WithdrawFees(d, amount) ==
  LET paid == IF amount = 0 THEN fees[d] ELSE amount IN
  /\ d \in assets
  /\ 0 < paid /\ paid <= fees[d]
  /\ fees' = [fees EXCEPT ![d] = @ - paid]
  /\ claims' = [claims EXCEPT ![d] = @ + paid]
  /\ UNCHANGED <<registerVars, depositVars, redemptionVars, reserveVars, height>>
----------------------------------------------------------------------------
(* Reserves. *)

\* The reports that count: recent ones, of attestors still on the register.
Standing(d) ==
  {a \in attestors : reports'[d][a] # None /\ reports'[d][a].asOf >= height - params.maxAge}

\* Fault: any one report is enough to publish a figure.
recomputeReserve_Any(d) ==
  IF Standing(d) = {} THEN None ELSE Min({reports'[d][a].held : a \in Standing(d)})

\* The lowest of enough reports, or no figure at all.
recomputeReserve(d) ==
  IF Cardinality(Standing(d)) < params.threshold THEN None
  ELSE Min({reports'[d][a].held : a \in Standing(d)})

ReportReserve(a, d, held) ==
  /\ a \in attestors /\ d \in assets
  /\ reports' = [reports EXCEPT ![d][a] = [held |-> held, asOf |-> height]]
  /\ reserves' = [reserves EXCEPT ![d] = recomputeReserve(d)]
  /\ UNCHANGED <<registerVars, depositVars, redemptionVars, moneyVars, height>>
----------------------------------------------------------------------------
(* Deposits. *)

\* credit: the whole amount is minted, the fee stays in the module account.
credit(d, amount) ==
  /\ reserves[d] # None
  /\ issued(d) + amount <= reserves[d]
  /\ claims' = [claims EXCEPT ![d] = @ + (amount - fee(amount))]
  /\ fees' = [fees EXCEPT ![d] = @ + fee(amount)]

Attested(id) == {b \in AttestorIds : <<id, b>> \in attestations}

Recorded(id, amount, status) ==
  deposits' = [deposits EXCEPT ![id] = [amount |-> amount, status |-> status]]

\* One attestor's word; whoever names another amount than the first is refused.
\* A claim the reserve does not cover fails the message, this word included.
AttestDeposit(a, id, amount) ==
  /\ a \in attestors /\ id[1] \in assets
  /\ id \notin externalRefs
  /\ deposits[id] # None => deposits[id] = [amount |-> amount, status |-> "pending"]
  /\ <<id, a>> \notin attestations
  /\ attestations' = attestations \cup {<<id, a>>}
  /\ IF Cardinality(Attested(id)) + 1 >= params.threshold
     THEN /\ credit(id[1], amount)
          /\ externalRefs' = externalRefs \cup {id}
          /\ Recorded(id, amount, "credited")
     ELSE /\ Recorded(id, amount, "pending")
          /\ UNCHANGED <<claims, fees, externalRefs>>
  /\ UNCHANGED <<registerVars, redemptionVars, reserveVars, height>>
----------------------------------------------------------------------------
(* Redemptions. *)

\* Fault: the claim stays in circulation until the redemption is paid.
burnt_WhenPaid(amount) == 0

\* What a redemption takes out of circulation.
burnt(amount) == amount

\* The claim is burned now, and what is owed for it is net of the fee.
RequestRedemption(d, amount) ==
  /\ d \in assets
  /\ claims[d] >= amount
  /\ redeemSeq < MaxRedemptions
  /\ claims' = [claims EXCEPT ![d] = @ - burnt(amount)]
  /\ redeemSeq' = redeemSeq + 1
  /\ redemptions' = [redemptions EXCEPT ![redeemSeq'] =
       [denom |-> d, amount |-> amount - fee(amount), status |-> "pending",
        payableAt |-> height + params.delay, settledRef |-> None]]
  /\ UNCHANGED <<registerVars, depositVars, reserveVars, fees, confirmations, confirmed, height>>

Confirmed(n) == {b \in AttestorIds : <<n, b>> \in confirmations}

\* An attestor confirms that a redemption was paid.  Below the threshold the
\* handler stores the confirmation and returns an error, which takes it back.
SettleRedemption(a, n, ref) ==
  LET r == redemptions[n] IN
  /\ a \in attestors
  /\ r # None /\ r.status = "pending" /\ height >= r.payableAt
  /\ r.settledRef \in {None, ref}
  /\ <<n, a>> \notin confirmations
  /\ confirmed' = confirmed \cup {<<n, a, ref>>}
  /\ IF Cardinality(Confirmed(n)) + 1 < params.threshold
     THEN UNCHANGED <<redemptions, confirmations>>
     ELSE /\ redemptions' = [redemptions EXCEPT ![n].status = "settled", ![n].settledRef = ref]
          /\ confirmations' = confirmations \cup {<<n, a>>}
  /\ UNCHANGED <<registerVars, depositVars, redeemSeq, reserveVars, moneyVars, height>>
----------------------------------------------------------------------------
(* Blocks and restarts. *)

NextBlock ==
  /\ height < MaxHeight
  /\ height' = height + 1
  /\ UNCHANGED <<registerVars, depositVars, redemptionVars, reserveVars, moneyVars>>

Credited(id) == deposits[id] # None /\ deposits[id].status = "credited"

\* What an import refuses: too few attestors, a redemption that owes nothing,
\* a report of somebody who is not an attestor.
Validate ==
  /\ attestors # {} => Cardinality(attestors) >= params.threshold
  /\ \A n \in RedemptionIds : redemptions[n] # None => redemptions[n].amount > 0
  /\ \A d \in Denoms, a \in AttestorIds : reports[d][a] # None => a \in attestors

\* The chain stops and is started from its export, which holds no attestation;
\* spent references and reserves are worked out again.
ExportAndImport ==
  /\ Validate
  /\ attestations' = {} /\ confirmations' = {}
  /\ externalRefs' = {id \in DepositIds : Credited(id)}
  /\ reports' = reports
  /\ reserves' = [d \in Denoms |-> IF \A a \in AttestorIds : reports[d][a] = None THEN None
                                   ELSE recomputeReserve(d)]
  /\ UNCHANGED <<registerVars, deposits, redemptions, redeemSeq, confirmed, moneyVars,
                 height>>

Next ==
  \/ \E d \in Denoms : \/ RegisterAsset(d)
                       \/ \E amount \in Amounts \cup {0} : WithdrawFees(d, amount)
                       \/ \E amount \in Amounts : RequestRedemption(d, amount)
                       \/ \E a \in AttestorIds, held \in Holdings : ReportReserve(a, d, held)
  \/ \E a \in AttestorIds : \/ \E active \in BOOLEAN : SetAttestor(a, active)
                            \/ \E id \in DepositIds, amount \in Amounts : AttestDeposit(a, id, amount)
                            \/ \E n \in RedemptionIds, ref \in Payouts : SettleRedemption(a, n, ref)
  \/ \E p \in ParamChoices : UpdateParams(p)
  \/ NextBlock \/ ExportAndImport

Spec == Init /\ [][Next]_vars
----------------------------------------------------------------------------
CreditOf(d) == [x \in Refs |-> IF Credited(<<d, x>>) THEN deposits[<<d, x>>].amount ELSE 0]
DebtOf(d) ==
  [n \in RedemptionIds |-> IF redemptions[n] # None /\ redemptions[n].denom = d
                           THEN redemptions[n].amount ELSE 0]

\* Claims in circulation, fees, and what redemptions owe on the other chain
\* come to no more than was deposited there, each deposit counted once however
\* often it is attested and the chain restarted, which forgets who attested it
\* (AttestDeposit, credit, RequestRedemption, fee, InitGenesis).
OwedIsDeposited ==
  \A d \in Denoms :
    issued(d) + SumFunctionOnSet(DebtOf(d), RedemptionIds) <= SumFunctionOnSet(CreditOf(d), Refs)

\* More is issued only up to what two attestors at least have each said is
\* held (recomputeReserve, credit).
IssuedIsReported ==
  [][\A d \in Denoms : issued(d)' > issued(d) =>
       \E a, b \in AttestorIds :
         /\ a # b /\ reports[d][a] # None /\ reports[d][b] # None
         /\ issued(d)' <= reports[d][a].held /\ issued(d)' <= reports[d][b].held]_vars

\* A redemption that enough attestors have confirmed with one reference is
\* settled: a confirmation below the threshold is "recorded, not settled"
\* and stands "for the next attestor to confirm" (SettleRedemption).
ConfirmedIsSettled ==
  \A n \in RedemptionIds, ref \in Payouts :
    Cardinality({a \in AttestorIds : <<n, a, ref>> \in confirmed}) >= params.threshold =>
      redemptions[n].status = "settled"
=============================================================================
