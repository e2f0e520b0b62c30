-------------------------------- MODULE Land --------------------------------
(* x/land: who holds a parcel of land, and how title moves.                  *)
(*                                                                           *)
(* The holder proposes a transfer, the office that keeps the parcel's file   *)
(* validates it, other offices attest it, anybody may object while a window  *)
(* is open, and after it anybody may complete it.  The office may freeze a   *)
(* parcel, governance admits offices and sets the quorum and the window, and *)
(* the perimeter in which an office may act is another module's to move.     *)
(*                                                                           *)
(* A reason is a text that must not be empty, and is never given empty here. *)
(* ByGeometry and ByRef hold what the parcels say, and are read that way.    *)
(* Deeds, encumbrances, restrictions and permissions to fractionalise are    *)
(* left out: no transfer reads them.  A restart restores every record.       *)
EXTENDS Integers, Sequences, FiniteSets, FiniteSetsExt, Functions

CONSTANTS
  People,         \* who may hold land
  Offices,        \* registry offices
  Grounds,        \* survey hashes
  References,     \* cadastral references
  GenesisOffices, \* the offices of the genesis file, active and granted
  GenesisParams,  \* parameters of the genesis file
  ParamChoices,   \* parameters governance may propose
  NoOffice,       \* the validator of a transfer nobody validated
  OfficeMoves,    \* bound: the offices governance and x/alias move
  MaxTransfers,   \* bound: transfers proposed
  MaxFreezes,     \* bound: freezes of one parcel
  MaxTime         \* bound: block time

Validate(p) == p.quorum > 0 /\ p.window > 0

ParamSets == [quorum : Nat, window : Int, sameAuthority : BOOLEAN]

ASSUME LandAssumption ==
  /\ IsFiniteSet(Offices) /\ GenesisOffices \cup OfficeMoves \subseteq Offices /\ NoOffice \notin Offices
  /\ ParamChoices \subseteq ParamSets
  /\ GenesisParams \in ParamSets /\ Validate(GenesisParams)
  /\ MaxTransfers \in Nat /\ MaxFreezes \in Nat /\ MaxTime \in Nat \ {0}

VARIABLES
  params,
  active,     \* offices with an active record
  scoped,     \* offices x/alias has granted the role where they sit
  parcels,    \* by number; the first is 1, as in the code
  transfers,  \* by number
  now         \* block time

officeVars == <<active, scoped>>
vars == <<params, officeVars, parcels, transfers, now>>

Init ==
  /\ params = GenesisParams
  /\ active = GenesisOffices /\ scoped = GenesisOffices
  /\ parcels = <<>> /\ transfers = <<>>
  /\ now = 1
----------------------------------------------------------------------------
(* Offices and parameters. *)

activeAuthority(o) == o \in active /\ o \in scoped

RegisterAuthority(o, activate) ==
  /\ o \in OfficeMoves
  /\ active' = IF activate THEN active \cup {o} ELSE active \ {o}
  /\ UNCHANGED <<params, scoped, parcels, transfers, now>>

\* x/alias grants an office the role in its jurisdiction, or takes it away:
\* GrantRole or RevokeRole, whoever is entitled to sign it, and the shape an
\* office has to keep, which AssertScopeIn looks at whenever it acts.
MoveScope(o) ==
  /\ o \in OfficeMoves
  /\ scoped' = IF o \in scoped THEN scoped \ {o} ELSE scoped \cup {o}
  /\ UNCHANGED <<params, active, parcels, transfers, now>>

UpdateParams(p) ==
  /\ Validate(p)
  /\ params' = p
  /\ UNCHANGED <<officeVars, parcels, transfers, now>>
----------------------------------------------------------------------------
(* Parcels. *)

\* One title over the same ground, and one file under the same reference.
RegisterParcel(o, ground, ref, holder) ==
  /\ activeAuthority(o)
  /\ \A p \in DOMAIN parcels : parcels[p].ground # ground /\ parcels[p].ref # ref
  /\ parcels' = Append(parcels, [ground |-> ground, ref |-> ref, holder |-> holder,
                                 office |-> o, status |-> "registered", freezes |-> <<>>])
  /\ UNCHANGED <<params, officeVars, transfers, now>>

ownParcel(o, p) == activeAuthority(o) /\ o = parcels[p].office

\* A freeze is recorded whatever the status was before; entries are marked
\* lifted and never removed.
FreezeParcel(o, p) ==
  /\ ownParcel(o, p)
  /\ Len(parcels[p].freezes) < MaxFreezes
  /\ parcels' = [parcels EXCEPT ![p].status = "frozen",
                                ![p].freezes = Append(@, [lifted |-> FALSE])]
  /\ UNCHANGED <<params, officeVars, transfers, now>>

\* The freezes nobody has lifted; the last one is the one in force.
Standing(p) == {i \in DOMAIN parcels[p].freezes : ~parcels[p].freezes[i].lifted}

\* Lifting goes back to registered, whatever the parcel was when it was frozen.
UnfreezeParcel(o, p) ==
  /\ ownParcel(o, p)
  /\ parcels[p].status = "frozen"
  /\ parcels' = [parcels EXCEPT ![p].status = "registered",
       ![p].freezes = [i \in DOMAIN @ |->
         IF Standing(p) # {} /\ i = Max(Standing(p)) THEN [@[i] EXCEPT !.lifted = TRUE]
         ELSE @[i]]]
  /\ UNCHANGED <<params, officeVars, transfers, now>>
----------------------------------------------------------------------------
(* Transfers. *)

\* Fault: a sale that is under way stops nobody.
transferable_NotStopped(p) == parcels[p].status \notin {"frozen", "disputed"}

\* Fault: a freeze stops no proposal.
transferable_Frozen(p) == parcels[p].status \in {"registered", "frozen"}

transferable(p) == parcels[p].status = "registered"

\* The holder opens a transfer.
ProposeTransfer(p, to) ==
  /\ transferable(p)
  /\ to # parcels[p].holder
  /\ Len(transfers) < MaxTransfers
  /\ transfers' = Append(transfers,
       [parcel |-> p, from |-> parcels[p].holder, to |-> to, validatedBy |-> NoOffice,
        attestors |-> <<>>, quorumAt |-> 0, objected |-> FALSE, completedAt |-> 0])
  /\ parcels' = [parcels EXCEPT ![p].status = "transfer_pending"]
  /\ UNCHANGED <<params, officeVars, now>>

\* A transfer there is, and neither completed nor objected to.
pending(t) ==
  t \in DOMAIN transfers /\ transfers[t].completedAt = 0 /\ ~transfers[t].objected

ParcelOf(t) == parcels[transfers[t].parcel]

ValidateTransfer(o, t) ==
  /\ pending(t)
  /\ activeAuthority(o) /\ o = ParcelOf(t).office
  /\ transfers[t].validatedBy = NoOffice
  /\ transfers' = [transfers EXCEPT ![t].validatedBy = o]
  /\ UNCHANGED <<params, officeVars, parcels, now>>

\* Fault: an office may say the same thing again.
mayAttest_Twice(o, t) ==
  activeAuthority(o) /\ (params.sameAuthority \/ o # ParcelOf(t).office)

\* One office, one attestation, and none of the office that keeps the file.
mayAttest(o, t) ==
  /\ activeAuthority(o)
  /\ params.sameAuthority \/ o # ParcelOf(t).office
  /\ o \notin Range(transfers[t].attestors)

\* The window starts with the attestation that makes the quorum.
AttestTransfer(o, t) ==
  /\ pending(t)
  /\ mayAttest(o, t)
  /\ transfers' = [transfers EXCEPT
       ![t].attestors = Append(@, o),
       ![t].quorumAt = IF @ = 0 /\ Len(transfers[t].attestors) + 1 >= params.quorum
                       THEN now ELSE @]
  /\ UNCHANGED <<params, officeVars, parcels, now>>

\* Anybody objects.
Object(t) ==
  /\ pending(t)
  /\ transfers' = [transfers EXCEPT ![t].objected = TRUE]
  /\ parcels' = [parcels EXCEPT ![transfers[t].parcel].status = "disputed"]
  /\ UNCHANGED <<params, officeVars, now>>

Agreed(t) ==
  /\ pending(t)
  /\ transfers[t].validatedBy # NoOffice
  /\ Len(transfers[t].attestors) >= params.quorum
  /\ transfers[t].quorumAt # 0

\* Fault: the last step needs an office that is in business.
ripe_Official(t) ==
  Agreed(t) /\ now >= transfers[t].quorumAt + params.window /\ activeAuthority(ParcelOf(t).office)

ripe(t) == Agreed(t) /\ now >= transfers[t].quorumAt + params.window

\* Anybody completes a transfer that has met every condition; the status of
\* the parcel is not one.
CompleteTransfer(t) ==
  /\ ripe(t)
  /\ parcels' = [parcels EXCEPT ![transfers[t].parcel].holder = transfers[t].to,
                                ![transfers[t].parcel].status = "registered"]
  /\ transfers' = [transfers EXCEPT ![t].completedAt = now]
  /\ UNCHANGED <<params, officeVars, now>>

NextBlock ==
  /\ now < MaxTime
  /\ now' = now + 1
  /\ UNCHANGED <<params, officeVars, parcels, transfers>>

Next ==
  \/ \E o \in Offices :
       \/ \E activate \in BOOLEAN : RegisterAuthority(o, activate)
       \/ MoveScope(o)
       \/ \E g \in Grounds, r \in References, h \in People : RegisterParcel(o, g, r, h)
       \/ \E p \in DOMAIN parcels : FreezeParcel(o, p) \/ UnfreezeParcel(o, p)
       \/ \E t \in DOMAIN transfers : ValidateTransfer(o, t) \/ AttestTransfer(o, t)
  \/ \E p \in DOMAIN parcels, to \in People : ProposeTransfer(p, to)
  \/ \E t \in DOMAIN transfers : Object(t) \/ CompleteTransfer(t)
  \/ \E p \in ParamChoices : UpdateParams(p)
  \/ NextBlock

Spec == Init /\ [][Next]_vars

\* Blocks come, and somebody (the buyer, for one) completes what can be.
FairSpec ==
  /\ Spec /\ WF_vars(NextBlock)
  /\ \A t \in 1 .. MaxTransfers : WF_vars(CompleteTransfer(t))
----------------------------------------------------------------------------
\* The sales of a parcel that are neither completed nor stopped.
OpenSales(p) == {t \in DOMAIN transfers : transfers[t].parcel = p /\ pending(t)}

\* Land that was never frozen has at most one open sale, proposed by whoever
\* holds it now, and none once somebody objected.
SoldOnceAtMost(p) ==
  parcels[p].freezes = <<>> =>
    IF parcels[p].status = "transfer_pending"
    THEN \E t \in DOMAIN transfers : OpenSales(p) = {t} /\ transfers[t].from = parcels[p].holder
    ELSE OpenSales(p) = {}

Lifted(p) == DOMAIN parcels[p].freezes \ Standing(p)

\* Sales that are open, and the one that may be proposed.
SalesToCome(p) ==
  Cardinality(OpenSales(p)) + (IF parcels[p].status = "registered" THEN 1 ELSE 0)

\* Land is not sold twice: a parcel has one sale at most, open or to come, and
\* one more for every freeze that has been lifted, whatever freezes, releases,
\* objections and completions came between.  A freeze itself lets none in; it
\* does not stop the one that is open (ProposeTransfer, FreezeParcel, Object,
\* CompleteTransfer).
OneSaleAtATime ==
  \A p \in DOMAIN parcels : SoldOnceAtMost(p) /\ SalesToCome(p) <= 1 + Cardinality(Lifted(p))

AllParams == {p \in ParamChoices \cup {GenesisParams} : Validate(p)}

\* The offices whose word for a sale counts as independent: not the one that
\* keeps the file, unless governance lets it attest.
Independent(t) ==
  Range(transfers[t].attestors) \
    (IF \E p \in AllParams : p.sameAuthority THEN {} ELSE {ParcelOf(t).office})

\* However offices come and go and governance moves the quorum, land changes
\* hands by a sale to the new holder that the office which keeps the file
\* validated, for which as many different, independent offices gave their word
\* as the quorum in force asks, whose window is over, and to which nobody has
\* objected (ValidateTransfer, AttestTransfer, Object, CompleteTransfer).
TitleNeedsMany ==
  [][\A p \in DOMAIN parcels : parcels'[p].holder # parcels[p].holder =>
       \E t \in DOMAIN transfers :
         /\ transfers[t].parcel = p /\ transfers[t].to = parcels'[p].holder
         /\ transfers[t].validatedBy = parcels[p].office
         /\ Cardinality(Independent(t)) >= params.quorum
         /\ transfers[t].quorumAt # 0 /\ now >= transfers[t].quorumAt + params.window
         /\ ~transfers[t].objected]_vars

\* No official can hold up a sale that has been agreed: it is completed, or
\* somebody objects, or governance asks for more attestations than there are
\* (CompleteTransfer, "callable by anyone, on purpose").  The antecedent asks
\* that the bounded model still has the window ahead.
NobodyCanRefuse ==
  \A t \in 1 .. MaxTransfers :
    (/\ Agreed(t)
     /\ \A p \in AllParams : transfers[t].quorumAt + p.window <= MaxTime)
      ~> ~Agreed(t)
=============================================================================
