----------------------------- MODULE LandProofs -----------------------------
(***************************************************************************)
(* Land that was never frozen is sold once, and title moves on the word of *)
(* many, for any number of people, offices, parcels and transfers.  What   *)
(* is decided stays decided, and no two titles are over the same ground.   *)
(*                                                                         *)
(* TitleNeedsMany counts offices where the code counts signatures, so the  *)
(* invariant says that a transfer's attestors are different (Attested),    *)
(* that the office which keeps the file is not one of them where it may    *)
(* not be, and that nobody else validates.  OneSaleAtATime is inductive    *)
(* with the types, with transfers being of parcels there are (Typed), and  *)
(* with frozen land having a freeze to lift (FreezeToLift).                *)
(***************************************************************************)
EXTENDS Land, FiniteSetTheorems, TLAPS

ParcelRecords ==
  [ground : Grounds, ref : References, holder : People, office : Offices,
   status : {"registered", "transfer_pending", "disputed", "frozen"},
   freezes : Seq([lifted : BOOLEAN])]

TransferRecords ==
  [parcel : Nat, from : People, to : People, validatedBy : Offices \cup {NoOffice},
   attestors : Seq(Offices), quorumAt : Nat, objected : BOOLEAN, completedAt : Nat]

Typed ==
  /\ params \in AllParams
  /\ now \in Nat \ {0}
  /\ parcels \in Seq(ParcelRecords) /\ transfers \in Seq(TransferRecords)
  /\ \A t \in DOMAIN transfers : transfers[t].parcel \in DOMAIN parcels

Vouched(t) ==
  /\ Cardinality(Range(transfers[t].attestors)) = Len(transfers[t].attestors)
  /\ (\A p \in AllParams : ~p.sameAuthority) =>
       ParcelOf(t).office \notin Range(transfers[t].attestors)
  /\ transfers[t].validatedBy \in {NoOffice, ParcelOf(t).office}

Attested == \A t \in DOMAIN transfers : Vouched(t)

\* Frozen land has been frozen, and its last freeze is one nobody lifted.
FreezeToLift(p) ==
  parcels[p].status = "frozen" =>
    LET last == Len(parcels[p].freezes)
    IN  last \in DOMAIN parcels[p].freezes /\ ~parcels[p].freezes[last].lifted

Room(p) == SalesToCome(p) <= 1 + Cardinality(Lifted(p)) /\ FreezeToLift(p)

SalesInv == \A p \in DOMAIN parcels : SoldOnceAtMost(p) /\ Room(p)

IInv == Typed /\ Attested /\ SalesInv
----------------------------------------------------------------------------
(* Types *)

LEMMA ParamsTyped ==
  AllParams \subseteq ParamSets /\ GenesisParams \in AllParams
BY LandAssumption DEF AllParams

LEMMA InitInv == Init => IInv
<1> SUFFICES ASSUME Init PROVE IInv
  OBVIOUS
<1>1. parcels = <<>> /\ transfers = <<>> /\ DOMAIN parcels = {} /\ DOMAIN transfers = {}
  BY DEF Init
<1>2. Typed
  BY <1>1, ParamsTyped DEF Init, Typed
<1>3. Attested /\ SalesInv
  BY <1>1 DEF Attested, SalesInv
<1> QED BY <1>2, <1>3 DEF IInv

\* What a sequence holds, and what becomes of it when an entry is replaced or
\* added (the collections Parcel and Transfer, Set and Append).
LEMMA Held ==
  ASSUME NEW S, NEW s \in Seq(S), NEW i \in DOMAIN s
  PROVE  s[i] \in S /\ i \in Nat
OBVIOUS

LEMMA Replaced ==
  ASSUME NEW S, NEW s \in Seq(S), NEW i \in DOMAIN s, NEW v \in S
  PROVE  /\ [s EXCEPT ![i] = v] \in Seq(S)
         /\ DOMAIN [s EXCEPT ![i] = v] = DOMAIN s
         /\ \A j \in DOMAIN s : [s EXCEPT ![i] = v][j] = IF j = i THEN v ELSE s[j]
OBVIOUS

LEMMA Added ==
  ASSUME NEW S, NEW s \in Seq(S), NEW v \in S
  PROVE  /\ Append(s, v) \in Seq(S)
         /\ Len(s) \in Nat /\ DOMAIN s = 1 .. Len(s) /\ Len(Append(s, v)) = Len(s) + 1
         /\ DOMAIN Append(s, v) = DOMAIN s \cup {Len(s) + 1} /\ Len(s) + 1 \notin DOMAIN s
         /\ \A j \in DOMAIN s : Append(s, v)[j] = s[j]
         /\ Append(s, v)[Len(s) + 1] = v
OBVIOUS

\* Marking the entries of a register neither loses one nor adds one.
LEMMA Mapped ==
  ASSUME NEW S, NEW s \in Seq(S), NEW f, f = [i \in DOMAIN s |-> f[i]],
         \A i \in DOMAIN s : f[i] \in S
  PROVE  f \in Seq(S) /\ (f = <<>> => s = <<>>)
<1>1. Len(s) \in Nat /\ DOMAIN s = 1 .. Len(s)
  OBVIOUS
<1>2. f \in [1 .. Len(s) -> S]
  BY <1>1
<1>3. f \in Seq(S)
  BY <1>1, <1>2
<1>4. f = <<>> => s = <<>>
  <2> SUFFICES ASSUME f = <<>> PROVE s = <<>>
    OBVIOUS
  <2>1. DOMAIN s = {}
    BY <1>2, <1>1
  <2> QED BY <2>1, <1>1
<1> QED BY <1>3, <1>4

\* An action that touches a transfer replaces its record by one of the same
\* parcel; one that touches a parcel, by one of the same office.
LEMMA TransferSet ==
  ASSUME Typed, NEW t \in DOMAIN transfers, NEW r \in TransferRecords,
         transfers' = [transfers EXCEPT ![t] = r], r.parcel = transfers[t].parcel
  PROVE  /\ transfers' \in Seq(TransferRecords) /\ DOMAIN transfers' = DOMAIN transfers
         /\ \A u \in DOMAIN transfers : transfers'[u] = IF u = t THEN r ELSE transfers[u]
         /\ \A u \in DOMAIN transfers : transfers'[u].parcel = transfers[u].parcel
<1>1. transfers \in Seq(TransferRecords)
  BY DEF Typed
<1> QED BY <1>1, Replaced, Zenon

LEMMA ParcelSet ==
  ASSUME Typed, NEW p \in DOMAIN parcels, NEW r \in ParcelRecords,
         parcels' = [parcels EXCEPT ![p] = r]
  PROVE  /\ parcels' \in Seq(ParcelRecords) /\ DOMAIN parcels' = DOMAIN parcels
         /\ \A q \in DOMAIN parcels : parcels'[q] = IF q = p THEN r ELSE parcels[q]
<1>1. parcels \in Seq(ParcelRecords)
  BY DEF Typed
<1> QED BY <1>1, Replaced, Zenon

LEMMA ParcelFields ==
  ASSUME NEW old \in ParcelRecords
  PROVE  DOMAIN old = {"ground", "ref", "holder", "office", "status", "freezes"}
BY DEF ParcelRecords

\* What each action does to the records it touches.
LEMMA Registers ==
  ASSUME Typed, NEW o \in Offices, NEW g \in Grounds, NEW r \in References, NEW h \in People,
         RegisterParcel(o, g, r, h)
  PROVE  \E v \in ParcelRecords :
           /\ parcels' = Append(parcels, v) /\ transfers' = transfers
           /\ v.status = "registered" /\ v.freezes = <<>>
<1> DEFINE v == [ground |-> g, ref |-> r, holder |-> h, office |-> o,
                 status |-> "registered", freezes |-> <<>>]
<1>1. v \in ParcelRecords
  BY DEF ParcelRecords
<1> QED BY <1>1 DEF RegisterParcel

LEMMA Freezes ==
  ASSUME Typed, NEW p \in DOMAIN parcels, NEW o, FreezeParcel(o, p) \/ UnfreezeParcel(o, p),
         SalesInv
  PROVE  \E v \in ParcelRecords :
           /\ parcels' = [parcels EXCEPT ![p] = v] /\ transfers' = transfers
           /\ v.office = parcels[p].office /\ v.holder = parcels[p].holder
           /\ v.ground = parcels[p].ground /\ v.ref = parcels[p].ref
           /\ v.freezes # <<>> \/ (OpenSales(p) = {} /\ v.status = "registered")
<1>1. parcels \in Seq(ParcelRecords) /\ parcels[p] \in ParcelRecords
  BY Held DEF Typed
<1>2. CASE FreezeParcel(o, p)
  <2> DEFINE f == Append(parcels[p].freezes, [lifted |-> FALSE])
             v == [parcels[p] EXCEPT !.status = "frozen", !.freezes = f]
  <2>1. parcels[p].freezes \in Seq([lifted : BOOLEAN])
    BY <1>1 DEF ParcelRecords
  <2>2. f \in Seq([lifted : BOOLEAN]) /\ f # <<>>
    BY <2>1
  <2>3. v \in ParcelRecords
    BY <1>1, <2>2 DEF ParcelRecords
  <2>4. parcels' = [parcels EXCEPT ![p] = v]
    BY <1>1, <1>2 DEF FreezeParcel
  <2>5. /\ v.office = parcels[p].office /\ v.holder = parcels[p].holder /\ v.freezes = f
        /\ v.ground = parcels[p].ground /\ v.ref = parcels[p].ref
    <3> DEFINE old == parcels[p]
    <3>1. v = [old EXCEPT !.status = "frozen", !.freezes = f]
      OBVIOUS
    <3>2. DOMAIN old = {"ground", "ref", "holder", "office", "status", "freezes"}
      <4>1. old \in ParcelRecords
        BY <1>1
      <4> HIDE DEF old
      <4> QED BY ONLY <4>1, ParcelFields
    <3> HIDE DEF old, v, f
    <3>3. /\ v.office = old.office /\ v.holder = old.holder /\ v.freezes = f
          /\ v.ground = old.ground /\ v.ref = old.ref
      BY ONLY <3>1, <3>2
    <3> QED BY <3>3 DEF old
  <2> HIDE DEF f, v
  <2> QED BY <1>2, <2>2, <2>3, <2>4, <2>5 DEF FreezeParcel
<1>3. CASE UnfreezeParcel(o, p)
  <2> DEFINE g == parcels[p].freezes
             f == [i \in DOMAIN g |->
                    IF Standing(p) # {} /\ i = Max(Standing(p)) THEN [g[i] EXCEPT !.lifted = TRUE]
                    ELSE g[i]]
             v == [parcels[p] EXCEPT !.status = "registered", !.freezes = f]
  <2>1. g \in Seq([lifted : BOOLEAN])
    BY <1>1 DEF ParcelRecords
  <2>2. \A i \in DOMAIN g : f[i] \in [lifted : BOOLEAN]
    <3> HIDE DEF g
    <3>1. \A i \in DOMAIN g : g[i] \in [lifted : BOOLEAN]
      BY <2>1, Held, Zenon
    <3> QED BY <3>1
  <2>3. f \in Seq([lifted : BOOLEAN]) /\ (f = <<>> => g = <<>>)
    <3>1. f = [i \in DOMAIN g |-> f[i]]
      OBVIOUS
    <3> HIDE DEF f, g
    <3> QED BY <2>1, <2>2, <3>1, Mapped
  <2>4. v \in ParcelRecords
    BY <1>1, <2>3 DEF ParcelRecords
  <2>5. parcels' = [parcels EXCEPT ![p] = v]
    BY <1>1, <1>3 DEF UnfreezeParcel
  <2>6. /\ v.office = parcels[p].office /\ v.holder = parcels[p].holder
        /\ v.freezes = f /\ v.status = "registered"
        /\ v.ground = parcels[p].ground /\ v.ref = parcels[p].ref
    <3> DEFINE old == parcels[p]
    <3>1. v = [old EXCEPT !.status = "registered", !.freezes = f]
      OBVIOUS
    <3>2. DOMAIN old = {"ground", "ref", "holder", "office", "status", "freezes"}
      <4>1. old \in ParcelRecords
        BY <1>1
      <4> HIDE DEF old
      <4> QED BY ONLY <4>1, ParcelFields
    <3> HIDE DEF old, v, f
    <3>3. /\ v.office = old.office /\ v.holder = old.holder /\ v.freezes = f
          /\ v.status = "registered" /\ v.ground = old.ground /\ v.ref = old.ref
      BY ONLY <3>1, <3>2
    <3> QED BY <3>3 DEF old
  <2>7. parcels[p].freezes = <<>> => OpenSales(p) = {}
    BY <1>3 DEF UnfreezeParcel, SalesInv, SoldOnceAtMost
  <2> HIDE DEF f, v
  <2> QED BY <1>3, <2>3, <2>4, <2>5, <2>6, <2>7 DEF UnfreezeParcel
<1> QED BY <1>2, <1>3

LEMMA Proposes ==
  ASSUME Typed, NEW p \in DOMAIN parcels, NEW to \in People, ProposeTransfer(p, to)
  PROVE  \E r \in TransferRecords, v \in ParcelRecords :
           /\ transfers' = Append(transfers, r) /\ parcels' = [parcels EXCEPT ![p] = v]
           /\ parcels[p].status = "registered"
           /\ r.parcel = p /\ r.from = parcels[p].holder /\ r.validatedBy = NoOffice
           /\ r.attestors = <<>> /\ r.completedAt = 0 /\ ~r.objected
           /\ v = [parcels[p] EXCEPT !.status = "transfer_pending"]
<1>1. parcels[p] \in ParcelRecords /\ p \in Nat
  BY Held DEF Typed
<1> DEFINE r == [parcel |-> p, from |-> parcels[p].holder, to |-> to, validatedBy |-> NoOffice,
                 attestors |-> <<>>, quorumAt |-> 0, objected |-> FALSE, completedAt |-> 0]
           v == [parcels[p] EXCEPT !.status = "transfer_pending"]
<1>2. r \in TransferRecords /\ v \in ParcelRecords
  BY <1>1 DEF TransferRecords, ParcelRecords
<1> QED BY <1>2 DEF ProposeTransfer, transferable, Typed

LEMMA Validates ==
  ASSUME Typed, NEW o \in Offices, NEW t \in DOMAIN transfers, ValidateTransfer(o, t)
  PROVE  /\ pending(t) /\ o = ParcelOf(t).office /\ parcels' = parcels
         /\ [transfers[t] EXCEPT !.validatedBy = o] \in TransferRecords
         /\ transfers' = [transfers EXCEPT ![t] = [transfers[t] EXCEPT !.validatedBy = o]]
<1>1. transfers[t] \in TransferRecords
  BY Held DEF Typed
<1> QED BY <1>1 DEF ValidateTransfer, TransferRecords, Typed

LEMMA Attests ==
  ASSUME Typed, NEW o \in Offices, NEW t \in DOMAIN transfers, AttestTransfer(o, t)
  PROVE  \E q \in Nat :
           LET r == [transfers[t] EXCEPT !.attestors = Append(transfers[t].attestors, o),
                                         !.quorumAt = q]
           IN /\ pending(t) /\ mayAttest(o, t) /\ parcels' = parcels
              /\ r \in TransferRecords /\ transfers' = [transfers EXCEPT ![t] = r]
<1>1. transfers[t] \in TransferRecords /\ now \in Nat
  BY Held DEF Typed
<1> DEFINE q == IF transfers[t].quorumAt = 0
                   /\ Len(transfers[t].attestors) + 1 >= params.quorum
                THEN now ELSE transfers[t].quorumAt
           r == [transfers[t] EXCEPT !.attestors = Append(transfers[t].attestors, o),
                                     !.quorumAt = q]
<1>2. q \in Nat
  BY <1>1 DEF TransferRecords
<1>3. Append(transfers[t].attestors, o) \in Seq(Offices)
  BY <1>1 DEF TransferRecords
<1>4. r \in TransferRecords
  <2> HIDE DEF q
  <2> QED BY <1>1, <1>2, <1>3 DEF TransferRecords
<1>5. transfers' = [transfers EXCEPT ![t] = r]
  BY <1>1 DEF AttestTransfer, Typed, TransferRecords
<1> QED BY <1>2, <1>4, <1>5 DEF AttestTransfer

LEMMA Objects ==
  ASSUME Typed, NEW t \in DOMAIN transfers, Object(t)
  PROVE  LET p == transfers[t].parcel
             r == [transfers[t] EXCEPT !.objected = TRUE]
             v == [parcels[p] EXCEPT !.status = "disputed"]
         IN /\ pending(t) /\ p \in DOMAIN parcels
            /\ r \in TransferRecords /\ transfers' = [transfers EXCEPT ![t] = r]
            /\ v \in ParcelRecords /\ parcels' = [parcels EXCEPT ![p] = v]
<1>1. transfers[t] \in TransferRecords /\ transfers[t].parcel \in DOMAIN parcels
  BY Held DEF Typed
<1>2. parcels[transfers[t].parcel] \in ParcelRecords
  BY <1>1, Held DEF Typed
<1> QED BY <1>1, <1>2 DEF Object, TransferRecords, ParcelRecords, Typed

LEMMA Completes ==
  ASSUME Typed, NEW t \in DOMAIN transfers, CompleteTransfer(t)
  PROVE  LET p == transfers[t].parcel
             r == [transfers[t] EXCEPT !.completedAt = now]
             v == [parcels[p] EXCEPT !.holder = transfers[t].to, !.status = "registered"]
         IN /\ pending(t) /\ p \in DOMAIN parcels
            /\ r \in TransferRecords /\ transfers' = [transfers EXCEPT ![t] = r]
            /\ v \in ParcelRecords /\ parcels' = [parcels EXCEPT ![p] = v]
<1>1. /\ transfers[t] \in TransferRecords /\ transfers[t].parcel \in DOMAIN parcels
      /\ now \in Nat
  BY Held DEF Typed
<1>2. parcels[transfers[t].parcel] \in ParcelRecords
  BY <1>1, Held DEF Typed
<1> QED BY <1>1, <1>2 DEF CompleteTransfer, ripe, Agreed, TransferRecords, ParcelRecords, Typed
\* The two ends of a transfer.
LEMMA Ends ==
  ASSUME Typed, NEW t \in DOMAIN transfers, Object(t) \/ CompleteTransfer(t)
  PROVE  \E r \in TransferRecords, v \in ParcelRecords :
           LET p == transfers[t].parcel
           IN /\ pending(t) /\ p \in DOMAIN parcels
              /\ transfers' = [transfers EXCEPT ![t] = r]
              /\ r.parcel = p /\ r.from = transfers[t].from
              /\ r.attestors = transfers[t].attestors /\ r.validatedBy = transfers[t].validatedBy
              /\ r.objected \/ r.completedAt # 0
              /\ parcels' = [parcels EXCEPT ![p] = v]
              /\ v.status \in {"disputed", "registered"}
              /\ v.office = parcels[p].office /\ v.freezes = parcels[p].freezes
<1>1. /\ transfers[t] \in TransferRecords /\ transfers[t].parcel \in DOMAIN parcels
      /\ now \in Nat \ {0}
  BY Held DEF Typed
<1>2. parcels[transfers[t].parcel] \in ParcelRecords
  BY <1>1, Held DEF Typed
<1>3. CASE Object(t)
  <2> DEFINE r == [transfers[t] EXCEPT !.objected = TRUE]
             v == [parcels[transfers[t].parcel] EXCEPT !.status = "disputed"]
  <2>1. /\ r.parcel = transfers[t].parcel /\ r.from = transfers[t].from /\ r.objected
        /\ r.attestors = transfers[t].attestors /\ r.validatedBy = transfers[t].validatedBy
    BY <1>1 DEF TransferRecords
  <2>2. /\ v.office = parcels[transfers[t].parcel].office /\ v.status \in {"disputed", "registered"}
        /\ v.freezes = parcels[transfers[t].parcel].freezes
    BY <1>2 DEF ParcelRecords
  <2>3. /\ pending(t)
        /\ r \in TransferRecords /\ transfers' = [transfers EXCEPT ![t] = r]
        /\ v \in ParcelRecords /\ parcels' = [parcels EXCEPT ![transfers[t].parcel] = v]
    BY <1>3, Objects
  <2> HIDE DEF r, v
  <2> QED BY <1>1, <2>1, <2>2, <2>3
<1>4. CASE CompleteTransfer(t)
  <2> DEFINE r == [transfers[t] EXCEPT !.completedAt = now]
             v == [parcels[transfers[t].parcel] EXCEPT !.holder = transfers[t].to,
                                                       !.status = "registered"]
  <2>1. /\ r.parcel = transfers[t].parcel /\ r.from = transfers[t].from /\ r.completedAt # 0
        /\ r.attestors = transfers[t].attestors /\ r.validatedBy = transfers[t].validatedBy
    BY <1>1 DEF TransferRecords
  <2>2. /\ v.office = parcels[transfers[t].parcel].office /\ v.status \in {"disputed", "registered"}
        /\ v.freezes = parcels[transfers[t].parcel].freezes
    BY <1>2 DEF ParcelRecords
  <2>3. /\ pending(t)
        /\ r \in TransferRecords /\ transfers' = [transfers EXCEPT ![t] = r]
        /\ v \in ParcelRecords /\ parcels' = [parcels EXCEPT ![transfers[t].parcel] = v]
    BY <1>4, Completes
  <2> HIDE DEF r, v
  <2> QED BY <1>1, <2>1, <2>2, <2>3
<1> QED BY <1>3, <1>4
----------------------------------------------------------------------------
(* The types are kept. *)

LEMMA StepTyped == Typed /\ SalesInv /\ [Next]_vars => Typed'
<1> SUFFICES ASSUME Typed, SalesInv, [Next]_vars PROVE Typed'
  OBVIOUS
<1>0. ASSUME params' \in AllParams, now' \in Nat \ {0},
             parcels' \in Seq(ParcelRecords), transfers' \in Seq(TransferRecords),
             \A t \in DOMAIN transfers' : transfers'[t].parcel \in DOMAIN parcels'
      PROVE  Typed'
  BY <1>0 DEF Typed
<1>k. /\ params \in AllParams /\ now \in Nat \ {0}
      /\ parcels \in Seq(ParcelRecords) /\ transfers \in Seq(TransferRecords)
      /\ \A t \in DOMAIN transfers : transfers[t].parcel \in DOMAIN parcels
  BY DEF Typed
<1>1. ASSUME parcels' = parcels, transfers' = transfers, params' \in AllParams, now' \in Nat \ {0}
      PROVE  Typed'
  BY <1>0, <1>1, <1>k, Zenon
<1>2. CASE UNCHANGED vars
  BY <1>1, <1>2, <1>k DEF vars, officeVars
<1>3. ASSUME NEW o, NEW activate, RegisterAuthority(o, activate) PROVE Typed'
  BY <1>1, <1>3, <1>k DEF RegisterAuthority
<1>4. ASSUME NEW o, MoveScope(o) PROVE Typed'
  BY <1>1, <1>4, <1>k DEF MoveScope
<1>5. ASSUME NEW o \in Offices, NEW g \in Grounds, NEW r \in References, NEW h \in People,
             RegisterParcel(o, g, r, h)
      PROVE  Typed'
  <2>1. PICK v \in ParcelRecords : parcels' = Append(parcels, v) /\ transfers' = transfers
    BY <1>5, Registers, Zenon
  <2>2. parcels' \in Seq(ParcelRecords) /\ DOMAIN parcels \subseteq DOMAIN parcels'
    BY <2>1, <1>k, Added
  <2>3. params' = params /\ now' = now
    BY <1>5 DEF RegisterParcel
  <2> QED BY <1>0, <1>k, <2>1, <2>2, <2>3
<1>6. ASSUME NEW o, NEW p \in DOMAIN parcels, FreezeParcel(o, p) \/ UnfreezeParcel(o, p)
      PROVE  Typed'
  <2>1. PICK v \in ParcelRecords : parcels' = [parcels EXCEPT ![p] = v] /\ transfers' = transfers
    BY <1>6, Freezes, Zenon
  <2>2. parcels' \in Seq(ParcelRecords) /\ DOMAIN parcels' = DOMAIN parcels
    BY <2>1, ParcelSet, Zenon
  <2>3. params' = params /\ now' = now
    BY <1>6 DEF FreezeParcel, UnfreezeParcel
  <2> QED BY <1>0, <1>k, <2>1, <2>2, <2>3
<1>7. ASSUME NEW o \in Offices, NEW t \in DOMAIN transfers, ValidateTransfer(o, t)
      PROVE  Typed'
  <2> DEFINE r == [transfers[t] EXCEPT !.validatedBy = o]
  <2>1. parcels' = parcels /\ r \in TransferRecords /\ transfers' = [transfers EXCEPT ![t] = r]
    BY <1>7, Validates
  <2>2. r.parcel = transfers[t].parcel
    BY <1>k DEF TransferRecords
  <2>3. params' = params /\ now' = now
    BY <1>7 DEF ValidateTransfer
  <2> HIDE DEF r
  <2>4. /\ transfers' \in Seq(TransferRecords) /\ DOMAIN transfers' = DOMAIN transfers
        /\ \A u \in DOMAIN transfers : transfers'[u].parcel = transfers[u].parcel
    BY <2>1, <2>2, TransferSet, Zenon
  <2> QED BY <1>0, <1>k, <2>1, <2>3, <2>4
<1>8. ASSUME NEW o \in Offices, NEW t \in DOMAIN transfers, AttestTransfer(o, t)
      PROVE  Typed'
  <2>1. PICK q \in Nat :
          LET r == [transfers[t] EXCEPT !.attestors = Append(transfers[t].attestors, o),
                                        !.quorumAt = q]
          IN parcels' = parcels /\ r \in TransferRecords /\ transfers' = [transfers EXCEPT ![t] = r]
    BY <1>8, Attests
  <2> DEFINE r == [transfers[t] EXCEPT !.attestors = Append(transfers[t].attestors, o),
                                       !.quorumAt = q]
  <2>2. r.parcel = transfers[t].parcel
    BY <1>k DEF TransferRecords
  <2>3. params' = params /\ now' = now
    BY <1>8 DEF AttestTransfer
  <2>5. r \in TransferRecords /\ transfers' = [transfers EXCEPT ![t] = r]
    BY <2>1
  <2> HIDE DEF r
  <2>4. /\ transfers' \in Seq(TransferRecords) /\ DOMAIN transfers' = DOMAIN transfers
        /\ \A u \in DOMAIN transfers : transfers'[u].parcel = transfers[u].parcel
    BY <2>5, <2>2, TransferSet, Zenon
  <2> QED BY <1>0, <1>k, <2>1, <2>3, <2>4
<1>9. ASSUME NEW p \in DOMAIN parcels, NEW to \in People, ProposeTransfer(p, to)
      PROVE  Typed'
  <2>1. PICK r \in TransferRecords, v \in ParcelRecords :
          /\ transfers' = Append(transfers, r) /\ parcels' = [parcels EXCEPT ![p] = v]
          /\ r.parcel = p
    BY <1>9, Proposes
  <2>2. parcels' \in Seq(ParcelRecords) /\ DOMAIN parcels' = DOMAIN parcels
    BY <2>1, ParcelSet, Zenon
  <2>3. params' = params /\ now' = now
    BY <1>9 DEF ProposeTransfer
  <2>4. /\ transfers' \in Seq(TransferRecords)
        /\ DOMAIN transfers' = DOMAIN transfers \cup {Len(transfers) + 1}
        /\ \A u \in DOMAIN transfers : transfers'[u] = transfers[u]
        /\ transfers'[Len(transfers) + 1] = r
    BY <2>1, <1>k, Added
  <2> QED BY <1>0, <1>k, <2>1, <2>2, <2>3, <2>4
<1>10. ASSUME NEW t \in DOMAIN transfers, Object(t) \/ CompleteTransfer(t)
       PROVE  Typed'
  <2>1. PICK r \in TransferRecords, v \in ParcelRecords :
          /\ transfers' = [transfers EXCEPT ![t] = r] /\ r.parcel = transfers[t].parcel
          /\ parcels' = [parcels EXCEPT ![transfers[t].parcel] = v]
          /\ transfers[t].parcel \in DOMAIN parcels
    BY <1>10, Ends
  <2>2. parcels' \in Seq(ParcelRecords) /\ DOMAIN parcels' = DOMAIN parcels
    BY <2>1, ParcelSet, Zenon
  <2>3. params' = params /\ now' = now
    BY <1>10 DEF Object, CompleteTransfer
  <2>4. /\ transfers' \in Seq(TransferRecords) /\ DOMAIN transfers' = DOMAIN transfers
        /\ \A u \in DOMAIN transfers : transfers'[u].parcel = transfers[u].parcel
    BY <2>1, TransferSet, Zenon
  <2> QED BY <1>0, <1>k, <2>1, <2>2, <2>3, <2>4
<1>11. ASSUME NEW p \in ParamChoices, UpdateParams(p) PROVE Typed'
  <2>1. params' \in AllParams
    BY <1>11 DEF UpdateParams, AllParams
  <2> QED BY <1>1, <1>11, <1>k, <2>1 DEF UpdateParams
<1>12. CASE NextBlock
  BY <1>1, <1>12, <1>k DEF NextBlock
<1> QED BY <1>2, <1>3, <1>4, <1>5, <1>6, <1>7, <1>8, <1>9, <1>10, <1>11, <1>12 DEF Next
----------------------------------------------------------------------------
(* Attestors stay different and independent. *)

\* Offices do not change, and neither does who vouched for a transfer, unless
\* it is the transfer the step is about.
LEMMA AttestedKept ==
  ASSUME Typed, Attested, NEW t,
         \A q \in DOMAIN parcels : parcels'[q].office = parcels[q].office,
         \A u \in DOMAIN transfers : transfers'[u].parcel = transfers[u].parcel,
         \A u \in DOMAIN transfers' : u # t =>
            /\ u \in DOMAIN transfers
            /\ transfers'[u].attestors = transfers[u].attestors
            /\ transfers'[u].validatedBy = transfers[u].validatedBy,
         t \in DOMAIN transfers' => Vouched(t)'
  PROVE  Attested'
<1> SUFFICES ASSUME NEW u \in DOMAIN transfers', u # t PROVE Vouched(u)'
  BY DEF Attested
<1>1. /\ Vouched(u) /\ transfers'[u].attestors = transfers[u].attestors
      /\ transfers'[u].validatedBy = transfers[u].validatedBy
      /\ transfers'[u].parcel = transfers[u].parcel
  BY DEF Attested
<1>2. ParcelOf(u)'.office = ParcelOf(u).office
  BY <1>1 DEF ParcelOf, Typed
<1> QED BY <1>1, <1>2 DEF Vouched

\* One more office, one more name.
LEMMA OneMore ==
  ASSUME NEW s \in Seq(Offices), NEW o \in Offices
  PROVE  /\ Range(Append(s, o)) = Range(s) \cup {o}
         /\ o \notin Range(s) /\ Cardinality(Range(s)) = Len(s) =>
              Cardinality(Range(Append(s, o))) = Len(Append(s, o))
<1>1. Range(Append(s, o)) = Range(s) \cup {o}
  <2>1. /\ DOMAIN Append(s, o) = DOMAIN s \cup {Len(s) + 1}
        /\ \A j \in DOMAIN s : Append(s, o)[j] = s[j]
        /\ Append(s, o)[Len(s) + 1] = o /\ Len(s) + 1 \notin DOMAIN s
    BY Added
  <2> QED BY <2>1 DEF Range
<1>2. IsFiniteSet(Range(s))
  <2>1. Range(s) \subseteq Offices
    BY DEF Range
  <2> QED BY <2>1, LandAssumption, FS_Subset
<1>3. Len(Append(s, o)) = Len(s) + 1
  OBVIOUS
<1>4. o \notin Range(s) => Cardinality(Range(s) \cup {o}) = Cardinality(Range(s)) + 1
  BY <1>2, FS_AddElement
<1> QED BY <1>1, <1>3, <1>4

LEMMA StepAttested == Typed /\ SalesInv /\ Attested /\ [Next]_vars => Attested'
<1> SUFFICES ASSUME Typed, SalesInv, Attested, [Next]_vars PROVE Attested'
  OBVIOUS
<1>k. /\ params \in AllParams
      /\ parcels \in Seq(ParcelRecords) /\ transfers \in Seq(TransferRecords)
      /\ \A t \in DOMAIN transfers : transfers[t].parcel \in DOMAIN parcels
  BY DEF Typed
<1>a. \A u \in DOMAIN transfers : Vouched(u)
  BY DEF Attested
\* Transfers are left alone, and parcels keep their offices.
<1>0. ASSUME transfers' = transfers,
             \A q \in DOMAIN parcels : parcels'[q].office = parcels[q].office
      PROVE  Attested'
  <2>1. \A u \in DOMAIN transfers : Vouched(u)'
    <3> SUFFICES ASSUME NEW u \in DOMAIN transfers PROVE Vouched(u)'
      OBVIOUS
    <3>1. ParcelOf(u)'.office = ParcelOf(u).office
      BY <1>0, <1>k DEF ParcelOf
    <3> QED BY <1>0, <1>a, <3>1 DEF Vouched
  <2> QED BY <2>1, <1>0 DEF Attested
<1>1. ASSUME parcels' = parcels, transfers' = transfers PROVE Attested'
  BY <1>0, <1>1
<1>2. CASE UNCHANGED vars
  BY <1>1, <1>2 DEF vars
<1>3. ASSUME NEW o, NEW activate, RegisterAuthority(o, activate) \/ MoveScope(o) PROVE Attested'
  BY <1>1, <1>3 DEF RegisterAuthority, MoveScope
<1>5. ASSUME NEW o \in Offices, NEW g \in Grounds, NEW r \in References, NEW h \in People,
             RegisterParcel(o, g, r, h)
      PROVE  Attested'
  <2>1. PICK v \in ParcelRecords : parcels' = Append(parcels, v) /\ transfers' = transfers
    BY <1>5, Registers, Zenon
  <2>2. \A q \in DOMAIN parcels : parcels'[q] = parcels[q]
    BY <2>1, <1>k, Added
  <2> QED BY <1>0, <2>1, <2>2
<1>6. ASSUME NEW o, NEW p \in DOMAIN parcels, FreezeParcel(o, p) \/ UnfreezeParcel(o, p)
      PROVE  Attested'
  <2>1. PICK v \in ParcelRecords :
          /\ parcels' = [parcels EXCEPT ![p] = v] /\ transfers' = transfers
          /\ v.office = parcels[p].office
    BY <1>6, Freezes, Zenon
  <2>2. \A q \in DOMAIN parcels : parcels'[q] = IF q = p THEN v ELSE parcels[q]
    BY <2>1, ParcelSet, Zenon
  <2> QED BY <1>0, <2>1, <2>2
<1>7. ASSUME NEW o \in Offices, NEW t \in DOMAIN transfers, ValidateTransfer(o, t)
      PROVE  Attested'
  <2> DEFINE r == [transfers[t] EXCEPT !.validatedBy = o]
  <2>1. /\ parcels' = parcels /\ r \in TransferRecords /\ transfers' = [transfers EXCEPT ![t] = r]
        /\ o = ParcelOf(t).office
    BY <1>7, Validates
  <2>2. r.parcel = transfers[t].parcel /\ r.validatedBy = o /\ r.attestors = transfers[t].attestors
    BY <1>k DEF TransferRecords
  <2> HIDE DEF r
  <2>3. /\ DOMAIN transfers' = DOMAIN transfers
        /\ \A u \in DOMAIN transfers : transfers'[u] = IF u = t THEN r ELSE transfers[u]
    BY <2>1, <2>2, TransferSet, Zenon
  <2>4. Vouched(t)'
    <3>1. transfers'[t] = r
      BY <2>3
    <3>2. ParcelOf(t)' = ParcelOf(t)
      BY <3>1, <2>1, <2>2 DEF ParcelOf
    <3> QED BY <3>1, <3>2, <2>1, <2>2, <1>a DEF Vouched
  <2> QED BY <2>1, <2>2, <2>3, <2>4, AttestedKept
<1>8. ASSUME NEW o \in Offices, NEW t \in DOMAIN transfers, AttestTransfer(o, t)
      PROVE  Attested'
  <2> DEFINE s == transfers[t].attestors
  <2>1. PICK q \in Nat :
          LET r == [transfers[t] EXCEPT !.attestors = Append(s, o), !.quorumAt = q]
          IN /\ mayAttest(o, t) /\ parcels' = parcels
             /\ r \in TransferRecords /\ transfers' = [transfers EXCEPT ![t] = r]
    BY <1>8, Attests
  <2> DEFINE r == [transfers[t] EXCEPT !.attestors = Append(s, o), !.quorumAt = q]
  <2>2. /\ r.parcel = transfers[t].parcel /\ r.validatedBy = transfers[t].validatedBy
        /\ r.attestors = Append(s, o) /\ s \in Seq(Offices)
    <3>1. transfers[t] \in TransferRecords
      BY <1>k, Held
    <3> HIDE DEF s
    <3>2. /\ r.parcel = transfers[t].parcel /\ r.validatedBy = transfers[t].validatedBy
          /\ r.attestors = Append(s, o)
      BY <3>1 DEF TransferRecords
    <3> QED BY <3>1, <3>2 DEF TransferRecords, s
  <2>5. /\ mayAttest(o, t) /\ parcels' = parcels
        /\ r \in TransferRecords /\ transfers' = [transfers EXCEPT ![t] = r]
    BY <2>1
  <2> HIDE DEF r
  <2>3. /\ DOMAIN transfers' = DOMAIN transfers
        /\ \A u \in DOMAIN transfers : transfers'[u] = IF u = t THEN r ELSE transfers[u]
    BY <2>5, <2>2, TransferSet, Zenon
  <2>4. Vouched(t)'
    <3>1. transfers'[t] = r
      BY <2>3
    <3>2. ParcelOf(t)' = ParcelOf(t)
      BY <3>1, <2>5, <2>2 DEF ParcelOf
    <3>3. o \notin Range(s) /\ (params.sameAuthority \/ o # ParcelOf(t).office)
      BY <2>5 DEF mayAttest
    <3>4. Range(Append(s, o)) = Range(s) \cup {o}
          /\ Cardinality(Range(Append(s, o))) = Len(Append(s, o))
      BY <2>2, <3>3, <1>a, OneMore DEF Vouched
    <3> HIDE DEF s
    <3>5. (\A p \in AllParams : ~p.sameAuthority) => ParcelOf(t).office \notin Range(Append(s, o))
      BY <3>3, <3>4, <1>a, <1>k DEF Vouched, s
    <3> QED BY <3>1, <3>2, <3>4, <3>5, <2>2, <1>a DEF Vouched
  <2> QED BY <2>5, <2>2, <2>3, <2>4, AttestedKept
<1>9. ASSUME NEW p \in DOMAIN parcels, NEW to \in People, ProposeTransfer(p, to)
      PROVE  Attested'
  <2>1. PICK r \in TransferRecords, v \in ParcelRecords :
          /\ transfers' = Append(transfers, r) /\ parcels' = [parcels EXCEPT ![p] = v]
          /\ r.validatedBy = NoOffice /\ r.attestors = <<>>
          /\ v = [parcels[p] EXCEPT !.status = "transfer_pending"]
    BY <1>9, Proposes
  <2>2. v.office = parcels[p].office
    BY <2>1, <1>k DEF ParcelRecords
  <2>3. \A q \in DOMAIN parcels : parcels'[q] = IF q = p THEN v ELSE parcels[q]
    BY <2>1, ParcelSet, Zenon
  <2>4. PICK n \in Nat :
          /\ DOMAIN transfers' = DOMAIN transfers \cup {n}
          /\ \A u \in DOMAIN transfers : transfers'[u] = transfers[u]
          /\ transfers'[n] = r
    <3>1. transfers \in Seq(TransferRecords) /\ r \in TransferRecords
      BY <2>1, <1>k DEF Typed
    <3> DEFINE n == Len(transfers) + 1
    <3>2. /\ n \in Nat /\ n \notin DOMAIN transfers
          /\ DOMAIN Append(transfers, r) = DOMAIN transfers \cup {n}
          /\ \A u \in DOMAIN transfers : Append(transfers, r)[u] = transfers[u]
          /\ Append(transfers, r)[n] = r
      BY <3>1, Added
    <3>3. transfers' = Append(transfers, r)
      BY <2>1
    <3> HIDE DEF n
    <3> QED BY ONLY <3>2, <3>3
  <2>5. Range(<<>>) = {} /\ Cardinality({}) = 0 /\ Len(<<>>) = 0
    BY FS_EmptySet DEF Range
  <2>6. Vouched(n)'
    BY <2>1, <2>4, <2>5 DEF Vouched
  <2> QED BY <2>2, <2>3, <2>4, <2>6, AttestedKept
<1>10. ASSUME NEW t \in DOMAIN transfers, Object(t) \/ CompleteTransfer(t)
       PROVE  Attested'
  <2> DEFINE p == transfers[t].parcel
  <2>0. transfers[t] \in TransferRecords /\ p \in DOMAIN parcels /\ parcels[p] \in ParcelRecords
    BY <1>k, Held
  <2>1. PICK r \in TransferRecords, v \in ParcelRecords :
          /\ transfers' = [transfers EXCEPT ![t] = r] /\ r.parcel = transfers[t].parcel
          /\ r.attestors = transfers[t].attestors /\ r.validatedBy = transfers[t].validatedBy
          /\ parcels' = [parcels EXCEPT ![p] = v] /\ v.office = parcels[p].office
    BY <1>10, <2>0, Ends
  <2>2. \A q \in DOMAIN parcels : parcels'[q] = IF q = p THEN v ELSE parcels[q]
    BY <2>0, <2>1, ParcelSet, Zenon
  <2>3. /\ DOMAIN transfers' = DOMAIN transfers
        /\ \A u \in DOMAIN transfers : transfers'[u] = IF u = t THEN r ELSE transfers[u]
    BY <2>1, TransferSet, Zenon
  <2>4. \A q \in DOMAIN parcels : parcels'[q].office = parcels[q].office
    BY <2>1, <2>2
  <2>5. Vouched(t)'
    <3>1. transfers'[t] = r
      BY <2>3
    <3>2. ParcelOf(t)'.office = ParcelOf(t).office
      BY <3>1, <2>0, <2>1, <2>4 DEF ParcelOf
    <3> QED BY <3>1, <3>2, <2>1, <1>a DEF Vouched
  <2> QED BY <2>1, <2>3, <2>4, <2>5, AttestedKept
<1>11. ASSUME NEW p \in ParamChoices, UpdateParams(p) PROVE Attested'
  BY <1>1, <1>11 DEF UpdateParams
<1>12. CASE NextBlock
  BY <1>1, <1>12 DEF NextBlock
<1> QED BY <1>2, <1>3, <1>5, <1>6, <1>7, <1>8, <1>9, <1>10, <1>11, <1>12 DEF Next
----------------------------------------------------------------------------
(* One sale at a time. *)

\* The sales of a parcel, where the step is about a sale of another one or
\* leaves every sale as open as it was.
LEMMA SalesKept ==
  ASSUME NEW p, parcels'[p] = parcels[p], SoldOnceAtMost(p), Room(p),
         OpenSales(p)' = OpenSales(p),
         \A u \in DOMAIN transfers :
            u \in DOMAIN transfers' /\ transfers'[u].from = transfers[u].from
  PROVE  SoldOnceAtMost(p)' /\ Room(p)'
BY DEF SoldOnceAtMost, Room, SalesToCome, Lifted, Standing, FreezeToLift

\* What is counted is finite.
LEMMA Counts ==
  ASSUME Typed, NEW p \in DOMAIN parcels
  PROVE  /\ IsFiniteSet(OpenSales(p)) /\ Cardinality(OpenSales(p)) \in Nat
         /\ IsFiniteSet(Lifted(p)) /\ Cardinality(Lifted(p)) \in Nat
<1>1. /\ Len(transfers) \in Nat /\ DOMAIN transfers = 1 .. Len(transfers)
      /\ parcels[p] \in ParcelRecords
  BY Held DEF Typed
<1>2. Len(parcels[p].freezes) \in Nat /\ DOMAIN parcels[p].freezes = 1 .. Len(parcels[p].freezes)
  BY <1>1 DEF ParcelRecords
<1>3. IsFiniteSet(DOMAIN transfers) /\ IsFiniteSet(DOMAIN parcels[p].freezes)
  BY <1>1, <1>2, FS_Interval
<1>4. OpenSales(p) \subseteq DOMAIN transfers /\ Lifted(p) \subseteq DOMAIN parcels[p].freezes
  BY DEF OpenSales, Lifted
<1>5. IsFiniteSet(OpenSales(p)) /\ IsFiniteSet(Lifted(p))
  BY <1>3, <1>4, FS_Subset
<1> QED BY <1>5, FS_CardinalityType

\* A freeze lets no sale in: it is one more nobody has lifted.
LEMMA FreezeCounts ==
  ASSUME Typed, NEW p \in DOMAIN parcels, NEW o, FreezeParcel(o, p)
  PROVE  Lifted(p)' = Lifted(p) /\ parcels'[p].status = "frozen" /\ FreezeToLift(p)'
<1> DEFINE g == parcels[p].freezes
           f == Append(g, [lifted |-> FALSE])
<1>1. parcels[p] \in ParcelRecords
  BY Held DEF Typed
<1>2. g \in Seq([lifted : BOOLEAN])
  BY <1>1 DEF ParcelRecords
<1>3. parcels'[p].freezes = f /\ parcels'[p].status = "frozen"
  BY <1>1 DEF FreezeParcel, Typed, ParcelRecords
<1> HIDE DEF g
<1>4. /\ Len(g) \in Nat /\ Len(f) = Len(g) + 1 /\ DOMAIN f = DOMAIN g \cup {Len(g) + 1}
      /\ \A i \in DOMAIN g : f[i] = g[i]
      /\ f[Len(g) + 1] = [lifted |-> FALSE]
  BY <1>2, Added
<1> HIDE DEF f
<1>5. /\ Lifted(p) = {i \in DOMAIN g : g[i].lifted}
      /\ Lifted(p)' = {i \in DOMAIN f : f[i].lifted}
  BY <1>3 DEF Lifted, Standing, g
<1>6. Lifted(p)' = Lifted(p)
  BY <1>4, <1>5
<1>7. FreezeToLift(p)'
  BY <1>3, <1>4 DEF FreezeToLift
<1> QED BY <1>3, <1>6, <1>7

\* Lifting a freeze of frozen land is one more that has been lifted.
LEMMA ReleaseCounts ==
  ASSUME Typed, NEW p \in DOMAIN parcels, NEW o, UnfreezeParcel(o, p), FreezeToLift(p)
  PROVE  /\ \E k \in DOMAIN parcels[p].freezes :
              k \notin Lifted(p) /\ Lifted(p)' = Lifted(p) \cup {k}
         /\ parcels'[p].status = "registered"
<1> DEFINE g == parcels[p].freezes
           k == Max(Standing(p))
           f == [i \in DOMAIN g |->
                  IF Standing(p) # {} /\ i = k THEN [g[i] EXCEPT !.lifted = TRUE] ELSE g[i]]
<1>1. parcels[p] \in ParcelRecords
  BY Held DEF Typed
<1>2. g \in Seq([lifted : BOOLEAN]) /\ parcels[p].status = "frozen"
  BY <1>1 DEF ParcelRecords, UnfreezeParcel
<1>3. parcels'[p].freezes = f /\ parcels'[p].status = "registered"
  BY <1>1 DEF UnfreezeParcel, Typed, ParcelRecords
<1>4. k \in Standing(p)
  <2>1. Len(g) \in Nat /\ DOMAIN g = 1 .. Len(g) /\ Len(g) \in DOMAIN g /\ ~g[Len(g)].lifted
    BY <1>2 DEF FreezeToLift
  <2>2. Standing(p) = {i \in DOMAIN g : ~g[i].lifted}
    BY DEF Standing
  <2> HIDE DEF g
  <2>3. Len(g) \in Standing(p) /\ \A i \in Standing(p) : Len(g) >= i
    BY <2>1, <2>2
  <2> QED BY <2>3 DEF Max
<1> HIDE DEF k
<1>5. k \in DOMAIN g /\ ~g[k].lifted
  BY <1>4 DEF Standing
<1>6. /\ Lifted(p) = {i \in DOMAIN g : g[i].lifted}
      /\ Lifted(p)' = {i \in DOMAIN f : f[i].lifted}
  <2> HIDE DEF f
  <2> QED BY <1>3 DEF Lifted, Standing
<1> HIDE DEF g
<1>7. \A i \in DOMAIN g : g[i] \in [lifted : BOOLEAN]
  BY <1>2, Held, Zenon
<1>8. DOMAIN f = DOMAIN g /\ \A i \in DOMAIN g : f[i].lifted <=> (g[i].lifted \/ i = k)
  BY <1>4, <1>5, <1>7
<1> HIDE DEF f
<1>9. Lifted(p)' = Lifted(p) \cup {k} /\ k \notin Lifted(p)
  BY <1>5, <1>6, <1>8
<1> QED BY <1>3, <1>5, <1>9 DEF g

LEMMA StepOneSale == Typed /\ SalesInv /\ [Next]_vars => SalesInv'
<1> SUFFICES ASSUME Typed, SalesInv, [Next]_vars PROVE SalesInv'
  OBVIOUS
<1>k. /\ parcels \in Seq(ParcelRecords) /\ transfers \in Seq(TransferRecords)
      /\ \A t \in DOMAIN transfers : transfers[t].parcel \in DOMAIN parcels
  BY DEF Typed
<1>a. \A p \in DOMAIN parcels : SoldOnceAtMost(p) /\ Room(p)
  BY DEF SalesInv
<1>q. ASSUME \A p \in DOMAIN parcels' : SoldOnceAtMost(p)' /\ Room(p)' PROVE SalesInv'
  BY <1>q DEF SalesInv
<1>1. ASSUME parcels' = parcels, transfers' = transfers PROVE SalesInv'
  <2>1. \A q : OpenSales(q)' = OpenSales(q)
    BY <1>1 DEF OpenSales, pending
  <2>2. ASSUME NEW q \in DOMAIN parcels PROVE SoldOnceAtMost(q)' /\ Room(q)'
    BY <1>1, <2>1, <1>a, SalesKept
  <2> QED BY <1>1, <2>2, <1>q
<1>2. CASE UNCHANGED vars
  BY <1>1, <1>2 DEF vars
<1>3. ASSUME NEW o, NEW activate, RegisterAuthority(o, activate) \/ MoveScope(o)
      PROVE  SalesInv'
  BY <1>1, <1>3 DEF RegisterAuthority, MoveScope
<1>5. ASSUME NEW o \in Offices, NEW g \in Grounds, NEW r \in References, NEW h \in People,
             RegisterParcel(o, g, r, h)
      PROVE  SalesInv'
  <2>1. PICK v \in ParcelRecords :
          /\ parcels' = Append(parcels, v) /\ transfers' = transfers
          /\ v.status = "registered" /\ v.freezes = <<>>
    BY <1>5, Registers, Zenon
  <2>2. PICK n \in Nat :
          /\ DOMAIN parcels' = DOMAIN parcels \cup {n} /\ n \notin DOMAIN parcels
          /\ \A q \in DOMAIN parcels : parcels'[q] = parcels[q]
          /\ parcels'[n] = v
    BY <2>1, <1>k, Added
  <2>3. \A q : OpenSales(q)' = OpenSales(q)
    BY <2>1 DEF OpenSales, pending
  <2>4. OpenSales(n) = {}
    BY <2>2, <1>k DEF OpenSales
  <2>5. SoldOnceAtMost(n)'
    BY <2>1, <2>2, <2>3, <2>4 DEF SoldOnceAtMost
  <2>7. Room(n)'
    <3>1. Cardinality(OpenSales(n)') = 0 /\ parcels'[n].freezes = <<>> /\ parcels'[n].status = "registered"
      BY <2>1, <2>2, <2>3, <2>4, FS_EmptySet
    <3>2. Lifted(n)' = {}
      BY <3>1 DEF Lifted
    <3>3. Cardinality(Lifted(n)') = 0
      BY <3>2, FS_EmptySet
    <3> QED BY <3>1, <3>3 DEF Room, SalesToCome, FreezeToLift
  <2>6. ASSUME NEW q \in DOMAIN parcels PROVE SoldOnceAtMost(q)' /\ Room(q)'
    BY <2>1, <2>2, <2>3, <1>a, SalesKept
  <2> QED BY <2>2, <2>5, <2>6, <2>7, <1>q
<1>6. ASSUME NEW o, NEW p \in DOMAIN parcels, FreezeParcel(o, p) \/ UnfreezeParcel(o, p)
      PROVE  SalesInv'
  <2>1. PICK v \in ParcelRecords :
          /\ parcels' = [parcels EXCEPT ![p] = v] /\ transfers' = transfers
          /\ v.freezes # <<>> \/ (OpenSales(p) = {} /\ v.status = "registered")
    BY <1>6, Freezes, Zenon
  <2>2. /\ DOMAIN parcels' = DOMAIN parcels
        /\ \A q \in DOMAIN parcels : parcels'[q] = IF q = p THEN v ELSE parcels[q]
    BY <2>1, ParcelSet, Zenon
  <2>3. \A q : OpenSales(q)' = OpenSales(q)
    BY <2>1 DEF OpenSales, pending
  <2>4. SoldOnceAtMost(p)'
    BY <2>1, <2>2, <2>3 DEF SoldOnceAtMost
  <2>5. ASSUME NEW q \in DOMAIN parcels, q # p PROVE SoldOnceAtMost(q)' /\ Room(q)'
    BY <2>1, <2>2, <2>3, <2>5, <1>a, SalesKept
  <2>6. Room(p)'
    <3>1. Cardinality(OpenSales(p)) \in Nat /\ IsFiniteSet(Lifted(p)) /\ Cardinality(Lifted(p)) \in Nat
      BY Counts
    <3>2. CASE FreezeParcel(o, p)
      <4>1. Lifted(p)' = Lifted(p) /\ parcels'[p].status = "frozen" /\ FreezeToLift(p)'
        BY <3>2, FreezeCounts
      <4> QED BY <3>1, <4>1, <2>3, <1>a DEF Room, SalesToCome
    <3>3. CASE UnfreezeParcel(o, p)
      <4>1. FreezeToLift(p) /\ parcels[p].status = "frozen"
        BY <3>3, <1>a DEF Room, UnfreezeParcel
      <4>2. PICK k : k \notin Lifted(p) /\ Lifted(p)' = Lifted(p) \cup {k}
        BY <3>3, <4>1, ReleaseCounts, Zenon
      <4>3. parcels'[p].status = "registered"
        BY <3>3, <4>1, ReleaseCounts, Zenon
      <4>4. Cardinality(Lifted(p)') = Cardinality(Lifted(p)) + 1
        BY <3>1, <4>2, FS_AddElement
      <4>5. Cardinality(OpenSales(p)) <= 1 + Cardinality(Lifted(p))
        BY <3>1, <4>1, <1>a DEF Room, SalesToCome
      <4> QED BY <3>1, <4>3, <4>4, <4>5, <2>3 DEF Room, SalesToCome, FreezeToLift
    <3> QED BY <1>6, <3>2, <3>3
  <2> QED BY <2>2, <2>4, <2>5, <2>6, <1>q
\* Words for a sale leave it as open as it was.
<1>v. ASSUME NEW t \in DOMAIN transfers, NEW r \in TransferRecords, parcels' = parcels,
             transfers' = [transfers EXCEPT ![t] = r],
             r.parcel = transfers[t].parcel, r.from = transfers[t].from,
             r.objected = transfers[t].objected, r.completedAt = transfers[t].completedAt
      PROVE  SalesInv'
  <2>1. /\ DOMAIN transfers' = DOMAIN transfers
        /\ \A u \in DOMAIN transfers : transfers'[u] = IF u = t THEN r ELSE transfers[u]
    BY <1>v, TransferSet, Zenon
  <2>2. \A q : OpenSales(q)' = OpenSales(q)
    BY <1>v, <2>1 DEF OpenSales, pending
  <2>3. ASSUME NEW q \in DOMAIN parcels PROVE SoldOnceAtMost(q)' /\ Room(q)'
    BY <1>v, <2>1, <2>2, <1>a, SalesKept
  <2> QED BY <1>v, <2>3, <1>q
<1>7. ASSUME NEW o \in Offices, NEW t \in DOMAIN transfers, ValidateTransfer(o, t)
      PROVE  SalesInv'
  <2> DEFINE r == [transfers[t] EXCEPT !.validatedBy = o]
  <2>1. /\ parcels' = parcels /\ r \in TransferRecords /\ transfers' = [transfers EXCEPT ![t] = r]
    BY <1>7, Validates
  <2>2. /\ r.parcel = transfers[t].parcel /\ r.from = transfers[t].from
        /\ r.objected = transfers[t].objected /\ r.completedAt = transfers[t].completedAt
    BY <1>k DEF TransferRecords
  <2> HIDE DEF r
  <2> QED BY <2>1, <2>2, <1>v
<1>8. ASSUME NEW o \in Offices, NEW t \in DOMAIN transfers, AttestTransfer(o, t)
      PROVE  SalesInv'
  <2> DEFINE s == Append(transfers[t].attestors, o)
  <2>1. PICK q \in Nat :
          LET r == [transfers[t] EXCEPT !.attestors = s, !.quorumAt = q]
          IN parcels' = parcels /\ r \in TransferRecords /\ transfers' = [transfers EXCEPT ![t] = r]
    BY <1>8, Attests
  <2> DEFINE r == [transfers[t] EXCEPT !.attestors = s, !.quorumAt = q]
  <2>2. /\ r.parcel = transfers[t].parcel /\ r.from = transfers[t].from
        /\ r.objected = transfers[t].objected /\ r.completedAt = transfers[t].completedAt
    <3>1. transfers[t] \in TransferRecords
      BY <1>k, Held
    <3> HIDE DEF s
    <3> QED BY <3>1 DEF TransferRecords
  <2>3. parcels' = parcels /\ r \in TransferRecords /\ transfers' = [transfers EXCEPT ![t] = r]
    BY <2>1
  <2> HIDE DEF r
  <2> QED BY <2>2, <2>3, <1>v
<1>9. ASSUME NEW p \in DOMAIN parcels, NEW to \in People, ProposeTransfer(p, to)
      PROVE  SalesInv'
  <2>0. parcels[p] \in ParcelRecords
    BY <1>k, Held
  <2>1. PICK r \in TransferRecords, v \in ParcelRecords :
          /\ transfers' = Append(transfers, r) /\ parcels' = [parcels EXCEPT ![p] = v]
          /\ parcels[p].status = "registered"
          /\ r.parcel = p /\ r.from = parcels[p].holder
          /\ r.completedAt = 0 /\ ~r.objected
          /\ v = [parcels[p] EXCEPT !.status = "transfer_pending"]
    BY <1>9, Proposes
  <2>2. /\ v.holder = parcels[p].holder /\ v.freezes = parcels[p].freezes
        /\ v.status = "transfer_pending"
    BY <2>0, <2>1 DEF ParcelRecords
  <2>3. /\ DOMAIN parcels' = DOMAIN parcels
        /\ \A q \in DOMAIN parcels : parcels'[q] = IF q = p THEN v ELSE parcels[q]
    BY <2>1, ParcelSet, Zenon
  <2>4. PICK n \in Nat :
          /\ DOMAIN transfers' = DOMAIN transfers \cup {n} /\ n \notin DOMAIN transfers
          /\ \A u \in DOMAIN transfers : transfers'[u] = transfers[u]
          /\ transfers'[n] = r
    <3>1. transfers \in Seq(TransferRecords) /\ r \in TransferRecords
      BY <2>1, <1>k DEF Typed
    <3> DEFINE n == Len(transfers) + 1
    <3>2. /\ n \in Nat /\ n \notin DOMAIN transfers
          /\ DOMAIN Append(transfers, r) = DOMAIN transfers \cup {n}
          /\ \A u \in DOMAIN transfers : Append(transfers, r)[u] = transfers[u]
          /\ Append(transfers, r)[n] = r
      BY <3>1, Added
    <3>3. transfers' = Append(transfers, r)
      BY <2>1
    <3> HIDE DEF n
    <3> QED BY ONLY <3>2, <3>3
  <2>5. /\ OpenSales(p)' = OpenSales(p) \cup {n}
        /\ \A q \in DOMAIN parcels : q # p => OpenSales(q)' = OpenSales(q)
    <3>1. ASSUME NEW q, NEW u
          PROVE  u \in OpenSales(q)' <=> u \in OpenSales(q) \/ (u = n /\ q = p)
      <4>1. u \in OpenSales(q)' <=> /\ u \in DOMAIN transfers'
                                    /\ transfers'[u].parcel = q
                                    /\ transfers'[u].completedAt = 0 /\ ~transfers'[u].objected
        BY DEF OpenSales, pending
      <4>2. u \in OpenSales(q) <=> /\ u \in DOMAIN transfers /\ transfers[u].parcel = q
                                   /\ transfers[u].completedAt = 0 /\ ~transfers[u].objected
        BY DEF OpenSales, pending
      <4>3. CASE u \in DOMAIN transfers
        BY <2>4, <4>1, <4>2, <4>3
      <4>4. CASE u = n
        <5>1. u \in DOMAIN transfers' /\ u \notin DOMAIN transfers /\ transfers'[u] = r
          BY <2>4, <4>4
        <5>2. r.parcel = p /\ r.completedAt = 0 /\ ~r.objected
          BY <2>1
        <5> QED BY <4>1, <4>2, <4>4, <5>1, <5>2, Zenon
      <4> QED BY <2>4, <4>1, <4>2, <4>3, <4>4
    <3>2. \A u : u \in OpenSales(p)' <=> u \in OpenSales(p) \cup {n}
      BY <3>1
    <3>3. OpenSales(p)' = OpenSales(p) \cup {n}
      BY ONLY <3>2, Zenon
    <3>4. ASSUME NEW q \in DOMAIN parcels, q # p PROVE OpenSales(q)' = OpenSales(q)
      <4>1. \A u : u \in OpenSales(q)' <=> u \in OpenSales(q)
        BY <3>1, <3>4
      <4> QED BY ONLY <4>1, Zenon
    <3> QED BY <3>3, <3>4
  <2>6. SoldOnceAtMost(p)'
    <3>1. parcels[p].freezes = <<>> => OpenSales(p) = {}
      BY <2>1, <1>a DEF SoldOnceAtMost
    <3>2. /\ parcels'[p] = v /\ n \in DOMAIN transfers'
          /\ transfers'[n].from = parcels'[p].holder
      BY <2>1, <2>2, <2>3, <2>4
    <3>3. parcels[p].freezes = <<>> => OpenSales(p)' = {n}
      BY <3>1, <2>5
    <3> QED BY <3>2, <3>3, <2>2 DEF SoldOnceAtMost
  <2>8. Room(p)'
    <3>1. /\ IsFiniteSet(OpenSales(p)) /\ Cardinality(OpenSales(p)) \in Nat
          /\ Cardinality(Lifted(p)) \in Nat
      BY Counts
    <3>2. n \notin OpenSales(p)
      BY <2>4 DEF OpenSales
    <3>3. Cardinality(OpenSales(p)') = Cardinality(OpenSales(p)) + 1
      BY <3>1, <3>2, <2>5, FS_AddElement
    <3>4. Lifted(p)' = Lifted(p) /\ parcels'[p].status = "transfer_pending"
      BY <2>2, <2>3 DEF Lifted, Standing
    <3>5. Cardinality(OpenSales(p)) + 1 <= 1 + Cardinality(Lifted(p))
      BY <2>1, <1>a DEF Room, SalesToCome
    <3> QED BY <3>1, <3>3, <3>4, <3>5 DEF Room, SalesToCome, FreezeToLift
  <2>7. ASSUME NEW q \in DOMAIN parcels, q # p PROVE SoldOnceAtMost(q)' /\ Room(q)'
    BY <2>3, <2>4, <2>5, <2>7, <1>a, SalesKept
  <2> QED BY <2>3, <2>6, <2>7, <2>8, <1>q
<1>10. ASSUME NEW t \in DOMAIN transfers, Object(t) \/ CompleteTransfer(t)
       PROVE  SalesInv'
  <2>0. PICK p \in DOMAIN parcels : p = transfers[t].parcel
    BY <1>k
  <2>1. PICK r \in TransferRecords, v \in ParcelRecords :
          /\ pending(t) /\ p \in DOMAIN parcels
          /\ transfers' = [transfers EXCEPT ![t] = r] /\ r.parcel = transfers[t].parcel
          /\ r.from = transfers[t].from /\ (r.objected \/ r.completedAt # 0)
          /\ parcels' = [parcels EXCEPT ![p] = v]
          /\ v.status \in {"disputed", "registered"} /\ v.freezes = parcels[p].freezes
    BY <1>10, <2>0, Ends
  <2>2. /\ DOMAIN parcels' = DOMAIN parcels
        /\ \A q \in DOMAIN parcels : parcels'[q] = IF q = p THEN v ELSE parcels[q]
    BY <2>1, ParcelSet, Zenon
  <2>3. /\ DOMAIN transfers' = DOMAIN transfers
        /\ \A u \in DOMAIN transfers : transfers'[u] = IF u = t THEN r ELSE transfers[u]
    BY <2>1, TransferSet, Zenon
  <2>4. /\ OpenSales(p)' = OpenSales(p) \ {t} /\ t \in OpenSales(p)
        /\ \A q \in DOMAIN parcels : q # p => OpenSales(q)' = OpenSales(q)
    BY <2>0, <2>1, <2>3 DEF OpenSales, pending
  <2>5. SoldOnceAtMost(p)'
    <3>1. parcels[p].freezes = <<>> => OpenSales(p) = {t}
      BY <2>1, <2>4, <1>a DEF SoldOnceAtMost
    <3> QED BY <3>1, <2>1, <2>2, <2>4 DEF SoldOnceAtMost
  <2>6. ASSUME NEW q \in DOMAIN parcels, q # p PROVE SoldOnceAtMost(q)' /\ Room(q)'
    BY <2>1, <2>2, <2>3, <2>4, <2>6, <1>a, SalesKept
  <2>7. Room(p)'
    <3>1. /\ IsFiniteSet(OpenSales(p)) /\ Cardinality(OpenSales(p)) \in Nat
          /\ Cardinality(Lifted(p)) \in Nat
      BY Counts
    <3>2. Cardinality(OpenSales(p)') = Cardinality(OpenSales(p)) - 1
      BY <3>1, <2>4, FS_RemoveElement
    <3>3. Lifted(p)' = Lifted(p) /\ parcels'[p].status # "frozen"
      BY <2>1, <2>2 DEF Lifted, Standing
    <3>4. Cardinality(OpenSales(p)) <= 1 + Cardinality(Lifted(p))
      BY <3>1, <1>a DEF Room, SalesToCome
    <3> QED BY <3>1, <3>2, <3>3, <3>4 DEF Room, SalesToCome, FreezeToLift
  <2> QED BY <2>2, <2>5, <2>6, <2>7, <1>q
<1>11. ASSUME NEW p \in ParamChoices, UpdateParams(p) PROVE SalesInv'
  BY <1>1, <1>11 DEF UpdateParams
<1>12. CASE NextBlock
  BY <1>1, <1>12 DEF NextBlock
<1> QED BY <1>2, <1>3, <1>5, <1>6, <1>7, <1>8, <1>9, <1>10, <1>11, <1>12 DEF Next
----------------------------------------------------------------------------
(* The theorems. *)

LEMMA StepInv == IInv /\ [Next]_vars => IInv'
BY StepTyped, StepAttested, StepOneSale DEF IInv

\* A parcel has one open sale at most, proposed by whoever holds it, and one
\* more only for every freeze that has been lifted, however many people sell,
\* object and complete and whatever governance and the offices do
\* (ProposeTransfer, FreezeParcel, Object, CompleteTransfer).
THEOREM SoldOnce == Spec => []OneSaleAtATime
<1>1. IInv => OneSaleAtATime
  BY DEF IInv, SalesInv, Room, OneSaleAtATime
<1> QED BY <1>1, InitInv, StepInv, PTL DEF Spec

\* A step that gives a parcel to somebody else completes a sale of it to them.
LEMMA StepTitle ==
  ASSUME IInv, [Next]_vars, NEW p \in DOMAIN parcels, parcels'[p].holder # parcels[p].holder
  PROVE  \E t \in DOMAIN transfers :
           transfers[t].parcel = p /\ transfers[t].to = parcels'[p].holder /\ ripe(t)
<1>k. /\ Typed /\ SalesInv
      /\ parcels \in Seq(ParcelRecords) /\ transfers \in Seq(TransferRecords)
  BY DEF IInv, Typed
<1>1. parcels' # parcels
  OBVIOUS
<1>2. ASSUME NEW o \in Offices, NEW g \in Grounds, NEW r \in References, NEW h \in People,
             RegisterParcel(o, g, r, h)
      PROVE  FALSE
  <2>1. PICK v \in ParcelRecords : parcels' = Append(parcels, v)
    BY <1>2, <1>k, Registers, Zenon
  <2> QED BY <2>1, <1>k, Added
<1>3. ASSUME NEW o, NEW q \in DOMAIN parcels, FreezeParcel(o, q) \/ UnfreezeParcel(o, q)
      PROVE  FALSE
  <2>1. PICK v \in ParcelRecords :
          parcels' = [parcels EXCEPT ![q] = v] /\ v.holder = parcels[q].holder
    BY <1>3, <1>k, Freezes, Zenon
  <2> QED BY <2>1, <1>k, ParcelSet
<1>4. ASSUME NEW q \in DOMAIN parcels, NEW to \in People, ProposeTransfer(q, to) PROVE FALSE
  <2>0. parcels[q] \in ParcelRecords
    BY <1>k, Held
  <2>1. PICK v \in ParcelRecords :
          /\ parcels' = [parcels EXCEPT ![q] = v]
          /\ v = [parcels[q] EXCEPT !.status = "transfer_pending"]
    BY <1>4, <1>k, Proposes
  <2>2. v.holder = parcels[q].holder
    BY <2>0, <2>1 DEF ParcelRecords
  <2> QED BY <2>1, <2>2, <1>k, ParcelSet
<1>5. ASSUME NEW t \in DOMAIN transfers, Object(t) PROVE FALSE
  <2> DEFINE q == transfers[t].parcel
             v == [parcels[q] EXCEPT !.status = "disputed"]
  <2>1. q \in DOMAIN parcels /\ v \in ParcelRecords /\ parcels' = [parcels EXCEPT ![q] = v]
    BY <1>5, <1>k, Objects
  <2>2. v.holder = parcels[q].holder
    <3>1. parcels[q] \in ParcelRecords
      BY <2>1, <1>k, Held
    <3> QED BY <3>1 DEF ParcelRecords
  <2> HIDE DEF v
  <2> QED BY <2>1, <2>2, <1>k, ParcelSet
<1>6. ASSUME NEW t \in DOMAIN transfers, CompleteTransfer(t)
      PROVE  transfers[t].parcel = p /\ transfers[t].to = parcels'[p].holder /\ ripe(t)
  <2> DEFINE q == transfers[t].parcel
             v == [parcels[q] EXCEPT !.holder = transfers[t].to, !.status = "registered"]
  <2>1. q \in DOMAIN parcels /\ v \in ParcelRecords /\ parcels' = [parcels EXCEPT ![q] = v]
    BY <1>6, <1>k, Completes
  <2>2. v.holder = transfers[t].to
    <3> DEFINE old == parcels[q]
               new == transfers[t].to
    <3>1. v = [old EXCEPT !.holder = new, !.status = "registered"]
      OBVIOUS
    <3>2. DOMAIN old = {"ground", "ref", "holder", "office", "status", "freezes"}
      <4>1. old \in ParcelRecords
        BY <2>1, <1>k, Held
      <4> HIDE DEF old
      <4> QED BY ONLY <4>1, ParcelFields
    <3> HIDE DEF old, new, v
    <3>3. v.holder = new
      BY ONLY <3>1, <3>2
    <3> QED BY <3>3 DEF new
  <2>3. ripe(t)
    BY <1>6 DEF CompleteTransfer
  <2> HIDE DEF v
  <2> QED BY <2>1, <2>2, <2>3, <1>k, ParcelSet
<1>7. PICK t \in DOMAIN transfers : CompleteTransfer(t)
  BY <1>1, <1>2, <1>3, <1>4, <1>5
     DEF Next, vars, RegisterAuthority, MoveScope, ValidateTransfer, AttestTransfer,
         UpdateParams, NextBlock
<1> QED BY <1>6, <1>7

\* Land changes hands by a sale the office that keeps the file validated, on
\* the word of as many different, independent offices as the quorum asks, after
\* its window and with nobody objecting, whatever the quorum, the offices and
\* their perimeters were on the way (ValidateTransfer, AttestTransfer, Object,
\* CompleteTransfer).
THEOREM TitleAlwaysNeedsMany == Spec => TitleNeedsMany
<1> DEFINE Moved ==
      \A p \in DOMAIN parcels : parcels'[p].holder # parcels[p].holder =>
        \E t \in DOMAIN transfers :
          /\ transfers[t].parcel = p /\ transfers[t].to = parcels'[p].holder
          /\ transfers[t].validatedBy = parcels[p].office
          /\ Cardinality(Independent(t)) >= params.quorum
          /\ transfers[t].quorumAt # 0 /\ now >= transfers[t].quorumAt + params.window
          /\ ~transfers[t].objected
<1>1. IInv /\ [Next]_vars => [Moved]_vars
  <2> SUFFICES ASSUME IInv, [Next]_vars, NEW p \in DOMAIN parcels,
                      parcels'[p].holder # parcels[p].holder
               PROVE  \E t \in DOMAIN transfers :
                        /\ transfers[t].parcel = p /\ transfers[t].to = parcels'[p].holder
                        /\ transfers[t].validatedBy = parcels[p].office
                        /\ Cardinality(Independent(t)) >= params.quorum
                        /\ transfers[t].quorumAt # 0
                        /\ now >= transfers[t].quorumAt + params.window
                        /\ ~transfers[t].objected
    OBVIOUS
  <2>1. PICK t \in DOMAIN transfers :
          transfers[t].parcel = p /\ transfers[t].to = parcels'[p].holder /\ ripe(t)
    BY StepTitle
  <2>2. Vouched(t) /\ ParcelOf(t) = parcels[p]
    BY <2>1 DEF IInv, Attested, ParcelOf
  <2>3. Independent(t) = Range(transfers[t].attestors)
    BY <2>2 DEF Vouched, Independent
  <2>4. /\ ~transfers[t].objected /\ transfers[t].validatedBy # NoOffice
        /\ Len(transfers[t].attestors) >= params.quorum /\ transfers[t].quorumAt # 0
        /\ now >= transfers[t].quorumAt + params.window
    BY <2>1 DEF ripe, Agreed, pending
  <2> QED BY <2>1, <2>2, <2>3, <2>4 DEF Vouched
<1>2. IInv /\ [][Next]_vars => [][Moved]_vars
  BY <1>1, StepInv, PTL
<1> QED BY <1>2, InitInv, PTL DEF Spec, TitleNeedsMany

----------------------------------------------------------------------------
(* A sale that is decided. *)

\* A transfer says for good what is sold, by whom and to whom, and one that is
\* completed or objected to is never written again.
Written(t) ==
  /\ t \in DOMAIN transfers'
  /\ transfers'[t].parcel = transfers[t].parcel
  /\ transfers'[t].from = transfers[t].from /\ transfers'[t].to = transfers[t].to
  /\ ~pending(t) => transfers'[t] = transfers[t]

\* The same of every transfer in every step (ValidateTransfer, AttestTransfer,
\* Object and CompleteTransfer return early on a transfer that is not pending).
DecidedSalesStand == [][\A t \in DOMAIN transfers : Written(t)]_vars

LEMMA RecordWritten ==
  ASSUME Typed, NEW u \in DOMAIN transfers, pending(u), NEW r \in TransferRecords,
         transfers' = [transfers EXCEPT ![u] = r], r.parcel = transfers[u].parcel,
         r.from = transfers[u].from, r.to = transfers[u].to
  PROVE  \A t \in DOMAIN transfers : Written(t)
<1>1. /\ DOMAIN transfers' = DOMAIN transfers
      /\ \A t \in DOMAIN transfers : transfers'[t] = IF t = u THEN r ELSE transfers[t]
  BY TransferSet
<1> QED BY <1>1, Zenon DEF Written

\* The parts of a record that an update of others leaves alone.
LEMMA PartsKept ==
  ASSUME NEW old \in TransferRecords, NEW o, NEW f, NEW q
  PROVE  /\ LET r == [old EXCEPT !.validatedBy = o]
            IN  r.parcel = old.parcel /\ r.from = old.from /\ r.to = old.to
         /\ LET r == [old EXCEPT !.attestors = f, !.quorumAt = q]
            IN  r.parcel = old.parcel /\ r.from = old.from /\ r.to = old.to
         /\ LET r == [old EXCEPT !.objected = TRUE]
            IN  r.parcel = old.parcel /\ r.from = old.from /\ r.to = old.to
         /\ LET r == [old EXCEPT !.completedAt = q]
            IN  r.parcel = old.parcel /\ r.from = old.from /\ r.to = old.to
BY DEF TransferRecords

LEMMA StepWritten ==
  Typed /\ SalesInv /\ [Next]_vars => [\A t \in DOMAIN transfers : Written(t)]_vars
<1> SUFFICES ASSUME Typed, SalesInv, Next PROVE \A t \in DOMAIN transfers : Written(t)
  OBVIOUS
<1>k. /\ transfers \in Seq(TransferRecords)
      /\ \A t \in DOMAIN transfers : transfers[t] \in TransferRecords
  BY Held DEF Typed
<1>1. transfers' = transfers => \A t \in DOMAIN transfers : Written(t)
  BY DEF Written
<1>2. ASSUME NEW p \in DOMAIN parcels, NEW to \in People, ProposeTransfer(p, to)
      PROVE  \A t \in DOMAIN transfers : Written(t)
  <2>1. PICK r \in TransferRecords : transfers' = Append(transfers, r)
    BY <1>2, Proposes
  <2>2. /\ DOMAIN transfers \subseteq DOMAIN transfers'
        /\ \A t \in DOMAIN transfers : transfers'[t] = transfers[t]
    BY <2>1, <1>k, Added
  <2> QED BY <2>2, Zenon DEF Written
<1>3. ASSUME NEW o \in Offices, NEW u \in DOMAIN transfers, ValidateTransfer(o, u)
      PROVE  \A t \in DOMAIN transfers : Written(t)
  <2> DEFINE r == [transfers[u] EXCEPT !.validatedBy = o]
  <2>1. pending(u) /\ r \in TransferRecords /\ transfers' = [transfers EXCEPT ![u] = r]
    BY <1>3, Validates
  <2>2. r.parcel = transfers[u].parcel /\ r.from = transfers[u].from /\ r.to = transfers[u].to
    BY <1>k, PartsKept
  <2> HIDE DEF r
  <2> QED BY <2>1, <2>2, RecordWritten
<1>4. ASSUME NEW o \in Offices, NEW u \in DOMAIN transfers, AttestTransfer(o, u)
      PROVE  \A t \in DOMAIN transfers : Written(t)
  <2> DEFINE f == Append(transfers[u].attestors, o)
  <2>1. PICK q \in Nat :
          LET r == [transfers[u] EXCEPT !.attestors = f, !.quorumAt = q]
          IN  pending(u) /\ r \in TransferRecords /\ transfers' = [transfers EXCEPT ![u] = r]
    BY <1>4, Attests
  <2> DEFINE r == [transfers[u] EXCEPT !.attestors = f, !.quorumAt = q]
  <2>2. r.parcel = transfers[u].parcel /\ r.from = transfers[u].from /\ r.to = transfers[u].to
    <3> HIDE DEF f
    <3> QED BY <1>k, PartsKept
  <2>3. pending(u) /\ r \in TransferRecords /\ transfers' = [transfers EXCEPT ![u] = r]
    BY <2>1
  <2> HIDE DEF r
  <2> QED BY <2>2, <2>3, RecordWritten
<1>5. ASSUME NEW u \in DOMAIN transfers, Object(u)
      PROVE  \A t \in DOMAIN transfers : Written(t)
  <2> DEFINE r == [transfers[u] EXCEPT !.objected = TRUE]
  <2>1. pending(u) /\ r \in TransferRecords /\ transfers' = [transfers EXCEPT ![u] = r]
    BY <1>5, Objects
  <2>2. r.parcel = transfers[u].parcel /\ r.from = transfers[u].from /\ r.to = transfers[u].to
    BY <1>k, PartsKept
  <2> HIDE DEF r
  <2> QED BY <2>1, <2>2, RecordWritten
<1>6. ASSUME NEW u \in DOMAIN transfers, CompleteTransfer(u)
      PROVE  \A t \in DOMAIN transfers : Written(t)
  <2> DEFINE r == [transfers[u] EXCEPT !.completedAt = now]
  <2>1. pending(u) /\ r \in TransferRecords /\ transfers' = [transfers EXCEPT ![u] = r]
    BY <1>6, Completes
  <2>2. r.parcel = transfers[u].parcel /\ r.from = transfers[u].from /\ r.to = transfers[u].to
    BY <1>k, PartsKept
  <2> HIDE DEF r
  <2> QED BY <2>1, <2>2, RecordWritten
<1> QED
  BY <1>1, <1>2, <1>3, <1>4, <1>5, <1>6
     DEF Next, RegisterAuthority, MoveScope, RegisterParcel, FreezeParcel, UnfreezeParcel,
         UpdateParams, NextBlock

\* What a transfer sells, by whom and to whom is never rewritten, and once it
\* is completed or objected to no office, holder or objector changes a word of
\* it: a sale is completed once, an objection is final, and the attestations a
\* title rests on stay on record (ValidateTransfer, AttestTransfer, Object,
\* CompleteTransfer, and the early returns of theirs).
THEOREM DecidedSalesAlwaysStand == Spec => DecidedSalesStand
<1>1. IInv /\ [Next]_vars => [\A t \in DOMAIN transfers : Written(t)]_vars
  BY StepWritten DEF IInv
<1>2. IInv /\ [][Next]_vars => [][\A t \in DOMAIN transfers : Written(t)]_vars
  BY <1>1, StepInv, PTL
<1> QED BY <1>2, InitInv, PTL DEF Spec, DecidedSalesStand
----------------------------------------------------------------------------
(* One title over one ground. *)

\* No two parcels have the same ground or the same reference (RegisterParcel
\* looks in ByGeometry and ByRef, and no other handler writes either).
OneTitle ==
  \A p, q \in DOMAIN parcels : p # q =>
    parcels[p].ground # parcels[q].ground /\ parcels[p].ref # parcels[q].ref

\* What a parcel is never changes: its ground, its reference, its office.
SameLand ==
  /\ DOMAIN parcels \subseteq DOMAIN parcels'
  /\ \A p \in DOMAIN parcels :
       /\ parcels'[p].ground = parcels[p].ground /\ parcels'[p].ref = parcels[p].ref
       /\ parcels'[p].office = parcels[p].office

\* The same in every step: no writer of a parcel touches what it is (the
\* freezes, transfers and objections that set the record of a parcel again).
LandIsFixed == [][SameLand]_vars

LEMMA StepLand == Typed /\ SalesInv /\ [Next]_vars => [SameLand]_vars
<1> SUFFICES ASSUME Typed, SalesInv, Next PROVE SameLand \/ UNCHANGED vars
  OBVIOUS
<1>k. /\ parcels \in Seq(ParcelRecords)
      /\ \A p \in DOMAIN parcels : parcels[p] \in ParcelRecords
  BY Held DEF Typed
<1>1. parcels' = parcels => SameLand
  BY DEF SameLand
<1>0. ASSUME NEW p \in DOMAIN parcels, NEW v \in ParcelRecords,
             parcels' = [parcels EXCEPT ![p] = v], v.ground = parcels[p].ground,
             v.ref = parcels[p].ref, v.office = parcels[p].office
      PROVE  SameLand
  <2>1. /\ DOMAIN parcels' = DOMAIN parcels
        /\ \A q \in DOMAIN parcels : parcels'[q] = IF q = p THEN v ELSE parcels[q]
    BY <1>0, ParcelSet
  <2> QED BY <1>0, <2>1, Zenon DEF SameLand
<1>2. ASSUME NEW o \in Offices, NEW g \in Grounds, NEW r \in References, NEW h \in People,
             RegisterParcel(o, g, r, h)
      PROVE  SameLand
  <2>1. PICK v \in ParcelRecords : parcels' = Append(parcels, v)
    BY <1>2, Registers, Zenon
  <2>2. /\ DOMAIN parcels \subseteq DOMAIN parcels'
        /\ \A p \in DOMAIN parcels : parcels'[p] = parcels[p]
    BY <2>1, <1>k, Added
  <2> QED BY <2>2, Zenon DEF SameLand
<1>3. ASSUME NEW o \in Offices, NEW p \in DOMAIN parcels,
             FreezeParcel(o, p) \/ UnfreezeParcel(o, p)
      PROVE  SameLand
  <2>1. PICK v \in ParcelRecords :
          /\ parcels' = [parcels EXCEPT ![p] = v] /\ v.ground = parcels[p].ground
          /\ v.ref = parcels[p].ref /\ v.office = parcels[p].office
    BY <1>3, Freezes, Zenon
  <2> QED BY <2>1, <1>0
<1>4. ASSUME NEW p \in DOMAIN parcels, NEW to \in People, ProposeTransfer(p, to)
      PROVE  SameLand
  <2>1. PICK v \in ParcelRecords :
          /\ parcels' = [parcels EXCEPT ![p] = v]
          /\ v = [parcels[p] EXCEPT !.status = "transfer_pending"]
    BY <1>4, Proposes
  <2>2. v.ground = parcels[p].ground /\ v.ref = parcels[p].ref /\ v.office = parcels[p].office
    BY <2>1, <1>k DEF ParcelRecords
  <2> QED BY <2>1, <2>2, <1>0
<1>5. ASSUME NEW t \in DOMAIN transfers, Object(t) PROVE SameLand
  <2> DEFINE p == transfers[t].parcel
             v == [parcels[p] EXCEPT !.status = "disputed"]
  <2>1. p \in DOMAIN parcels /\ v \in ParcelRecords /\ parcels' = [parcels EXCEPT ![p] = v]
    BY <1>5, Objects
  <2>2. v.ground = parcels[p].ground /\ v.ref = parcels[p].ref /\ v.office = parcels[p].office
    BY <2>1, <1>k DEF ParcelRecords
  <2> HIDE DEF v
  <2> QED BY <2>1, <2>2, <1>0
<1>6. ASSUME NEW t \in DOMAIN transfers, CompleteTransfer(t) PROVE SameLand
  <2> DEFINE p == transfers[t].parcel
             v == [parcels[p] EXCEPT !.holder = transfers[t].to, !.status = "registered"]
  <2>1. p \in DOMAIN parcels /\ v \in ParcelRecords /\ parcels' = [parcels EXCEPT ![p] = v]
    BY <1>6, Completes
  <2>2. v.ground = parcels[p].ground /\ v.ref = parcels[p].ref /\ v.office = parcels[p].office
    <3> DEFINE old == parcels[p]
               new == transfers[t].to
    <3>1. v = [old EXCEPT !.holder = new, !.status = "registered"]
      OBVIOUS
    <3>2. DOMAIN old = {"ground", "ref", "holder", "office", "status", "freezes"}
      <4>1. old \in ParcelRecords
        BY <2>1, <1>k
      <4> HIDE DEF old
      <4> QED BY ONLY <4>1, ParcelFields
    <3> HIDE DEF old, new, v
    <3>3. v.ground = old.ground /\ v.ref = old.ref /\ v.office = old.office
      BY ONLY <3>1, <3>2
    <3> QED BY <3>3 DEF old
  <2> HIDE DEF v
  <2> QED BY <2>1, <2>2, <1>0
<1> QED
  BY <1>1, <1>2, <1>3, <1>4, <1>5, <1>6
     DEF Next, RegisterAuthority, MoveScope, ValidateTransfer, AttestTransfer, UpdateParams,
         NextBlock

\* Registering is the only thing that adds a parcel.
LEMMA StepDomain ==
  ASSUME Typed, [Next]_vars
  PROVE  \/ \E o \in Offices, g \in Grounds, r \in References, h \in People :
              RegisterParcel(o, g, r, h)
         \/ DOMAIN parcels' = DOMAIN parcels
<1>1. ASSUME NEW o, NEW p, FreezeParcel(o, p) \/ UnfreezeParcel(o, p)
      PROVE  DOMAIN parcels' = DOMAIN parcels
  BY <1>1 DEF FreezeParcel, UnfreezeParcel
<1>2. ASSUME NEW p, NEW to, ProposeTransfer(p, to) PROVE DOMAIN parcels' = DOMAIN parcels
  BY <1>2 DEF ProposeTransfer
<1>3. ASSUME NEW t, Object(t) \/ CompleteTransfer(t) PROVE DOMAIN parcels' = DOMAIN parcels
  BY <1>3 DEF Object, CompleteTransfer
<1> QED
  BY <1>1, <1>2, <1>3
     DEF Next, vars, RegisterAuthority, MoveScope, ValidateTransfer, AttestTransfer,
         UpdateParams, NextBlock

LEMMA StepOneTitle ==
  Typed /\ SalesInv /\ OneTitle /\ [Next]_vars => OneTitle'
<1> SUFFICES ASSUME Typed, SalesInv, OneTitle, [Next]_vars PROVE OneTitle'
  OBVIOUS
<1>k. parcels \in Seq(ParcelRecords)
  BY DEF Typed
<1>1. SameLand \/ parcels' = parcels
  BY StepLand DEF vars
<1>2. CASE \E o \in Offices, g \in Grounds, r \in References, h \in People :
             RegisterParcel(o, g, r, h)
  <2>1. PICK o \in Offices, g \in Grounds, r \in References, h \in People :
          RegisterParcel(o, g, r, h)
    BY <1>2
  <2> DEFINE v == [ground |-> g, ref |-> r, holder |-> h, office |-> o,
                   status |-> "registered", freezes |-> <<>>]
  <2>2. v \in ParcelRecords /\ v.ground = g /\ v.ref = r
    BY DEF ParcelRecords
  <2>3. /\ parcels' = Append(parcels, v)
        /\ \A p \in DOMAIN parcels : parcels[p].ground # g /\ parcels[p].ref # r
    BY <2>1 DEF RegisterParcel
  <2> HIDE DEF v
  <2> DEFINE n == Len(parcels) + 1
  <2>4. /\ DOMAIN parcels' = DOMAIN parcels \cup {n} /\ n \notin DOMAIN parcels
        /\ \A p \in DOMAIN parcels : parcels'[p] = parcels[p]
        /\ parcels'[n] = v
    BY <2>2, <2>3, <1>k, Added
  <2> HIDE DEF n
  <2>5. ASSUME NEW p \in DOMAIN parcels', NEW q \in DOMAIN parcels', p # q
        PROVE  parcels'[p].ground # parcels'[q].ground /\ parcels'[p].ref # parcels'[q].ref
    <3>1. CASE p = n
      <4>1. q \in DOMAIN parcels
        BY <3>1, <2>4, <2>5
      <4> QED BY <3>1, <4>1, <2>2, <2>3, <2>4, Zenon
    <3>2. CASE q = n
      <4>1. p \in DOMAIN parcels
        BY <3>2, <2>4, <2>5
      <4> QED BY <3>2, <4>1, <2>2, <2>3, <2>4, Zenon
    <3>3. CASE p # n /\ q # n
      <4>1. p \in DOMAIN parcels /\ q \in DOMAIN parcels
        BY <3>3, <2>4
      <4>2. parcels[p].ground # parcels[q].ground /\ parcels[p].ref # parcels[q].ref
        BY <4>1, <2>5 DEF OneTitle
      <4> QED BY <4>1, <4>2, <2>4, Zenon
    <3> QED BY <3>1, <3>2, <3>3
  <2> QED BY <2>5 DEF OneTitle
<1>3. CASE DOMAIN parcels' = DOMAIN parcels
  <2>1. \A p \in DOMAIN parcels :
          parcels'[p].ground = parcels[p].ground /\ parcels'[p].ref = parcels[p].ref
    BY <1>1 DEF SameLand
  <2> QED BY <1>3, <2>1, Zenon DEF OneTitle
<1>4. \/ \E o \in Offices, g \in Grounds, r \in References, h \in People :
           RegisterParcel(o, g, r, h)
      \/ DOMAIN parcels' = DOMAIN parcels
  BY StepDomain
<1> QED BY <1>2, <1>3, <1>4

\* The ground a title is over, the reference it is filed under and the office
\* that keeps the file are those it was registered with, whatever is sold,
\* frozen or disputed (RegisterParcel, and every writer of Parcel after it).
THEOREM LandNeverMoves == Spec => LandIsFixed
<1>1. IInv /\ [Next]_vars => [SameLand]_vars
  BY StepLand DEF IInv
<1>2. IInv /\ [][Next]_vars => [][SameLand]_vars
  BY <1>1, StepInv, PTL
<1> QED BY <1>2, InitInv, PTL DEF Spec, LandIsFixed

\* However many parcels the offices register, no two titles are over the same
\* ground and no two files have the same reference: the uniqueness that
\* RegisterParcel checks once, when the parcel is new, is true for ever.
THEOREM OneTitleOneGround == Spec => []OneTitle
<1>1. Init => OneTitle
  <2> SUFFICES ASSUME Init PROVE OneTitle
    OBVIOUS
  <2>1. DOMAIN parcels = {}
    BY DEF Init
  <2> QED BY <2>1 DEF OneTitle
<1>2. IInv /\ OneTitle /\ [Next]_vars => OneTitle'
  BY StepOneTitle DEF IInv
<1> QED BY <1>1, <1>2, InitInv, StepInv, PTL DEF Spec

=============================================================================
