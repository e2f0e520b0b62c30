--------------------------- MODULE CeremonyProofs ---------------------------
(***************************************************************************)
(* One group, one phrase per link, abandoned keys out of the group and on  *)
(* record, keys on paper before they enter: for any roster, any number of  *)
(* tabs, setups, links and mishaps.                                        *)
(***************************************************************************)
EXTENDS Ceremony, TLAPS

\* A link as the coordinator mints it.
Links == [ceremony : Nat, name : Custodians, issue : Nat]

\* A link the server minted: of an earlier ceremony, or on its present list.
Minted(i) == i \in Links /\ i.ceremony <= ceremony /\ (i.ceremony = ceremony => i \in invites)

\* A link on the list was withdrawn or is its custodian's live one.
LinksInv ==
  /\ ceremony \in Nat /\ live \in [Custodians -> Links \cup {NoOne}] /\ invites \subseteq Links
  /\ \A i \in invites : i.ceremony = ceremony /\ (i \in revoked \/ i = live[i.name])
  /\ ceremony > 0 => \A n \in Custodians : live[n] \in invites /\ live[n].name = n

\* A page holds the link it was opened with.  The key it is about to send is of
\* that link and was written down first.
PageInv ==
  /\ sheets = [n \in Custodians |-> sheets[n]]
  /\ page = [t \in Tabs |-> [invite |-> page[t].invite, step |-> page[t].step,
                             key |-> page[t].key, view |-> page[t].view]]
  /\ \A t \in Tabs : page[t].step # "closed" =>
       /\ Minted(page[t].invite) /\ page[t].invite.name = Owner[t]
       /\ page[t].step \in {"words", "readback", "identity"} => page[t].key.invite = page[t].invite
       /\ page[t].step \in {"readback", "identity"} => page[t].key \in sheets[Owner[t]]

\* A request carries the link of the page it was made on, as long as that page
\* waits for the answer; a submission, a key of that link that is on paper.
Sound(r) ==
  /\ r = [tab |-> r.tab, invite |-> r.invite, kind |-> r.kind, at |-> r.at, body |-> r.body]
  /\ r.kind \in {"generated", "submission", "attestation"} \cup Gets
  /\ r.at \in {"authorised", "ok", "refused"} /\ (r.kind \in Gets => r.at = "ok")
  /\ Minted(r.invite)
  /\ r.tab # NoOne => /\ r.tab \in Tabs /\ page[r.tab].step # "closed"
                      /\ page[r.tab].invite = r.invite
  /\ r.kind = "submission" /\ r.at = "authorised" =>
       r.body.key.invite = r.invite /\ r.body.key \in sheets[r.invite.name]

RequestInv == \A r \in requests : Sound(r)

\* The server said yes to showing the words, and the page has not heard yet.
Granted(r) == r.kind = "generated" /\ r.at = "ok"

\* A link is granted once, and its words are under way or were shown, not both;
\* a grant of this ceremony is of a live link or is noted.
GrantInv ==
  /\ \A i \in generated : /\ Minted(i)
                          /\ i.ceremony = ceremony => i = live[i.name] \/ i \in notes
  /\ \A k \in shown : k.invite \in generated
  /\ \A r \in requests : Granted(r) =>
       /\ r.invite \in generated
       /\ \A k \in shown : k.invite # r.invite
       /\ \A q \in requests : Granted(q) /\ q.invite = r.invite => q = r

\* A recorded key is its custodian's, of a link nobody withdrew, and on paper.
SubmissionInv ==
  /\ submissions = [n \in Custodians |-> submissions[n]]
  /\ attestations = [n \in Custodians |-> attestations[n]]
  /\ \A n \in Custodians : submissions[n] # NoOne =>
       /\ submissions[n].key.invite.name = n
       /\ submissions[n].key.invite \notin revoked
       /\ submissions[n].key \in sheets[n]
  /\ complete => Everybody(submissions)

IInv == LinksInv /\ PageInv /\ RequestInv /\ GrantInv /\ SubmissionInv /\ OneGroup
        /\ OnePhrasePerLink

----------------------------------------------------------------------------
(* What steps leave alone *)

SheetsGrow == \A n \in Custodians : sheets[n] \subseteq sheets'[n]
MintedStays == \A i : Minted(i) => Minted(i)'
PagesStay ==
  \A t \in Tabs : /\ page'[t].invite = page[t].invite
                  /\ page[t].step # "closed" => page'[t].step # "closed"

\* Minted links stay minted while neither ceremony nor list changes.
LEMMA SameMinted == UNCHANGED <<ceremony, invites>> => MintedStays
BY DEF MintedStays, Minted

\* A request that was sound is.
LEMMA StaysSound ==
  ASSUME MintedStays, SheetsGrow, PagesStay, NEW r, Sound(r)
  PROVE  Sound(r)'
<1>1. Minted(r.invite)'
  BY DEF Sound, MintedStays
<1>2. r.invite.name \in Custodians
  BY DEF Sound, Minted, Links
<1> QED BY <1>1, <1>2 DEF Sound, SheetsGrow, PagesStay

\* So requests are sound if every new one is.
LEMMA RequestsStay ==
  ASSUME RequestInv, MintedStays, SheetsGrow, PagesStay,
         \A r \in requests' : r \in requests \/ Sound(r)'
  PROVE  RequestInv'
<1>1. \A r \in requests : Sound(r)'
  BY StaysSound DEF RequestInv
<1> QED BY <1>1 DEF RequestInv

\* A page that does not move is as good as it was.
LEMMA PageStays ==
  ASSUME PageInv, MintedStays, UNCHANGED <<page, sheets>>
  PROVE  PageInv' /\ SheetsGrow /\ PagesStay
<1>1. SheetsGrow /\ PagesStay
  BY DEF SheetsGrow, PagesStay
<1>2. \A t \in Tabs : page[t].step # "closed" => Minted(page[t].invite)'
  BY DEF PageInv, MintedStays
<1> QED BY <1>1, <1>2 DEF PageInv

\* Grants are what they were if no request is newly granted.
LEMMA GrantsStay ==
  ASSUME GrantInv, UNCHANGED <<generated, shown>>, MintedStays,
         \A i \in generated : i.ceremony = ceremony' => i = live'[i.name] \/ i \in notes',
         \A r \in requests' : Granted(r) => r \in requests
  PROVE  GrantInv'
<1>1. \A i \in generated : Minted(i)'
  BY DEF GrantInv, MintedStays
<1> QED BY <1>1 DEF GrantInv, Granted

\* The record is what it was.
LEMMA RecordStays ==
  ASSUME SubmissionInv, OneGroup, SheetsGrow,
         UNCHANGED <<ceremony, submissions, attestations, exported, complete, revoked>>
  PROVE  SubmissionInv' /\ OneGroup'
BY DEF SubmissionInv, OneGroup, SheetsGrow, Everybody

\* The answer to a request is sound and is the only new one.
LEMMA AnswerSound ==
  ASSUME RequestInv, NEW r \in requests, r.at = "authorised",
         NEW at \in {"ok", "refused"}, Answer(r, at),
         MintedStays, SheetsGrow, PagesStay
  PROVE  /\ RequestInv'
         /\ \E a : /\ a.kind = r.kind /\ a.at = at /\ a.invite = r.invite
                   /\ requests' \subseteq (requests \ {r}) \cup {a}
<1> DEFINE a == [tab |-> r.tab, invite |-> r.invite, kind |-> r.kind, at |-> at, body |-> NoOne]
<1>0. Sound(r) /\ r.kind \notin Gets
  BY DEF RequestInv, Sound
<1>1. requests' \subseteq (requests \ {r}) \cup {a}
  BY DEF Answer
<1>2. Sound(a)'
  BY <1>0, StaysSound DEF Sound
<1>3. RequestInv'
  BY <1>1, <1>2, RequestsStay
<1> QED BY <1>1, <1>3

----------------------------------------------------------------------------
(* The coordinator *)

\* Nothing is minted, asked, shown or recorded at first.
LEMMA InitIInv == Init => IInv
<1> SUFFICES ASSUME Init PROVE IInv
  OBVIOUS
<1> USE CeremonyAssumption DEF Init, NobodyYet
<1>1. LinksInv
  BY DEF LinksInv
<1>2. PageInv
  BY DEF PageInv, Closed
<1>3. RequestInv /\ GrantInv /\ OnePhrasePerLink
  BY DEF RequestInv, GrantInv, OnePhrasePerLink
<1>4. SubmissionInv /\ OneGroup
  BY DEF SubmissionInv, OneGroup, Everybody
<1> QED BY <1>1, <1>2, <1>3, <1>4 DEF IInv

\* While a submission is missing nobody has attested and nothing is exported.
LEMMA NothingYet ==
  ASSUME SubmissionInv, OneGroup, NEW n \in Custodians, submissions[n] = NoOne
  PROVE  ~complete /\ exported = NoOne /\ \A m \in Custodians : attestations[m] = NoOne
BY DEF SubmissionInv, OneGroup, Everybody

\* What the invariant speaks of stays as it is.
LEMMA StutterKeeps ==
  ASSUME IInv, UNCHANGED <<serverVars, page, requests, paperVars>>
  PROVE  IInv'
<1> USE DEF IInv, serverVars, paperVars
<1>1. LinksInv'
  BY DEF LinksInv
<1>2. MintedStays
  BY SameMinted
<1>3. PageInv' /\ SheetsGrow /\ PagesStay
  BY <1>2, PageStays
<1>4. RequestInv'
  BY <1>2, <1>3, RequestsStay
<1>5. GrantInv' /\ OnePhrasePerLink'
  BY <1>2, GrantsStay DEF GrantInv, OnePhrasePerLink
<1>6. SubmissionInv' /\ OneGroup'
  BY <1>3, RecordStays
<1> QED BY <1>1, <1>3, <1>4, <1>5, <1>6

\* A setup forgets the links of an earlier one, before any phrase is recorded.
LEMMA SetupKeeps == ASSUME IInv, handleSetup PROVE IInv'
<1> USE CeremonyAssumption DEF IInv
<1>1. CASE SetupRefused
  BY <1>1, StutterKeeps DEF handleSetup, serverVars, paperVars
<1>2. CASE ~SetupRefused
  <2>1. /\ ceremony' = ceremony + 1
        /\ live' = [n \in Custodians |-> [ceremony |-> ceremony + 1, name |-> n, issue |-> 1]]
        /\ invites' = {live'[n] : n \in Custodians}
        /\ UNCHANGED <<revoked, generated, submissions, attestations, notes, exported, complete,
                       page, requests, shown, sheets>>
    BY <1>2 DEF handleSetup, paperVars
  <2>2. ceremony \in Nat /\ MintedStays
    BY <2>1 DEF MintedStays, Minted, LinksInv, Links
  <2>3. LinksInv'
    BY <2>1, <2>2 DEF LinksInv, Links
  <2>4. PageInv' /\ SheetsGrow /\ PagesStay
    BY <2>1, <2>2, PageStays
  <2>5. RequestInv'
    BY <2>1, <2>2, <2>4, RequestsStay
  <2>6. \A i \in generated : i.ceremony # ceremony'
    BY <2>1, <2>2 DEF GrantInv, Minted, Links
  <2>7. GrantInv' /\ OnePhrasePerLink'
    BY <2>1, <2>2, <2>6, GrantsStay DEF OnePhrasePerLink
  <2>8. \A n \in Custodians : submissions[n] = NoOne
    BY <1>2 DEF SetupRefused
  <2>9. SubmissionInv' /\ OneGroup'
    BY <2>1, <2>8, NothingYet DEF SubmissionInv, OneGroup, Everybody
  <2> QED BY <2>3, <2>4, <2>5, <2>7, <2>9
<1> QED BY <1>1, <1>2

\* The link withdrawn makes way for one of the same ceremony and name, and the
\* key it may have shown is noted.
LEMMA ReissueKeeps ==
  ASSUME IInv, NEW n \in Custodians, handleReissue(n)
  PROVE  IInv'
<1> DEFINE old == live[n]
           fresh == [live[n] EXCEPT !.issue = @ + 1]
<1> USE DEF IInv
<1>1. /\ old \in Links /\ old.name = n /\ old.ceremony = ceremony
      /\ fresh \in Links /\ fresh.name = n /\ fresh.ceremony = ceremony
  <2>1. old \in Links /\ old.name = n /\ old.ceremony = ceremony
    BY DEF LinksInv, handleReissue
  <2> QED BY <2>1 DEF Links
<1>2. /\ submissions[n] = NoOne
      /\ revoked' = revoked \cup {old} /\ invites' = invites \cup {fresh}
      /\ live' = [live EXCEPT ![n] = fresh]
      /\ notes' = IF old \in generated THEN notes \cup {old} ELSE notes
      /\ UNCHANGED <<ceremony, generated, submissions, attestations, exported, complete,
                     page, requests, shown, sheets>>
  BY DEF handleReissue, issueLocked, paperVars
<1> HIDE DEF old, fresh
<1>3. LinksInv'
  <2>1. /\ ceremony' \in Nat /\ live' \in [Custodians -> Links \cup {NoOne}]
        /\ invites' \subseteq Links
    BY <1>1, <1>2 DEF LinksInv
  <2>2. \A i \in invites' : i.ceremony = ceremony' /\ (i \in revoked' \/ i = live'[i.name])
    BY <1>1, <1>2 DEF LinksInv, Links, old
  <2>3. ceremony' > 0 => \A m \in Custodians : live'[m] \in invites' /\ live'[m].name = m
    BY <1>1, <1>2 DEF LinksInv
  <2> QED BY <2>1, <2>2, <2>3 DEF LinksInv
<1>4. MintedStays
  BY <1>2 DEF MintedStays, Minted
<1>5. PageInv' /\ SheetsGrow /\ PagesStay
  BY <1>2, <1>4, PageStays
<1>6. RequestInv'
  BY <1>2, <1>4, <1>5, RequestsStay
<1>7. \A i \in generated : i.ceremony = ceremony' => i = live'[i.name] \/ i \in notes'
  <2> SUFFICES ASSUME NEW i \in generated, i.ceremony = ceremony
               PROVE  i = live'[i.name] \/ i \in notes'
    BY <1>2
  <2>1. i.name \in Custodians /\ (i = live[i.name] \/ i \in notes)
    BY DEF GrantInv, Minted, Links
  <2>2. CASE i = old
    BY <1>2, <2>2
  <2>3. CASE i # old
    BY <1>2, <2>1, <2>3 DEF LinksInv, old
  <2> QED BY <2>2, <2>3
<1>8. GrantInv' /\ OnePhrasePerLink'
  BY <1>2, <1>4, <1>7, GrantsStay DEF OnePhrasePerLink
<1>9. SubmissionInv'
  BY <1>1, <1>2 DEF SubmissionInv, Everybody
<1>10. OneGroup'
  BY <1>2 DEF OneGroup, Everybody
<1> QED BY <1>3, <1>5, <1>6, <1>8, <1>9, <1>10

\* A group is exported of the whole record, which everybody attested to if
\* the ceremony is complete.
LEMMA ExportKeeps == ASSUME IInv, handleExport PROVE IInv'
<1> USE CeremonyAssumption DEF IInv
<1> DEFINE group == assembleGroup(ceremony, submissions)
<1>1. /\ exported' = IF Everybody(submissions) THEN group ELSE exported
      /\ complete' = Everybody(attestations)
      /\ UNCHANGED <<ceremony, invites, live, revoked, generated, submissions, attestations,
                     notes, page, requests, shown, sheets>>
  BY DEF handleExport, paperVars
<1>2. LinksInv' /\ MintedStays
  BY <1>1, SameMinted DEF LinksInv
<1>3. PageInv' /\ SheetsGrow /\ PagesStay
  BY <1>1, <1>2, PageStays
<1>4. RequestInv'
  BY <1>1, <1>2, <1>3, RequestsStay
<1>5. GrantInv' /\ OnePhrasePerLink'
  BY <1>1, <1>2, GrantsStay DEF GrantInv, OnePhrasePerLink
<1>6. /\ \A n \in Custodians : attestations[n] # NoOne =>
              Everybody(submissions) /\ attestations[n] = group
      /\ exported # NoOne => Everybody(submissions) /\ exported = group
  BY DEF OneGroup
<1> HIDE DEF group
<1>7. complete' => Everybody(attestations)
  BY <1>1
<1>8. complete' => Everybody(submissions) /\ \A n \in Custodians : attestations[n] = group
  BY <1>6, <1>7 DEF Everybody
<1>9. exported' # NoOne => Everybody(submissions) /\ exported' = group
  BY <1>1, <1>6
<1>10. complete' => exported' = group /\ \A n \in Custodians : attestations[n] = exported'
  BY <1>1, <1>8
<1>11. group' = group
  BY <1>1 DEF group, assembleGroup
<1>12. SubmissionInv'
  BY <1>1, <1>8 DEF SubmissionInv, Everybody
<1>13. OneGroup'
  BY <1>1, <1>6, <1>9, <1>10, <1>11 DEF OneGroup, Everybody, group, assembleGroup
<1> QED BY <1>2, <1>3, <1>4, <1>5, <1>12, <1>13

----------------------------------------------------------------------------
(* The server's answers *)

\* A link is granted once: whoever asks again is refused.
LEMMA GeneratedKeeps ==
  ASSUME IInv, NEW r \in requests, handleGenerated(r)
  PROVE  IInv'
<1> DEFINE i == r.invite
           granted == stillLive(i) /\ i \notin generated /\ submissions[i.name] = NoOne
           at == IF granted THEN "ok" ELSE "refused"
<1> USE DEF IInv
<1>1. /\ r.kind = "generated" /\ r.at = "authorised"
      /\ generated' = IF granted THEN generated \cup {i} ELSE generated
      /\ Answer(r, at)
      /\ UNCHANGED <<ceremony, invites, live, revoked, submissions, attestations, notes, exported,
                     complete, page, shown, sheets>>
  BY DEF handleGenerated, paperVars
<1>2. Minted(i) /\ (granted => i \notin revoked /\ i \notin generated)
  BY DEF RequestInv, Sound, stillLive
<1>3. granted /\ i.ceremony = ceremony => i = live[i.name]
  BY <1>2 DEF Minted, LinksInv
<1>4. at \in {"ok", "refused"} /\ (at = "ok" => granted)
  OBVIOUS
<1> HIDE DEF i, granted, at
<1>5. LinksInv' /\ MintedStays
  BY <1>1, SameMinted DEF LinksInv
<1>6. PageInv' /\ SheetsGrow /\ PagesStay
  BY <1>1, <1>5, PageStays
<1>7. /\ RequestInv'
      /\ \E a : /\ a.kind = r.kind /\ a.at = at /\ a.invite = r.invite
                /\ requests' \subseteq (requests \ {r}) \cup {a}
  BY <1>1, <1>4, <1>5, <1>6, AnswerSound
<1>8. PICK a : /\ a.kind = r.kind /\ a.at = at /\ a.invite = i
               /\ requests' \subseteq (requests \ {r}) \cup {a}
  BY <1>7 DEF i
<1>9. GrantInv'
  <2>1. \A j \in generated' : Minted(j)' /\ (j.ceremony = ceremony' =>
                                               j = live'[j.name] \/ j \in notes')
    BY <1>1, <1>2, <1>3, <1>5 DEF GrantInv, MintedStays
  <2>2. \A k \in shown' : k.invite \in generated'
    BY <1>1 DEF GrantInv
  <2>3. \A q \in requests' : Granted(q) =>
          \/ q \in requests
          \/ q = a /\ i \in generated' /\ i \notin generated
    BY <1>1, <1>2, <1>4, <1>8 DEF Granted
  <2>4. \A q \in requests' : Granted(q) =>
          q.invite \in generated' /\ \A k \in shown' : k.invite # q.invite
    BY <1>1, <1>8, <2>3 DEF GrantInv
  <2>5. \A p, q \in requests' : Granted(p) /\ Granted(q) /\ q.invite = p.invite => q = p
    BY <1>8, <2>3 DEF GrantInv
  <2> QED BY <2>1, <2>2, <2>4, <2>5 DEF GrantInv, Granted
<1>10. SubmissionInv' /\ OneGroup'
  BY <1>1, <1>6, RecordStays
<1>11. OnePhrasePerLink'
  BY <1>1 DEF OnePhrasePerLink
<1> QED BY <1>5, <1>6, <1>7, <1>9, <1>10, <1>11

\* An answer that grants nothing leaves the grants alone.
LEMMA AnswerGrantsNothing ==
  ASSUME GrantInv, MintedStays, UNCHANGED <<ceremony, live, generated, notes, shown>>,
         NEW r, r.kind # "generated",
         \E a : a.kind = r.kind /\ requests' \subseteq (requests \ {r}) \cup {a}
  PROVE  GrantInv'
<1>1. \A q \in requests' : Granted(q) => q \in requests
  BY DEF Granted
<1>2. \A i \in generated : i.ceremony = ceremony' => i = live'[i.name] \/ i \in notes'
  BY DEF GrantInv
<1> QED BY <1>1, <1>2, GrantsStay

\* A key is recorded for a custodian who has none, of a link nobody withdrew;
\* so nobody has attested yet.
LEMMA SubmissionKeeps ==
  ASSUME IInv, NEW r \in requests, handleHostSubmission(r)
  PROVE  IInv'
<1> DEFINE n == r.invite.name
           recorded == /\ stillLive(r.invite) /\ verifySubmission(ceremony, r.body)
                       /\ submissions[n] = NoOne
           same == submissions[n] # NoOne /\ submissions[n].key = r.body.key
           at == IF /\ stillLive(r.invite) /\ verifySubmission(ceremony, r.body)
                    /\ submissions[n] = NoOne \/ same
                 THEN "ok" ELSE "refused"
<1> USE DEF IInv
<1>1. /\ r.kind = "submission" /\ r.at = "authorised"
      /\ IF recorded THEN submissions' = [submissions EXCEPT ![n] = r.body]
         ELSE UNCHANGED submissions
      /\ UNCHANGED <<ceremony, invites, live, revoked, generated, attestations, notes, exported,
                     complete, page, shown, sheets>>
  BY DEF handleHostSubmission, paperVars
<1>2. Answer(r, at) /\ at \in {"ok", "refused"}
  BY DEF handleHostSubmission
<1>3. /\ n \in Custodians /\ r.body.key.invite = r.invite /\ r.body.key \in sheets[n]
      /\ recorded => r.invite \notin revoked /\ submissions[n] = NoOne
  BY <1>1 DEF RequestInv, Sound, Minted, Links, stillLive
<1>4. r.body.key.invite.name = n
  BY <1>3
<1> HIDE DEF n, recorded, same, at
<1>5. LinksInv' /\ MintedStays
  BY <1>1, SameMinted DEF LinksInv
<1>6. PageInv' /\ SheetsGrow /\ PagesStay
  BY <1>1, <1>5, PageStays
<1>7. /\ RequestInv'
      /\ \E a : /\ a.kind = r.kind /\ a.at = at /\ a.invite = r.invite
                /\ requests' \subseteq (requests \ {r}) \cup {a}
  BY <1>1, <1>2, <1>5, <1>6, AnswerSound
<1>8. GrantInv' /\ OnePhrasePerLink'
  BY <1>1, <1>5, <1>7, AnswerGrantsNothing DEF OnePhrasePerLink
<1>9. CASE ~recorded
  BY <1>1, <1>5, <1>6, <1>7, <1>8, <1>9, RecordStays
<1>10. CASE recorded
  <2>1. submissions' = [submissions EXCEPT ![n] = r.body]
    BY <1>1, <1>10
  <2>2. ~complete /\ exported = NoOne /\ \A m \in Custodians : attestations[m] = NoOne
    BY <1>3, <1>10, NothingYet
  <2>3. submissions' = [m \in Custodians |-> submissions'[m]]
    BY <2>1 DEF SubmissionInv
  <2>4. \A m \in Custodians : submissions'[m] = IF m = n THEN r.body ELSE submissions[m]
    BY <2>1 DEF SubmissionInv
  <2>5. SubmissionInv'
    BY <1>1, <1>3, <1>4, <1>10, <2>2, <2>3, <2>4 DEF SubmissionInv
  <2>6. OneGroup'
    BY <1>1, <2>2 DEF OneGroup
  <2> QED BY <1>5, <1>6, <1>7, <1>8, <2>5, <2>6
<1> QED BY <1>9, <1>10

\* What is attested to is the group of the record as it stands.
LEMMA AttestationKeeps ==
  ASSUME IInv, NEW r \in requests, handleHostAttestation(r)
  PROVE  IInv'
<1> DEFINE n == r.invite.name
           group == assembleGroup(ceremony, submissions)
           sound == /\ stillLive(r.invite)
                    /\ submissions[n] # NoOne /\ r.body.key = submissions[n].key
                    /\ r.body.ceremony = ceremony
                    /\ Assembles(ceremony, submissions)
                    /\ r.body.group = group
                    /\ presence(submissions, n, r.body.key)
           at == IF sound THEN "ok" ELSE "refused"
<1> USE DEF IInv
<1>1. /\ r.kind = "attestation" /\ r.at = "authorised"
      /\ attestations' = IF sound THEN [attestations EXCEPT ![n] = r.body.group]
                         ELSE attestations
      /\ UNCHANGED <<ceremony, invites, live, revoked, generated, submissions, notes, exported,
                     complete, page, shown, sheets>>
  BY DEF handleHostAttestation, paperVars
<1>2. Answer(r, at) /\ at \in {"ok", "refused"}
  BY DEF handleHostAttestation
<1>3. n \in Custodians
  BY DEF RequestInv, Sound, Minted, Links
<1>4. sound => Everybody(submissions) /\ r.body.group = group
  BY DEF Assembles
<1>5. /\ \A m \in Custodians : attestations[m] # NoOne =>
              Everybody(submissions) /\ attestations[m] = group
      /\ exported # NoOne => Everybody(submissions) /\ exported = group
      /\ complete => exported = group /\ \A m \in Custodians : attestations[m] = exported
  BY DEF OneGroup
<1> HIDE DEF n, sound, at, group
<1>6. LinksInv' /\ MintedStays
  BY <1>1, SameMinted DEF LinksInv
<1>7. PageInv' /\ SheetsGrow /\ PagesStay
  BY <1>1, <1>6, PageStays
<1>8. /\ RequestInv'
      /\ \E a : /\ a.kind = r.kind /\ a.at = at /\ a.invite = r.invite
                /\ requests' \subseteq (requests \ {r}) \cup {a}
  BY <1>1, <1>2, <1>6, <1>7, AnswerSound
<1>9. GrantInv' /\ OnePhrasePerLink'
  BY <1>1, <1>6, <1>8, AnswerGrantsNothing DEF OnePhrasePerLink
<1>10. CASE ~sound
  BY <1>1, <1>6, <1>7, <1>8, <1>9, <1>10, RecordStays
<1>11. CASE sound
  <2>1. attestations' = [m \in Custodians |-> attestations'[m]]
    BY <1>1, <1>11 DEF SubmissionInv
  <2>2. \A m \in Custodians : attestations'[m] = IF m = n THEN group ELSE attestations[m]
    BY <1>1, <1>4, <1>11 DEF SubmissionInv
  <2>3. SubmissionInv'
    BY <1>1, <2>1 DEF SubmissionInv, Everybody
  <2>4. group' = group
    BY <1>1 DEF group, assembleGroup
  <2>5. \A m \in Custodians : attestations'[m] # NoOne =>
              Everybody(submissions) /\ attestations'[m] = group
    BY <1>4, <1>5, <1>11, <2>2
  <2>6. complete => exported = group /\ \A m \in Custodians : attestations'[m] = exported
    BY <1>5, <2>2
  <2>7. OneGroup'
    BY <1>1, <1>5, <2>4, <2>5, <2>6 DEF OneGroup, Everybody, group
  <2> QED BY <1>6, <1>7, <1>8, <1>9, <2>3, <2>7
<1> QED BY <1>10, <1>11

----------------------------------------------------------------------------
(* A custodian's page *)

\* The server's part stays as it is while a page does something.
LEMMA ServerStays ==
  ASSUME IInv, UNCHANGED serverVars
  PROVE  LinksInv' /\ MintedStays
BY SameMinted DEF IInv, serverVars, LinksInv

\* The record, if no paper is lost; the grants, if nothing is newly granted and
\* no words are displayed.
LEMMA CustodianKeeps ==
  ASSUME IInv, UNCHANGED serverVars, PageInv', RequestInv', SheetsGrow, UNCHANGED shown,
         \A r \in requests' : Granted(r) => r \in requests
  PROVE  IInv'
<1> USE DEF IInv
<1>1. UNCHANGED <<ceremony, invites, live, revoked, generated, submissions, attestations, notes,
                  exported, complete>>
  BY DEF serverVars
<1>2. LinksInv' /\ MintedStays
  BY ServerStays
<1>3. \A i \in generated : i.ceremony = ceremony' => i = live'[i.name] \/ i \in notes'
  BY <1>1 DEF GrantInv
<1>4. GrantInv'
  BY <1>1, <1>2, <1>3, GrantsStay
<1>5. SubmissionInv' /\ OneGroup'
  BY <1>1, RecordStays
<1>6. OnePhrasePerLink'
  BY DEF OnePhrasePerLink
<1> QED BY <1>2, <1>4, <1>5, <1>6

\* An open page moves on with its link, and with a key of that link that is on
\* paper once it is read back.
LEMMA GoKeeps ==
  ASSUME PageInv, MintedStays, SheetsGrow, sheets' = [n \in Custodians |-> sheets'[n]],
         NEW t \in Tabs, page[t].step # "closed",
         NEW step, NEW key, NEW view, Go(t, step, key, view), step # "closed",
         step \in {"words", "readback", "identity"} => key.invite = page[t].invite,
         step \in {"readback", "identity"} => key \in sheets'[Owner[t]]
  PROVE  PageInv' /\ PagesStay
<1> DEFINE i == page[t].invite
           seen == Shown(step, view)
           moved == [invite |-> i, step |-> step, key |-> key, view |-> seen]
<1>1. page' = [page EXCEPT ![t] = moved]
  BY DEF Go
<1>2. /\ page = [u \in Tabs |-> [invite |-> page[u].invite, step |-> page[u].step,
                                 key |-> page[u].key, view |-> page[u].view]]
      /\ \A u \in Tabs : page[u].step # "closed" =>
           /\ Minted(page[u].invite) /\ page[u].invite.name = Owner[u]
           /\ page[u].step \in {"words", "readback", "identity"} =>
                page[u].key.invite = page[u].invite
           /\ page[u].step \in {"readback", "identity"} => page[u].key \in sheets[Owner[u]]
  BY DEF PageInv
<1>3. moved = [invite |-> moved.invite, step |-> moved.step, key |-> moved.key,
               view |-> moved.view]
      /\ moved.invite = i /\ moved.step = step /\ moved.key = key
  OBVIOUS
<1> HIDE DEF moved, seen
<1>4. \A u \in Tabs : page'[u] = IF u = t THEN moved ELSE page[u]
  BY <1>1, <1>2
<1>5. page' = [u \in Tabs |-> [invite |-> page'[u].invite, step |-> page'[u].step,
                               key |-> page'[u].key, view |-> page'[u].view]]
  BY <1>1, <1>2, <1>3, <1>4
<1>6. ASSUME NEW u \in Tabs, page'[u].step # "closed"
      PROVE  /\ \A j : j = page'[u].invite => Minted(j)'
             /\ page'[u].invite.name = Owner[u]
             /\ page'[u].step \in {"words", "readback", "identity"} =>
                  page'[u].key.invite = page'[u].invite
             /\ page'[u].step \in {"readback", "identity"} => page'[u].key \in sheets'[Owner[u]]
  <2>1. CASE u = t
    <3>1. page'[u].invite = i /\ page'[u].step = step /\ page'[u].key = key
      BY <1>3, <1>4, <2>1
    <3>2. Minted(i) /\ i.name = Owner[t]
      BY <1>2
    <3> QED BY <2>1, <3>1, <3>2 DEF MintedStays
  <2>2. CASE u # t
    <3>1. page'[u] = page[u]
      BY <1>4, <2>2
    <3>2. Owner[u] \in Custodians
      BY CeremonyAssumption
    <3> QED BY <1>2, <1>6, <3>1, <3>2 DEF MintedStays, SheetsGrow
  <2> QED BY <2>1, <2>2
<1>7. PagesStay
  BY <1>3, <1>4 DEF PagesStay
<1> QED BY <1>5, <1>6, <1>7 DEF PageInv, Minted

\* A step of a page that asks for nothing.
LEMMA MoveKeeps ==
  ASSUME IInv, UNCHANGED <<serverVars, shown>>, requests' \subseteq requests,
         SheetsGrow, sheets' = [n \in Custodians |-> sheets'[n]],
         NEW t \in Tabs, page[t].step # "closed",
         NEW step, NEW key, NEW view, Go(t, step, key, view), step # "closed",
         step \in {"words", "readback", "identity"} => key.invite = page[t].invite,
         step \in {"readback", "identity"} => key \in sheets'[Owner[t]]
  PROVE  IInv'
<1> USE DEF IInv
<1>1. MintedStays
  BY ServerStays
<1>2. PageInv' /\ PagesStay
  BY <1>1, GoKeeps
<1>3. RequestInv'
  BY <1>1, <1>2, RequestsStay
<1> QED BY <1>2, <1>3, CustodianKeeps

\* A step of a page that only asks: of the link it holds, and with a key that is
\* on paper if it submits one.
LEMMA AskKeeps ==
  ASSUME IInv, UNCHANGED <<serverVars, page, sheets, shown>>,
         NEW t \in Tabs, page[t].step # "closed", NEW r,
         requests' \subseteq requests \cup {r},
         r = [tab |-> t, invite |-> page[t].invite, kind |-> r.kind, at |-> r.at, body |-> r.body],
         \/ r.kind \in {"generated", "submission", "attestation"} /\ r.at = "authorised"
         \/ r.kind \in Gets /\ r.at = "ok",
         r.kind = "submission" => r.body.key.invite = page[t].invite
                                  /\ r.body.key \in sheets[Owner[t]]
  PROVE  IInv'
<1> USE DEF IInv
<1>1. MintedStays
  BY ServerStays
<1>2. PageInv' /\ SheetsGrow /\ PagesStay
  BY <1>1, PageStays
<1>3. Minted(page[t].invite)' /\ page[t].invite.name = Owner[t]
  BY <1>1 DEF PageInv, MintedStays
<1>4. r.tab = t /\ r.invite = page[t].invite
  OBVIOUS
<1>5. Sound(r)'
  BY <1>3, <1>4 DEF Sound, Gets
<1>6. RequestInv'
  BY <1>1, <1>2, <1>5, RequestsStay
<1>7. \A q \in requests' : Granted(q) => q \in requests
  BY DEF Granted, Gets
<1> QED BY <1>2, <1>6, <1>7, CustodianKeeps

\* A refresh asks for the view, if the server knows the link.
LEMMA RefreshKeeps ==
  ASSUME IInv, UNCHANGED <<serverVars, page, sheets, shown>>,
         NEW t \in Tabs, page[t].step # "closed", NEW kind \in Gets,
         requests' \subseteq requests \cup refresh(t, kind)
  PROVE  IInv'
<1> DEFINE r == [tab |-> t, invite |-> page[t].invite, kind |-> kind, at |-> "ok",
                 body |-> inviteView]
<1>1. requests' \subseteq requests \cup {r}
  BY DEF refresh, Asked
<1>2. /\ r = [tab |-> t, invite |-> page[t].invite, kind |-> r.kind, at |-> r.at,
              body |-> r.body]
      /\ r.kind \in Gets /\ r.at = "ok" /\ r.kind # "submission"
  BY DEF Gets
<1> HIDE DEF r
<1> QED BY <1>1, <1>2, AskKeeps

\* A key that goes in is written down before it is read back, or typed from
\* paper.
LEMMA PressKeeps ==
  ASSUME IInv, NEW t \in Tabs, Press(t)
  PROVE  IInv'
<1> DEFINE p == page[t]
<1> USE CeremonyAssumption
<1>1. /\ p.step # "closed" => /\ p.invite.name = Owner[t]
                              /\ p.step \in {"words", "readback", "identity"} =>
                                   p.key.invite = p.invite
                              /\ p.step \in {"readback", "identity"} => p.key \in sheets[Owner[t]]
      /\ sheets = [n \in Custodians |-> sheets[n]] /\ Owner[t] \in Custodians
  BY DEF IInv, PageInv
<1>2. CASE welcomeScreen(t)
  BY <1>1, <1>2, MoveKeeps DEF welcomeScreen, paperVars, SheetsGrow
<1>3. CASE readbackScreen(t)
  BY <1>1, <1>3, MoveKeeps DEF readbackScreen, paperVars, SheetsGrow
<1>4. CASE wordsScreen(t)
  <2>1. /\ p.step = "words" /\ Go(t, "readback", p.key, p.view)
        /\ sheets' = [sheets EXCEPT ![Owner[t]] = @ \cup {p.key}]
        /\ UNCHANGED <<serverVars, requests, shown>>
    BY <1>4 DEF wordsScreen
  <2>2. /\ sheets' = [n \in Custodians |-> sheets'[n]] /\ SheetsGrow
        /\ p.key \in sheets'[Owner[t]]
    BY <1>1, <2>1 DEF SheetsGrow
  <2> QED BY <1>1, <2>1, <2>2, MoveKeeps
<1>5. CASE reenterScreen(t)
  <2>1. PICK k \in Sheets(t), step \in {"identity", "group", "submitted"} :
          Go(t, step, k, p.view)
    <3> DEFINE own == p.view.subs[p.invite.name]
               next == CASE own = NoOne -> "identity"
                         [] own # NoOne /\ Everybody(p.view.subs) -> "group"
                         [] OTHER -> "submitted"
    <3>1. \E k \in Sheets(t) : Go(t, next, k, p.view)
      BY <1>5 DEF reenterScreen
    <3>2. next \in {"identity", "group", "submitted"}
      OBVIOUS
    <3> HIDE DEF next
    <3> QED BY ONLY <3>1, <3>2, Zenon
  <2>2. k \in sheets[Owner[t]] /\ k.invite = p.invite
    <3>1. Sheets(t) = {j \in sheets[Owner[t]] : j.invite = p.invite}
      BY DEF Sheets
    <3>2. k \in Sheets(t)
      BY Zenon
    <3> QED BY ONLY <3>1, <3>2, Zenon
  <2>3. p.step # "closed" /\ UNCHANGED <<serverVars, requests, shown, sheets>>
    BY <1>5 DEF reenterScreen, paperVars
  <2>4. SheetsGrow
    BY <2>3 DEF SheetsGrow
  <2> QED BY <1>1, <2>1, <2>2, <2>3, <2>4, MoveKeeps
<1>6. ASSUME NEW kind \in {"generated", "submission", "attestation"}, NEW body,
             Post(t, kind, body), UNCHANGED <<serverVars, page, paperVars>>,
             p.step # "closed",
             kind = "submission" => body.key.invite = p.invite /\ body.key \in sheets[Owner[t]]
      PROVE  IInv'
  <2> DEFINE r == [tab |-> t, invite |-> page[t].invite, kind |-> kind, at |-> "authorised",
                   body |-> body]
  <2>1. requests' \subseteq requests \cup {r}
    BY <1>6 DEF Post
  <2>2. /\ r = [tab |-> t, invite |-> page[t].invite, kind |-> r.kind, at |-> r.at,
                body |-> r.body]
        /\ r.kind = kind /\ r.at = "authorised" /\ r.body = body
    OBVIOUS
  <2> HIDE DEF r
  <2> QED BY <1>6, <2>1, <2>2, AskKeeps DEF paperVars
<1>7. CASE generateScreen(t)
  BY <1>6, <1>7 DEF generateScreen
<1>8. CASE identityScreen(t)
  <2> DEFINE body == [ceremony |-> p.view.ceremony, key |-> p.key]
  <2>1. /\ p.step = "identity" /\ Post(t, "submission", body)
        /\ UNCHANGED <<serverVars, page, paperVars>>
    BY <1>8 DEF identityScreen
  <2>2. body.key = p.key
    OBVIOUS
  <2> HIDE DEF body
  <2> QED BY <1>1, <1>6, <2>1, <2>2
<1>9. CASE groupScreen(t)
  <2> DEFINE v == p.view
             body == [ceremony |-> v.ceremony, key |-> p.key,
                      group |-> assembleGroup(v.ceremony, v.subs)]
  <2>1. /\ p.step = "group" /\ Post(t, "attestation", body)
        /\ UNCHANGED <<serverVars, page, paperVars>>
    BY <1>9 DEF groupScreen
  <2> HIDE DEF body
  <2> QED BY <1>6, <2>1
<1>10. CASE waitingScreen(t)
  BY <1>10, RefreshKeeps DEF waitingScreen, paperVars, Gets
<1> QED BY <1>2, <1>3, <1>4, <1>5, <1>7, <1>8, <1>9, <1>10 DEF Press

\* A tab that loads a link of its custodian waits for nothing any more; what it
\* had asked for is carried out all the same.
LEMMA OpenKeeps ==
  ASSUME IInv, NEW t \in Tabs, Open(t)
  PROVE  IInv'
<1> DEFINE Orphan(q) == [q EXCEPT !.tab = NoOne]
<1> USE DEF IInv
<1>1. PICK i \in invites : runCustodian(t, i)
  BY DEF Open
<1> DEFINE step == initialStep(i.name, i)
           seen == Shown(step, inviteView)
           opened == [invite |-> i, step |-> step, key |-> NoOne, view |-> seen]
<1>2. /\ page' = [page EXCEPT ![t] = opened] /\ i.name = Owner[t]
      /\ requests' = {r \in requests : r.tab # t} \cup
           {Orphan(r) : r \in {q \in requests : q.tab = t /\ q.at = "authorised"}}
      /\ UNCHANGED <<serverVars, sheets, shown>>
  BY <1>1 DEF runCustodian, paperVars
<1>3. /\ opened = [invite |-> opened.invite, step |-> opened.step, key |-> opened.key,
                   view |-> opened.view]
      /\ opened.invite = i /\ opened.step \in {"welcome", "reenter"}
  BY DEF initialStep
<1> HIDE DEF opened
<1>4. MintedStays /\ LinksInv'
  BY <1>2, ServerStays
<1>5. SheetsGrow
  BY <1>2 DEF SheetsGrow
<1>6. Minted(i)
  BY DEF LinksInv, Minted
<1>7. \A u \in Tabs : page'[u] = IF u = t THEN opened ELSE page[u]
  BY <1>2 DEF PageInv
<1>8. PageInv'
  <2>1. page' = [u \in Tabs |-> [invite |-> page'[u].invite, step |-> page'[u].step,
                                 key |-> page'[u].key, view |-> page'[u].view]]
    BY <1>2, <1>3, <1>7 DEF PageInv
  <2>2. ASSUME NEW u \in Tabs, page'[u].step # "closed"
        PROVE  /\ \A j : j = page'[u].invite => Minted(j)'
               /\ page'[u].invite.name = Owner[u]
               /\ page'[u].step \in {"words", "readback", "identity"} =>
                    page'[u].key.invite = page'[u].invite
               /\ page'[u].step \in {"readback", "identity"} => page'[u].key \in sheets'[Owner[u]]
    BY <1>2, <1>3, <1>4, <1>6, <1>7, <2>2 DEF PageInv, MintedStays
  <2>3. sheets' = [n \in Custodians |-> sheets'[n]]
    BY <1>2 DEF PageInv
  <2> QED BY <2>1, <2>2, <2>3 DEF PageInv, Minted
<1>9. ASSUME NEW q \in requests, q.at = "authorised"
      PROVE  Orphan(q) = [tab |-> NoOne, invite |-> q.invite, kind |-> q.kind, at |-> q.at,
                          body |-> q.body]
  <2>1. q \in [tab : {q.tab, NoOne}, invite : {q.invite}, kind : {q.kind}, at : {q.at},
               body : {q.body}]
    BY DEF RequestInv, Sound
  <2> QED BY <2>1
<1>10. ASSUME NEW q \in requests, q.at = "authorised"
       PROVE  Sound(Orphan(q))' /\ Orphan(q).at = "authorised"
  <2> DEFINE o == [tab |-> NoOne, invite |-> q.invite, kind |-> q.kind, at |-> q.at,
                   body |-> q.body]
  <2>1. Sound(q) /\ q.invite.name \in Custodians
    BY DEF RequestInv, Sound, Minted, Links
  <2>2. Minted(q.invite)'
    BY <1>4, <2>1 DEF Sound, MintedStays
  <2>3. Sound(o)' /\ o.at = "authorised"
    BY <1>5, <1>10, <2>1, <2>2 DEF Sound, SheetsGrow
  <2> QED BY <1>9, <1>10, <2>3
<1> HIDE DEF Orphan
<1>11. ASSUME NEW q \in requests, q.tab # t
       PROVE  Sound(q)'
  <2>1. Sound(q) /\ q.invite.name \in Custodians
    BY DEF RequestInv, Sound, Minted, Links
  <2>2. Minted(q.invite)'
    BY <1>4, <2>1 DEF Sound, MintedStays
  <2> QED BY <1>5, <1>7, <1>11, <2>1, <2>2 DEF Sound, SheetsGrow
<1>12. RequestInv'
  BY <1>2, <1>10, <1>11 DEF RequestInv
<1>13. \A r \in requests' : Granted(r) => r \in requests
  BY <1>2, <1>10 DEF Granted
<1> QED BY <1>2, <1>5, <1>8, <1>12, <1>13, CustodianKeeps

\* What was asked is forgotten, or asked once more: nothing else happens.
LEMMA PollKeeps ==
  ASSUME IInv, NEW t \in Tabs, Poll(t)
  PROVE  IInv'
BY RefreshKeeps DEF Poll, paperVars, Gets

LEMMA LoseKeeps ==
  ASSUME IInv, NEW r \in requests, Lose(r)
  PROVE  IInv'
<1> USE DEF IInv
<1>1. requests' \subseteq requests /\ UNCHANGED <<serverVars, page, sheets, shown>>
  BY DEF Lose, paperVars
<1>2. MintedStays
  BY <1>1, ServerStays
<1>3. PageInv' /\ SheetsGrow /\ PagesStay
  BY <1>1, <1>2, PageStays
<1>4. RequestInv'
  BY <1>1, <1>2, <1>3, RequestsStay
<1> QED BY <1>1, <1>3, <1>4, CustodianKeeps

\* The words of a grant are displayed, once: its answer is gone, and no other
\* grant is of the same link.
LEMMA WordsAreShown ==
  ASSUME IInv, NEW r \in requests, Granted(r), UNCHANGED <<serverVars, sheets>>,
         NEW fresh, fresh = [invite |-> r.invite, tab |-> r.tab], r.tab # NoOne,
         shown' = shown \cup {fresh}, requests' = requests \ {r},
         NEW view, Go(r.tab, "words", fresh, view)
  PROVE  IInv'
<1> DEFINE t == r.tab
<1> USE DEF IInv
<1>1. fresh.invite = r.invite
  OBVIOUS
<1>2. Sound(r)
  BY DEF RequestInv
<1>3. t \in Tabs /\ page[t].step # "closed" /\ page[t].invite = r.invite
  BY <1>2 DEF Sound
<1>4. MintedStays /\ LinksInv'
  BY ServerStays
<1>5. SheetsGrow /\ sheets' = [n \in Custodians |-> sheets'[n]]
  BY DEF SheetsGrow, PageInv
<1>6. PageInv' /\ PagesStay
  BY <1>1, <1>3, <1>4, <1>5, GoKeeps
<1>7. RequestInv'
  BY <1>4, <1>5, <1>6, RequestsStay
<1>8. /\ r.invite \in generated /\ \A k \in shown : k.invite # r.invite
      /\ \A q \in requests : Granted(q) /\ q.invite = r.invite => q = r
  BY DEF GrantInv
<1>9. UNCHANGED <<ceremony, live, invites, revoked, generated, submissions, attestations, notes,
                  exported, complete>>
  BY DEF serverVars
<1>10. GrantInv'
  <2>1. \A i \in generated' : Minted(i)' /\ (i.ceremony = ceremony' =>
                                               i = live'[i.name] \/ i \in notes')
    BY <1>4, <1>9 DEF GrantInv, MintedStays
  <2>2. \A k \in shown' : k.invite \in generated'
    BY <1>1, <1>8, <1>9 DEF GrantInv
  <2>3. \A q \in requests' : Granted(q) =>
          q.invite \in generated' /\ \A k \in shown' : k.invite # q.invite
    BY <1>1, <1>8, <1>9 DEF GrantInv
  <2>4. \A p, q \in requests' : Granted(p) /\ Granted(q) /\ q.invite = p.invite => q = p
    BY DEF GrantInv
  <2> QED BY <2>1, <2>2, <2>3, <2>4 DEF GrantInv, Granted
<1>11. SubmissionInv' /\ OneGroup'
  BY <1>5, <1>9, RecordStays
<1>12. OnePhrasePerLink'
  BY <1>1, <1>8 DEF OnePhrasePerLink
<1> QED BY <1>4, <1>6, <1>7, <1>10, <1>11, <1>12

\* An answer that comes moves its page, or is followed by a refresh.
LEMMA DeliverKeeps ==
  ASSUME IInv, NEW r \in requests, Deliver(r)
  PROVE  IInv'
<1> DEFINE t == r.tab
           fresh == [invite |-> r.invite, tab |-> t]
           rest == requests \ {r}
           next == CASE r.kind = "toSubmitted" -> "submitted"
                     [] r.kind = "toDone" -> "done"
                     [] r.kind = "toGroup" /\ Everybody(r.body.subs) -> "group"
                     [] OTHER -> page[t].step
<1>1. Sound(r) /\ r.tab # NoOne /\ r.at # "authorised" /\ UNCHANGED <<serverVars, sheets>>
  BY DEF Deliver, IInv, RequestInv
<1>2. /\ t \in Tabs /\ page[t].step # "closed"
      /\ page[t].step \in {"words", "readback", "identity"} => page[t].key.invite = page[t].invite
      /\ page[t].step \in {"readback", "identity"} => page[t].key \in sheets[Owner[t]]
      /\ sheets = [n \in Custodians |-> sheets[n]]
  BY <1>1 DEF Sound, IInv, PageInv
<1>3. \/ r.at = "refused" /\ requests' = rest /\ UNCHANGED <<page, shown>>
      \/ /\ r.at = "ok" /\ r.kind = "generated"
         /\ shown' = shown \cup {fresh} /\ Go(t, "words", fresh, page[t].view)
         /\ requests' = rest
      \/ /\ r.at = "ok" /\ r.kind = "submission"
         /\ requests' = rest \cup refresh(t, "toSubmitted") /\ UNCHANGED <<page, shown>>
      \/ /\ r.at = "ok" /\ r.kind = "attestation"
         /\ requests' = rest \cup refresh(t, "toDone") /\ UNCHANGED <<page, shown>>
      \/ /\ r.kind \in Gets /\ Go(t, next, page[t].key, r.body)
         /\ requests' = rest /\ UNCHANGED shown
  BY <1>1 DEF Deliver, Sound, Gets
<1>4. CASE r.at = "refused" /\ requests' = rest /\ UNCHANGED <<page, shown>>
  <2>1. MintedStays
    BY <1>1, ServerStays
  <2>2. PageInv' /\ SheetsGrow /\ PagesStay
    BY <1>1, <1>4, <2>1, PageStays DEF IInv
  <2>3. RequestInv'
    BY <1>4, <2>1, <2>2, RequestsStay DEF IInv
  <2> QED BY <1>1, <1>4, <2>2, <2>3, CustodianKeeps
<1>5. CASE /\ r.at = "ok" /\ r.kind = "generated"
           /\ shown' = shown \cup {fresh} /\ Go(t, "words", fresh, page[t].view)
           /\ requests' = rest
  <2>1. Granted(r)
    BY <1>5 DEF Granted
  <2> QED BY <1>1, <1>5, <2>1, WordsAreShown
<1>6. CASE /\ requests' \in {rest \cup refresh(t, "toSubmitted"), rest \cup refresh(t, "toDone")}
           /\ UNCHANGED <<page, shown>>
  <2>1. PICK kind \in Gets : requests' = rest \cup refresh(t, kind)
    BY <1>6 DEF Gets
  <2> QED BY <1>1, <1>2, <1>6, <2>1, RefreshKeeps
<1>7. CASE /\ r.kind \in Gets /\ Go(t, next, page[t].key, r.body)
           /\ requests' = rest /\ UNCHANGED shown
  <2>1. next \in {"submitted", "done", "group", page[t].step}
    OBVIOUS
  <2>2. SheetsGrow /\ sheets' = [n \in Custodians |-> sheets'[n]]
    BY <1>1, <1>2 DEF SheetsGrow
  <2> HIDE DEF next
  <2>3. /\ next # "closed"
        /\ next \in {"words", "readback", "identity"} => page[t].key.invite = page[t].invite
        /\ next \in {"readback", "identity"} => page[t].key \in sheets'[Owner[t]]
    BY <1>1, <1>2, <2>1
  <2> QED BY <1>1, <1>2, <1>7, <2>2, <2>3, MoveKeeps
<1> QED BY <1>3, <1>4, <1>5, <1>6, <1>7

----------------------------------------------------------------------------
(* Every step *)

\* Every step of the ceremony keeps the invariant.
LEMMA StepIInv == IInv /\ [Next]_vars => IInv'
<1> SUFFICES ASSUME IInv, [Next]_vars PROVE IInv'
  OBVIOUS
<1>1. CASE UNCHANGED vars
  BY <1>1, StutterKeeps DEF vars
<1>2. CASE Coordinate
  BY <1>2, SetupKeeps, ExportKeeps DEF Coordinate
<1>3. CASE \E n \in Custodians : Reissue(n)
  BY <1>3, ReissueKeeps DEF Reissue
<1>4. CASE \E t \in Tabs : Open(t) \/ Press(t) \/ Poll(t)
  BY <1>4, OpenKeeps, PressKeeps, PollKeeps
<1>5. CASE \E r \in requests : Handle(r) \/ Deliver(r) \/ Lose(r)
  BY <1>5, GeneratedKeeps, SubmissionKeeps, AttestationKeeps, DeliverKeeps, LoseKeeps DEF Handle
<1> QED BY <1>1, <1>2, <1>3, <1>4, <1>5 DEF Next

\* The invariant holds at every step.
LEMMA AlwaysIInv == Spec => []IInv
BY InitIInv, StepIInv, PTL DEF Spec

\* Attestations and group.json name the one group of the record, whoever
\* submits, attests or exports in between (hostsession.go
\* handleHostAttestation, handleExport).
THEOREM AlwaysOneGroup == Spec => []OneGroup
<1>1. IInv => OneGroup
  BY DEF IInv
<1> QED BY <1>1, AlwaysIInv, PTL

\* A link shows one phrase, however many tabs it is open in, however often it
\* is reloaded and whichever answers are lost (hostsession.go handleGenerated).
THEOREM AlwaysOnePhrase == Spec => []OnePhrasePerLink
<1>1. IInv => OnePhrasePerLink
  BY DEF IInv
<1> QED BY <1>1, AlwaysIInv, PTL

\* A phrase that was shown and abandoned is named in the record and is not in
\* the group (hostsession.go handleReissue, stillLive).
THEOREM AbandonedAlwaysOut == Spec => []AbandonedStaysOut
<1>1. IInv => AbandonedStaysOut
  BY DEF IInv, GrantInv, SubmissionInv, AbandonedStaysOut
<1> QED BY <1>1, AlwaysIInv, PTL

\* A key in the group is on its custodian's paper (custodian.ts).
THEOREM AlwaysOnPaper == Spec => []HeldOnPaper
<1>1. IInv => HeldOnPaper
  BY DEF IInv, SubmissionInv, HeldOnPaper
<1> QED BY <1>1, AlwaysIInv, PTL

\* Once a group is exported, or anybody has attested, what was signed for stands:
\* no setup, submission, attestation or export changes the ceremony, the
\* record, the group or an attestation (hostsession.go handleSetup,
\* handleHostSubmission, handleHostAttestation, handleExport).
GroupStands ==
  exported # NoOne \/ (\E n \in Custodians : attestations[n] # NoOne) =>
    /\ UNCHANGED <<ceremony, submissions>>
    /\ exported # NoOne => exported' = exported
    /\ \A n \in Custodians : attestations[n] # NoOne => attestations'[n] = attestations[n]

\* From the first attestation on the group of a ceremony is settled
\* (hostsession.go handleSetup, handleHostSubmission, handleHostAttestation,
\* handleExport).
THEOREM GroupAlwaysStands == Spec => [][GroupStands]_vars
<1>1. ASSUME IInv, [Next]_vars PROVE [GroupStands]_vars
  <2> SUFFICES ASSUME Next, exported # NoOne \/ \E n \in Custodians : attestations[n] # NoOne
               PROVE  GroupStands
    BY <1>1 DEF GroupStands
  <2> DEFINE group == assembleGroup(ceremony, submissions)
  <2>1. /\ Everybody(submissions)
        /\ exported # NoOne => exported = group
        /\ \A n \in Custodians : attestations[n] # NoOne => attestations[n] = group
    BY <1>1 DEF IInv, OneGroup
  <2>2. CASE handleSetup
    <3>1. SetupRefused
      BY <2>1, CeremonyAssumption DEF SetupRefused, Everybody
    <3> QED BY <2>2, <3>1 DEF handleSetup, GroupStands
  <2>3. CASE handleExport
    BY <2>1, <2>3 DEF handleExport, GroupStands
  <2>4. ASSUME NEW r \in requests, handleHostAttestation(r)
        PROVE  GroupStands
    <3> DEFINE n == r.invite.name
    <3>1. /\ UNCHANGED <<ceremony, submissions, exported>>
          /\ \/ attestations' = attestations
             \/ attestations' = [attestations EXCEPT ![n] = r.body.group] /\ r.body.group = group
      BY <2>4 DEF handleHostAttestation
    <3>2. \A m \in Custodians : attestations[m] # NoOne => attestations'[m] = attestations[m]
      BY <1>1, <2>1, <3>1 DEF IInv, SubmissionInv
    <3> QED BY <3>1, <3>2 DEF GroupStands
  <2>5. ASSUME NEW r \in requests, handleHostSubmission(r)
        PROVE  GroupStands
    <3>1. r.invite.name \in Custodians
      BY <1>1 DEF IInv, RequestInv, Sound, Minted, Links
    <3>2. UNCHANGED <<ceremony, submissions, exported, attestations>>
      BY <2>1, <2>5, <3>1 DEF handleHostSubmission, Everybody
    <3> QED BY <3>2 DEF GroupStands
  <2>6. ASSUME UNCHANGED <<ceremony, submissions, exported, attestations>>
        PROVE  GroupStands
    BY <2>6 DEF GroupStands
  <2>7. ASSUME NEW r \in requests, handleGenerated(r) \/ Deliver(r) \/ Lose(r)
        PROVE  GroupStands
    BY <2>6, <2>7 DEF handleGenerated, Deliver, Lose, serverVars
  <2>8. ASSUME NEW n \in Custodians, Reissue(n)
        PROVE  GroupStands
    BY <2>6, <2>8 DEF Reissue, handleReissue
  <2>9. ASSUME NEW t \in Tabs, Open(t) \/ Poll(t)
        PROVE  GroupStands
    BY <2>6, <2>9 DEF Open, runCustodian, Poll, serverVars
  <2>10. ASSUME NEW t \in Tabs, Press(t)
         PROVE  GroupStands
    BY <2>6, <2>10 DEF Press, welcomeScreen, generateScreen, wordsScreen, readbackScreen,
                       identityScreen, waitingScreen, groupScreen, reenterScreen, serverVars
  <2> QED BY <2>2, <2>3, <2>4, <2>5, <2>7, <2>8, <2>9, <2>10 DEF Next, Coordinate, Handle
<1> QED BY <1>1, AlwaysIInv, PTL DEF Spec
=============================================================================
