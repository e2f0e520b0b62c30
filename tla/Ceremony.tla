------------------------------ MODULE Ceremony ------------------------------
(* The hosted key ceremony: the coordinator's server, the coordinator's page *)
(* and the custodians' pages.                                                *)
(*                                                                           *)
(* Each custodian follows a link, is shown twenty-four words once, writes    *)
(* them on paper, sends the public half, computes the group from everybody's *)
(* submissions on their own device and signs an attestation naming it.       *)
(* The server keeps everything in memory, under one mutex; a request is      *)
(* authorised under the lock, the lock is released, and the handler takes it *)
(* again.  Answers travel on their own and may be overtaken or lost.         *)
(*                                                                           *)
(* A key is named by the link and the tab it was generated on, a group       *)
(* fingerprint by what it is a fingerprint of: the ceremony and its          *)
(* submissions.  OpenedAt, phases and texts only decide what is displayed.   *)
(*                                                                           *)
(* Paper is outside the code, and two things are taken from its holders: who *)
(* passes the read-back has written the words down, and a custodian whose    *)
(* link is withdrawn destroys the sheet, since a page on the new link accepts *)
(* the words of any sheet.                                                   *)
EXTENDS Naturals

CONSTANTS
  Custodians,       \* the roster
  Tabs,             \* browser tabs
  Owner,            \* the custodian who sits at a tab
  NoOne,            \* "", nil, null
  Unlucky,          \* the custodians a mishap may befall
  MaxSetups,        \* bound: setups sent or done
  MaxIssues,        \* bound: links minted for one custodian in one ceremony
  MaxMishaps        \* bound: tabs reloaded or opened twice, answers late or
                    \* lost, links reissued without need, setups sent twice

ASSUME CeremonyAssumption ==
  /\ Owner \in [Tabs -> Custodians]
  /\ Unlucky \subseteq Custodians
  /\ MaxSetups \in Nat \ {0} /\ MaxIssues \in Nat \ {0} /\ MaxMishaps \in Nat
  /\ Custodians # {} /\ NoOne \notin Custodians \cup Tabs

VARIABLES
  ceremony,      \* h.params.ID, numbered; 0 is !paramsSet
  invites,       \* h.invites
  live,          \* h.live
  revoked,       \* the invites whose Revoked is set
  generated,     \* the invites whose GeneratedAt is set
  submissions,   \* h.submissions
  attestations,  \* h.attestations, by the custodian whose address it is
  notes,         \* h.notes: the invites reissued after a phrase was shown
  exported,      \* the group in group.json
  complete,      \* h.complete
  pending,       \* setup requests on their way
  page,          \* each tab: its link, step, key in memory and view
  requests,      \* requests and answers between a tab and the server
  shown,         \* every key whose words were displayed
  sheets,        \* each custodian's paper
  mishaps        \* mishaps so far

serverVars == <<ceremony, invites, live, revoked, generated, submissions, attestations,
                notes, exported, complete>>
paperVars == <<shown, sheets>>
vars == <<serverVars, pending, page, requests, paperVars, mishaps>>

Invites == [ceremony : 1 .. MaxSetups, name : Custodians, issue : 1 .. MaxIssues]
\* A GET is named by what the page does with the view that comes back.
Gets == {"toSubmitted", "toGroup", "toDone", "poll"}
NobodyYet == [n \in Custodians |-> NoOne]
BlankView == [ceremony |-> 0, subs |-> NobodyYet]
Closed == [invite |-> NoOne, step |-> "closed", key |-> NoOne, view |-> BlankView]

Everybody(subs) == \A n \in Custodians : subs[n] # NoOne
----------------------------------------------------------------------------
(* What both sides compute. *)

\* A possession signature is made with the key; the name comes from the link.
verifySubmission(c, sub) == sub.ceremony = c

assembleGroup(c, subs) == [ceremony |-> c, subs |-> subs]

\* Whether assembleGroup succeeds.
Assembles(c, subs) ==
  /\ Everybody(subs)
  /\ \A n \in Custodians : verifySubmission(c, subs[n])

presence(subs, n, key) == subs[n].key = key

inviteView == [ceremony |-> ceremony, subs |-> submissions]

inviteFor(i) == i \in invites /\ i \notin revoked

\* Fault: only the guard asks whether the link was withdrawn.
stillLive_Guarded(i) == TRUE

stillLive(i) == i \notin revoked
----------------------------------------------------------------------------
(* The coordinator. *)

\* The setup panel stays on the coordinator's page, its button enabled, until
\* the page has seen parameters: pressed again, or in a second tab, it sends
\* another setup, which the server may come to at any time.
Init ==
  /\ ceremony = 0 /\ invites = {} /\ live = NobodyYet
  /\ revoked = {} /\ generated = {}
  /\ submissions = NobodyYet /\ attestations = NobodyYet
  /\ notes = {} /\ exported = NoOne /\ complete = FALSE
  /\ pending \in 1 .. MaxSetups
  /\ page = [t \in Tabs |-> Closed]
  /\ requests = {}
  /\ shown = {} /\ sheets = [n \in Custodians |-> {}]
  /\ mishaps = pending - 1 /\ mishaps <= MaxMishaps

Mishap == mishaps < MaxMishaps /\ mishaps' = mishaps + 1

\* Fault: the ceremony may always be set up again.
SetupRefused_Never == FALSE

SetupRefused ==
  \E n \in Custodians : submissions[n] # NoOne \/ live[n] \in generated

\* New parameters, and a first link for every name.  The links it forgets
\* are not marked revoked.
handleSetup ==
  /\ pending > 0
  /\ pending' = pending - 1
  /\ IF SetupRefused THEN UNCHANGED <<ceremony, invites, live>>
     ELSE /\ ceremony' = ceremony + 1
          /\ live' = [n \in Custodians |-> [ceremony |-> ceremony + 1, name |-> n, issue |-> 1]]
          /\ invites' = {live'[n] : n \in Custodians}
  /\ UNCHANGED <<revoked, generated, submissions, attestations, notes, exported, complete,
                 page, requests, paperVars, mishaps>>

issueLocked(n) ==
  LET fresh == [live[n] EXCEPT !.issue = @ + 1] IN
  /\ revoked' = revoked \cup {live[n]}
  /\ invites' = invites \cup {fresh}
  /\ live' = [live EXCEPT ![n] = fresh]

\* Fault: the abandoned key is only shown on the board.
handleReissue_Unnoted(n) ==
  /\ ceremony > 0 /\ submissions[n] = NoOne
  /\ live[n].issue < MaxIssues
  /\ issueLocked(n)
  /\ UNCHANGED <<ceremony, generated, submissions, attestations, notes, exported, complete,
                 pending, page, requests, paperVars>>

handleReissue(n) ==
  /\ ceremony > 0 /\ submissions[n] = NoOne
  /\ live[n].issue < MaxIssues
  /\ issueLocked(n)
  /\ notes' = IF live[n] \in generated THEN notes \cup {live[n]} ELSE notes
  /\ UNCHANGED <<ceremony, generated, submissions, attestations, exported, complete,
                 pending, page, requests, paperVars>>

\* The record may be exported at any time, group.json only of a whole group.
handleExport ==
  /\ ceremony > 0
  /\ Everybody(submissions) => Assembles(ceremony, submissions)
  /\ exported' = IF Everybody(submissions) THEN assembleGroup(ceremony, submissions)
                 ELSE exported
  /\ complete' = Everybody(attestations)
  /\ UNCHANGED <<ceremony, invites, live, revoked, generated, submissions, attestations, notes,
                 pending, page, requests, paperVars, mishaps>>
----------------------------------------------------------------------------
(* The server's side of a custodian's request: the guard has let it through, *)
(* the handler runs later.                                                   *)

Answer(r, at) ==
  requests' = (requests \ {r}) \cup
                IF r.tab = NoOne THEN {}
                ELSE {[tab |-> r.tab, invite |-> r.invite, kind |-> r.kind, at |-> at,
                       body |-> NoOne]}

\* Fault: the grant is recorded and not asked for.
handleGenerated_Again(r) ==
  /\ r.kind = "generated" /\ r.at = "authorised"
  /\ IF stillLive(r.invite) /\ submissions[r.invite.name] = NoOne
     THEN generated' = generated \cup {r.invite} /\ Answer(r, "ok")
     ELSE UNCHANGED generated /\ Answer(r, "refused")
  /\ UNCHANGED <<ceremony, invites, live, revoked, submissions, attestations, notes, exported,
                 complete, pending, page, paperVars, mishaps>>

handleGenerated(r) ==
  /\ r.kind = "generated" /\ r.at = "authorised"
  /\ IF stillLive(r.invite) /\ r.invite \notin generated /\ submissions[r.invite.name] = NoOne
     THEN generated' = generated \cup {r.invite} /\ Answer(r, "ok")
     ELSE UNCHANGED generated /\ Answer(r, "refused")
  /\ UNCHANGED <<ceremony, invites, live, revoked, submissions, attestations, notes, exported,
                 complete, pending, page, paperVars, mishaps>>

\* The same key again is answered like the first time, another key is refused.
handleHostSubmission(r) ==
  LET n == r.invite.name
      sound == stillLive(r.invite) /\ verifySubmission(ceremony, r.body)
      same == submissions[n] # NoOne /\ submissions[n].key = r.body.key
  IN
  /\ r.kind = "submission" /\ r.at = "authorised"
  /\ IF sound /\ submissions[n] = NoOne
     THEN submissions' = [submissions EXCEPT ![n] = r.body]
     ELSE UNCHANGED submissions
  /\ Answer(r, IF sound /\ (submissions[n] = NoOne \/ same) THEN "ok" ELSE "refused")
  /\ UNCHANGED <<ceremony, invites, live, revoked, generated, attestations, notes, exported,
                 complete, pending, page, paperVars, mishaps>>

handleHostAttestation(r) ==
  LET n == r.invite.name
      sound == /\ stillLive(r.invite)
               /\ submissions[n] # NoOne /\ r.body.key = submissions[n].key
               /\ r.body.ceremony = ceremony
               /\ Assembles(ceremony, submissions)
               /\ r.body.group = assembleGroup(ceremony, submissions)
               /\ presence(submissions, n, r.body.key)
  IN
  /\ r.kind = "attestation" /\ r.at = "authorised"
  /\ attestations' = IF sound THEN [attestations EXCEPT ![n] = r.body.group] ELSE attestations
  /\ Answer(r, IF sound THEN "ok" ELSE "refused")
  /\ UNCHANGED <<ceremony, invites, live, revoked, generated, submissions, notes, exported,
                 complete, pending, page, paperVars, mishaps>>
----------------------------------------------------------------------------
(* A custodian's page. *)

Busy(t) == \E r \in requests : r.tab = t /\ r.kind # "poll"

\* The guard refuses a POST whose link it does not know; the page shows why
\* and stays where it is.
Post(t, kind, body) ==
  /\ ~Busy(t)
  /\ inviteFor(page[t].invite)
  /\ requests' = requests \cup {[tab |-> t, invite |-> page[t].invite, kind |-> kind,
                                 at |-> "authorised", body |-> body]}

Asked(t, kind) ==
  [tab |-> t, invite |-> page[t].invite, kind |-> kind, at |-> "ok", body |-> inviteView]

\* refresh: the server answers with the view as it is now; when the answer
\* gets back is another matter.
refresh(t, kind) == IF inviteFor(page[t].invite) THEN {Asked(t, kind)} ELSE {}

\* A screen keeps of its view what it still reads before the next refresh.
Shown(step, view) ==
  IF step \in {"reenter", "submitted", "group"} THEN view
  ELSE IF step = "done" THEN BlankView
  ELSE [view EXCEPT !.subs = NobodyYet]

Go(t, step, key, view) ==
  page' = [page EXCEPT ![t] =
            [invite |-> page[t].invite, step |-> step, key |-> key, view |-> Shown(step, view)]]

\* Fault: a page resumes only from a recorded key.
initialStep_Recorded(n, i) == IF submissions[n] # NoOne THEN "reenter" ELSE "welcome"

initialStep(n, i) == IF submissions[n] # NoOne \/ i \in generated THEN "reenter" ELSE "welcome"

\* Loading a link forgets everything the tab held; requests it had made are
\* still on their way.
runCustodian(t, i) ==
  /\ inviteFor(i) /\ i.name = Owner[t]
  /\ LET step == initialStep(i.name, i) IN
     page' = [page EXCEPT ![t] = [invite |-> i, step |-> step, key |-> NoOne,
                                  view |-> Shown(step, inviteView)]]
  /\ requests' = {r \in requests : r.tab # t} \cup
       {[r EXCEPT !.tab = NoOne] : r \in {q \in requests : q.tab = t /\ q.at = "authorised"}}
  /\ UNCHANGED <<serverVars, pending, paperVars>>

welcomeScreen(t) ==
  /\ page[t].step = "welcome"
  /\ Go(t, "generate", NoOne, page[t].view)
  /\ UNCHANGED <<serverVars, pending, requests, paperVars, mishaps>>

generateScreen(t) ==
  /\ page[t].step = "generate"
  /\ Post(t, "generated", NoOne)
  /\ UNCHANGED <<serverVars, pending, page, paperVars, mishaps>>

\* Fault: the page does not wait for the paper.
wordsScreen_Skipped(t) ==
  /\ page[t].step = "words"
  /\ Go(t, "readback", page[t].key, page[t].view)
  /\ UNCHANGED <<serverVars, pending, requests, paperVars, mishaps>>

\* The words are written down and leave the page.
wordsScreen(t) ==
  /\ page[t].step = "words"
  /\ sheets' = [sheets EXCEPT ![Owner[t]] = @ \cup {page[t].key}]
  /\ Go(t, "readback", page[t].key, page[t].view)
  /\ UNCHANGED <<serverVars, pending, requests, shown, mishaps>>

readbackScreen(t) ==
  /\ page[t].step = "readback"
  /\ Go(t, "identity", page[t].key, page[t].view)
  /\ UNCHANGED <<serverVars, pending, requests, paperVars, mishaps>>

identityScreen(t) ==
  /\ page[t].step = "identity"
  /\ Post(t, "submission", [ceremony |-> page[t].view.ceremony, key |-> page[t].key])
  /\ UNCHANGED <<serverVars, pending, page, paperVars, mishaps>>

waitingScreen(t) ==
  /\ page[t].step = "submitted" /\ ~Busy(t)
  /\ inviteFor(page[t].invite)
  /\ requests' = requests \cup refresh(t, "toGroup")
  /\ UNCHANGED <<serverVars, pending, page, paperVars, mishaps>>

\* The group is computed here, from the submissions as relayed, and signed
\* only when it adds up and holds this page's own key.
groupScreen(t) ==
  LET v == page[t].view IN
  /\ page[t].step = "group"
  /\ Assembles(v.ceremony, v.subs)
  /\ presence(v.subs, page[t].invite.name, page[t].key)
  /\ Post(t, "attestation", [ceremony |-> v.ceremony, key |-> page[t].key,
                             group |-> assembleGroup(v.ceremony, v.subs)])
  /\ UNCHANGED <<serverVars, pending, page, paperVars, mishaps>>

\* The sheets a custodian types from: the ones written against a link that
\* has been replaced they were told to destroy, and nothing on the page could
\* tell them apart.
Sheets(t) == {k \in sheets[Owner[t]] : k.invite = page[t].invite}

reenterScreen(t) ==
  LET v == page[t].view
      own == v.subs[page[t].invite.name]
  IN
  /\ page[t].step = "reenter"
  /\ \E k \in Sheets(t) :
       /\ own # NoOne => own.key = k
       /\ Go(t, CASE own = NoOne -> "identity"
                  [] own # NoOne /\ Everybody(v.subs) -> "group"
                  [] OTHER -> "submitted", k, v)
  /\ UNCHANGED <<serverVars, pending, requests, paperVars, mishaps>>

\* An answer reaches the page that asked.  A refusal is shown and changes
\* nothing; a POST that succeeded is followed by what the handler of its
\* button does next.
Deliver(r) ==
  LET t == r.tab
      fresh == [invite |-> r.invite, tab |-> t]
      rest == requests \ {r}
  IN
  /\ r.tab # NoOne /\ r.at # "authorised"
  /\ CASE r.at = "refused" -> requests' = rest /\ UNCHANGED <<page, shown>>
       [] r.at = "ok" /\ r.kind = "generated" ->
            /\ shown' = shown \cup {fresh}
            /\ Go(t, "words", fresh, page[t].view)
            /\ requests' = rest
       [] r.at = "ok" /\ r.kind = "submission" ->
            requests' = rest \cup refresh(t, "toSubmitted") /\ UNCHANGED <<page, shown>>
       [] r.at = "ok" /\ r.kind = "attestation" ->
            requests' = rest \cup refresh(t, "toDone") /\ UNCHANGED <<page, shown>>
       [] r.kind \in Gets ->
            /\ Go(t, CASE r.kind = "toSubmitted" -> "submitted"
                       [] r.kind = "toDone" -> "done"
                       [] r.kind = "toGroup" /\ Everybody(r.body.subs) -> "group"
                       [] OTHER -> page[t].step, page[t].key, r.body)
            /\ requests' = rest
            /\ UNCHANGED shown
  /\ UNCHANGED <<serverVars, pending, sheets, mishaps>>
----------------------------------------------------------------------------
(* What goes wrong.  A mishap is bounded; what a person does to get going    *)
(* again after one is not.                                                   *)

\* No button on this tab leads any further: the link was withdrawn, its grant
\* is spent, another key is recorded, or the group does not add up.
DeadEnd(t) ==
  LET p == page[t]
      n == Owner[t]
  IN
  /\ ~Busy(t)
  /\ \/ ~inviteFor(p.invite)
     \/ p.step = "generate" /\ p.invite \in generated
     \/ p.step = "identity" /\ submissions[n] # NoOne /\ submissions[n].key # p.key
     \/ p.step = "group" /\ ~(/\ Assembles(p.view.ceremony, p.view.subs)
                              /\ presence(p.view.subs, n, p.key))

OpenTabs(n) == {t \in Tabs : Owner[t] = n /\ page[t].step # "closed"}

\* A custodian opens their link when no tab of theirs is open, and again when
\* a tab is at a dead end.
WantsToOpen(t) ==
  IF page[t].step = "closed" THEN OpenTabs(Owner[t]) = {} ELSE DeadEnd(t)

Open(t) ==
  /\ \E i \in invites : runCustodian(t, i)
  /\ IF WantsToOpen(t) THEN UNCHANGED mishaps ELSE Owner[t] \in Unlucky /\ Mishap

\* The words of the live link are nowhere: on no page, on no sheet.
WordsAreGone(n) ==
  /\ live[n] \in generated
  /\ \A k \in sheets[n] : k.invite # live[n]
  /\ \A t \in Tabs : page[t].key # NoOne => page[t].key.invite # live[n]
  /\ \A r \in requests : r.kind = "generated" => r.invite # live[n]

Reissue(n) ==
  /\ handleReissue(n)
  /\ IF WordsAreGone(n) THEN UNCHANGED mishaps ELSE n \in Unlucky /\ Mishap

\* The poll of every four seconds.  One that is answered at once shows what
\* the button above it shows; this one dawdles, and the page may move on
\* before the view it carries arrives.
Poll(t) ==
  /\ page[t].step = "submitted"
  /\ ~\E r \in requests : r.tab = t /\ r.kind = "poll"
  /\ requests' = requests \cup refresh(t, "poll")
  /\ Owner[t] \in Unlucky /\ Mishap
  /\ UNCHANGED <<serverVars, pending, page, paperVars>>

\* An answer is lost on its way: the fetch fails and the page stays put.
Lose(r) ==
  /\ r.tab # NoOne /\ r.at # "authorised" /\ r.kind # "poll"
  /\ requests' = requests \ {r}
  /\ r.invite.name \in Unlucky /\ Mishap
  /\ UNCHANGED <<serverVars, pending, page, paperVars>>
----------------------------------------------------------------------------
Handle(r) == handleGenerated(r) \/ handleHostSubmission(r) \/ handleHostAttestation(r)

Press(t) ==
  \/ welcomeScreen(t) \/ generateScreen(t) \/ wordsScreen(t) \/ readbackScreen(t)
  \/ identityScreen(t) \/ waitingScreen(t) \/ groupScreen(t) \/ reenterScreen(t)

Coordinate == handleSetup \/ handleExport

Next ==
  \/ Coordinate
  \/ \E n \in Custodians : Reissue(n)
  \/ \E t \in Tabs : Open(t) \/ Press(t) \/ Poll(t)
  \/ \E r \in requests : Handle(r) \/ Deliver(r) \/ Lose(r)

Spec == Init /\ [][Next]_vars

\* A tab gets on: its button is pressed, or the server and the network get
\* round to what it asked.
Advance(t) ==
  \/ Press(t)
  \/ \E r \in requests : r.tab = t /\ r.kind # "poll" /\ (Handle(r) \/ Deliver(r))

\* Requests are answered, and people carry on: the coordinator sets the
\* ceremony up, exports, and reissues a link whose words are gone; a custodian
\* opens their link, presses the button that is there, and reloads rather than
\* press for ever a button that is refused.
FairSpec ==
  /\ Spec
  /\ WF_vars(Coordinate)
  /\ \A n \in Custodians : SF_vars(WordsAreGone(n) /\ Reissue(n))
  /\ \A t \in Tabs : WF_vars(Advance(t)) /\ SF_vars(WantsToOpen(t) /\ Open(t))
----------------------------------------------------------------------------
(* Properties. *)

\* Every attestation, and group.json, name the one group the recorded
\* submissions make, and a ceremony is complete only when every custodian has
\* attested to what group.json holds (hostsession.go handleHostAttestation,
\* handleExport).
OneGroup ==
  LET group == assembleGroup(ceremony, submissions) IN
  /\ \A n \in Custodians :
       attestations[n] # NoOne => Everybody(submissions) /\ attestations[n] = group
  /\ exported # NoOne => Everybody(submissions) /\ exported = group
  /\ complete => exported = group /\ \A n \in Custodians : attestations[n] = exported

\* A link shows one phrase, however many tabs it is open in and however often
\* they are reloaded (hostsession.go handleGenerated, custodian.ts generate).
OnePhrasePerLink ==
  \A k, l \in shown : k.invite = l.invite => k = l

\* A key of this ceremony whose words were displayed and whose link was
\* withdrawn is named in the record's notes as abandoned, and no withdrawn
\* link's key is in the group, not even one whose submission was on its way
\* (hostsession.go handleReissue, stillLive).
AbandonedStaysOut ==
  /\ \A k \in shown :
       k.invite.ceremony = ceremony => k.invite = live[k.invite.name] \/ k.invite \in notes
  /\ \A n \in Custodians : submissions[n] # NoOne => submissions[n].key.invite \notin revoked

\* A key enters the group only once its custodian has it on paper (custodian.ts
\* words, readback and identity screens).
HeldOnPaper ==
  \A n \in Custodians : submissions[n] # NoOne => submissions[n].key \in sheets[n]

\* Whatever is lost, reloaded or reissued on the way, every custodian ends up
\* having attested (custodian.ts runCustodian, coordinator.ts).
EveryoneAttests == <>(Everybody(attestations) /\ complete)
============================================================================
