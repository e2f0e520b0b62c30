------------------------------ MODULE Payments ------------------------------
(* Paying from the app: the payment screen, the address book behind it, the  *)
(* signer that submits the transfer, and the node it is submitted to.        *)
(*                                                                           *)
(* Whoever is typed in is looked up on the chain, and lookups are answered   *)
(* in any order.  A payment code is read asynchronously as well, and fills   *)
(* in the form when it is trusted.  Submitting reads the account's sequence, *)
(* signs, broadcasts and waits for the block; any of it may fail after the   *)
(* node has taken the transfer.  A person may leave the screen, or the app   *)
(* be restarted, at any moment.                                              *)
(*                                                                           *)
(* A payee stands for the whole payment: id, account, amount and reference;  *)
(* the name a code carries is the payee it names.  The account holds enough, *)
(* and the node may refuse a transfer, or fail it in the block, for reasons  *)
(* of its own.  The device may fail as well: it may hold no key to sign with, *)
(* or have no room for the list of people paid.  The twelve-entry cap of that *)
(* list and the names codes carry are left out.                              *)
EXTENDS Naturals, FiniteSets

CONSTANTS
  Payees,      \* the ids a person may type or a code may name
  Registered,  \* those the chain resolves to an account
  Contacts,    \* those saved in the address book
  NoOne,       \* "", null
  MaxSends,    \* bound: payments sent
  MaxIds       \* bound: end-to-end ids drawn

ASSUME PaymentsAssumption ==
  /\ Registered \subseteq Payees /\ Contacts \subseteq Payees /\ NoOne \notin Payees
  /\ MaxSends \in Nat /\ MaxIds \in Nat \ {0}

VARIABLES
  to,          \* the id in the form
  payee,       \* whom it resolved to
  lookups,     \* book.resolve calls under way; one belongs to the form as it is
  checking,    \* the code being read
  e2e,         \* the end-to-end id of this composition
  stage,       \* "compose", "sending", "done"
  outcome,     \* what the screen reports: the payment's number, and ok
  deviceFailed, \* send() ended in an exception nobody catches
  confirming,  \* confirmingNew: the pause before a first payment
  recents,     \* the device's list of who was paid
  flights,     \* calls of send() under way; one at most is the screen's
  mempool,     \* transfers the node has accepted
  sequence,    \* the account's sequence on the chain
  inBlock,     \* transfers in a block: their number, and whether they executed
  sent,        \* every payment sent: number, payee, id, whom the screen named, and when
  receipts,    \* every payment reported as settled
  drawn        \* end-to-end ids drawn

formVars == <<to, payee, lookups, checking, e2e, confirming>>
chainVars == <<mempool, sequence, inBlock>>
historyVars == <<sent, receipts>>
screenVars == <<stage, outcome, deviceFailed>>
payVars == <<formVars, screenVars, recents, flights, chainVars, historyVars, drawn>>

MaybePayee == Payees \cup {NoOne}
Codes == [to : Payees, genuine : BOOLEAN]
NoCode == [to |-> NoOne, genuine |-> FALSE]
Blank == [id |-> NoOne, state |-> "unknown"]
NoOutcome == [n |-> 0, ok |-> FALSE]

isKnown(p) == p \in Contacts \/ p \in recents

Settled(n) == [n |-> n, executed |-> TRUE] \in inBlock

PayInit ==
  /\ to = NoOne /\ payee = Blank /\ lookups = {}
  /\ checking = NoCode /\ e2e = 1 /\ confirming = FALSE
  /\ stage = "compose" /\ outcome = NoOutcome /\ deviceFailed = FALSE
  /\ recents = {} /\ flights = {}
  /\ mempool = {} /\ sequence = 0 /\ inBlock = {}
  /\ sent = {} /\ receipts = {} /\ drawn = 1
----------------------------------------------------------------------------
(* The form. *)

\* A changed id is looked up, and the answer to the lookup before it is not
\* waited for any more.  The effect that does so has run before the next event
\* but for the one PressedEarly has.
setTo(p) ==
  /\ to' = p
  /\ IF p = to THEN UNCHANGED <<payee, lookups>>
     ELSE LET dead == {[l EXCEPT !.live = FALSE] : l \in lookups} IN
          IF p = NoOne THEN payee' = Blank /\ lookups' = dead
          ELSE /\ payee' = [id |-> p, state |-> "looking"]
               /\ lookups' = dead \cup {[id |-> p, live |-> TRUE]}

Type(p) ==
  /\ stage = "compose" /\ p # to
  /\ setTo(p)
  /\ UNCHANGED <<checking, e2e, confirming, screenVars, recents, flights,
                 chainVars, historyVars, drawn>>

\* Fault: the answer to any lookup is taken for the one asked last.
StillWanted_Any(l) == TRUE

StillWanted(l) == l.live

\* A lookup is answered; an unreachable node reads as an unknown id.
resolve(l) ==
  /\ l \in lookups
  /\ lookups' = lookups \ {l}
  /\ \E state \in {"unknown"} \cup (IF l.id \in Registered THEN {"found"} ELSE {}) :
       payee' = IF StillWanted(l) THEN [id |-> l.id, state |-> state] ELSE payee
  /\ UNCHANGED <<to, checking, e2e, confirming, screenVars, recents, flights,
                 chainVars, historyVars, drawn>>

\* readCode() up to its await.
readCode(c) ==
  /\ stage = "compose" /\ checking = NoCode
  /\ checking' = c
  /\ UNCHANGED <<to, payee, lookups, e2e, confirming, screenVars, recents,
                 flights, chainVars, historyVars, drawn>>

\* readSigned answers: a code the named payee signed fills in the form.  Its
\* own lookup of the payee may fail, and then nothing is trusted.
CodeRead ==
  /\ checking # NoCode
  /\ checking' = NoCode
  /\ \/ /\ checking.genuine /\ checking.to \in Registered
        /\ setTo(checking.to)
     \/ UNCHANGED <<to, payee, lookups>>
  /\ UNCHANGED <<e2e, confirming, screenVars, recents, flights, chainVars, historyVars,
                 drawn>>

\* A code that cannot be read.
CodeUnreadable ==
  /\ checking # NoCode
  /\ checking' = NoCode
  /\ UNCHANGED <<to, payee, lookups, e2e, confirming, screenVars, recents,
                 flights, chainVars, historyVars, drawn>>
----------------------------------------------------------------------------
(* Sending. *)

\* send() up to its await: payee and memo are the ones of the screen
\* the button was pressed on, which names id.
send(id, asked) ==
  LET n == Cardinality(sent) + 1 IN
  /\ n <= MaxSends
  /\ stage' = "sending"
  /\ flights' = flights \cup
       {[n |-> n, payee |-> payee.id, e2e |-> e2e,
         step |-> "signing", sequence |-> 0, screen |-> TRUE]}
  /\ sent' = sent \cup {[n |-> n, payee |-> payee.id, e2e |-> e2e, named |-> id,
                         known |-> isKnown(id), asked |-> asked, early |-> id # to]}
  /\ UNCHANGED recents

\* The button, on a screen that names id: somebody never paid before takes a
\* second press.
Pressed(id) ==
  IF isKnown(id) THEN send(id, FALSE) /\ UNCHANGED confirming
  ELSE confirming' = TRUE /\ UNCHANGED <<stage, flights, sent, recents>>

submit ==
  /\ stage = "compose" /\ payee.state = "found"
  /\ Pressed(to)
  /\ UNCHANGED <<to, payee, lookups, checking, e2e, outcome, deviceFailed, chainVars,
                 receipts, drawn>>

\* The second press; the form is live behind it, and send() looks again at
\* whether there is anybody to pay.
PayAnyway ==
  /\ stage = "compose" /\ confirming
  /\ confirming' = FALSE
  /\ IF payee.state = "found" THEN send(to, TRUE)
     ELSE UNCHANGED <<stage, flights, sent, recents>>
  /\ UNCHANGED <<to, payee, lookups, checking, e2e, outcome, deviceFailed, chainVars,
                 receipts, drawn>>

\* A code fills in the form, and a button is pressed in the frame before the
\* effect on the new id runs: the payee is still the one before it.
PressedEarly ==
  /\ checking.genuine /\ checking.to \in Registered \ {to}
  /\ checking' = NoCode /\ setTo(checking.to)
  /\ stage = "compose" /\ payee.state = "found"
  /\ \/ Pressed(checking.to)
     \/ confirming /\ confirming' = FALSE /\ send(checking.to, TRUE)
  /\ UNCHANGED <<e2e, outcome, deviceFailed, chainVars, receipts, drawn>>

Cancel ==
  /\ stage = "compose" /\ confirming
  /\ confirming' = FALSE
  /\ UNCHANGED <<to, payee, lookups, checking, e2e, screenVars, recents, flights,
                 chainVars, historyVars, drawn>>

\* send() after its await: the book is written when the payment succeeded, the
\* screen when it is still there.
Report(f, ok) ==
  /\ flights' = flights \ {f}
  /\ recents' = IF ok THEN recents \cup {f.payee} ELSE recents
  /\ IF f.screen
     THEN /\ stage' = "done" /\ outcome' = [n |-> f.n, ok |-> ok]
          /\ receipts' = IF ok THEN receipts \cup {[n |-> f.n, e2e |-> f.e2e]} ELSE receipts
     ELSE UNCHANGED <<stage, outcome, receipts>>
  /\ UNCHANGED deviceFailed

\* Fault: an exception of the signer is not caught.
pay_Uncaught(f) ==
  /\ flights' = flights \ {f}
  /\ UNCHANGED <<screenVars, recents, receipts>>

\* pay() catches what the signer throws: the payment is reported as failed.
pay(f) == Report(f, FALSE)

\* The device holds no key: pay() asks for the address before its try, and send()
\* ends there.
NoKey(f) ==
  /\ f \in flights /\ f.step = "signing"
  /\ flights' = flights \ {f}
  /\ deviceFailed' = (deviceFailed \/ f.screen)
  /\ UNCHANGED <<formVars, stage, outcome, recents, chainVars, historyVars, drawn>>

\* ChainSigner.submit: signAndBroadcast reads the sequence and signs.
Sign(f) ==
  /\ f \in flights /\ f.step = "signing"
  /\ flights' = (flights \ {f}) \cup {[f EXCEPT !.step = "signed", !.sequence = sequence]}
  /\ UNCHANGED <<formVars, screenVars, recents, chainVars, historyVars, drawn>>

\* The node takes a transfer whose sequence is the next one it has not seen.
CheckTx(f) == f.sequence = sequence + Cardinality(mempool)
Accepted(f) == mempool' = mempool \cup {[n |-> f.n, sequence |-> f.sequence]}

\* The node is asked: it accepts and the signer waits for the block.
Broadcast(f) ==
  /\ f \in flights /\ f.step = "signed" /\ CheckTx(f)
  /\ Accepted(f)
  /\ flights' = (flights \ {f}) \cup {[f EXCEPT !.step = "waiting"]}
  /\ UNCHANGED <<formVars, screenVars, recents, sequence, inBlock, historyVars, drawn>>

\* The node refuses, with a code: nothing will be in a block.
BroadcastRefused(f) ==
  /\ f \in flights /\ f.step = "signed"
  /\ Report(f, FALSE)
  /\ UNCHANGED <<formVars, chainVars, sent, drawn>>

\* Something is thrown: the node cannot be reached, for the sequence or for the
\* broadcast, its acceptance is lost, or the wait for the block runs out.
Thrown(f) ==
  /\ f \in flights
  /\ \/ UNCHANGED mempool
     \/ f.step = "signed" /\ CheckTx(f) /\ Accepted(f)
  /\ pay(f)
  /\ UNCHANGED <<formVars, sequence, inBlock, sent, drawn>>

\* Fault: a transfer in a block is a success, whatever the block's code.
describeTxResult_Included(executed) == TRUE

describeTxResult(executed) == executed

\* The transfer is in a block.
Included(f) ==
  /\ f \in flights /\ f.step = "waiting"
  /\ \E b \in inBlock : b.n = f.n /\ Report(f, describeTxResult(b.executed))
  /\ UNCHANGED <<formVars, chainVars, sent, drawn>>

\* The device has no room for the list of people paid: book.remember throws after
\* the outcome is set and before the stage is.
NoRoom(f) ==
  /\ f \in flights /\ f.step = "waiting" /\ Settled(f.n)
  /\ flights' = flights \ {f}
  /\ IF f.screen THEN outcome' = [n |-> f.n, ok |-> TRUE] /\ deviceFailed' = TRUE
     ELSE UNCHANGED <<outcome, deviceFailed>>
  /\ UNCHANGED <<formVars, stage, recents, chainVars, historyVars, drawn>>

\* Fault: the next payment keeps the id of the one that was settled.
Renewed_Kept == UNCHANGED <<drawn, e2e>>

\* A new payment is a new end-to-end id.
Renewed == drawn < MaxIds /\ drawn' = drawn + 1 /\ e2e' = drawn'

\* The button under the outcome: the form is cleared after a success only.
Done ==
  /\ stage = "done"
  /\ stage' = "compose" /\ outcome' = NoOutcome
  /\ IF outcome.ok THEN setTo(NoOne) /\ Renewed
     ELSE UNCHANGED <<to, payee, lookups, e2e, drawn>>
  /\ UNCHANGED <<deviceFailed, checking, confirming, recents, flights, chainVars, historyVars>>

\* A screen that is mounted anew has nothing in it.
Fresh ==
  /\ to' = NoOne /\ payee' = Blank /\ lookups' = {}
  /\ checking' = NoCode /\ confirming' = FALSE
  /\ drawn < MaxIds /\ drawn' = drawn + 1 /\ e2e' = drawn'
  /\ stage' = "compose" /\ outcome' = NoOutcome /\ deviceFailed' = FALSE

\* The person goes to another screen and comes back: what was being sent goes
\* on without it.
Leave ==
  /\ Fresh
  /\ flights' = {[f EXCEPT !.screen = FALSE] : f \in flights}
  /\ UNCHANGED <<recents, chainVars, historyVars>>

\* The app is closed and opened: only the address book and the chain remain.
Restart ==
  /\ Fresh
  /\ flights' = {}
  /\ UNCHANGED <<recents, chainVars, historyVars>>
----------------------------------------------------------------------------
(* The chain. *)

Block(tx) ==
  /\ tx \in mempool /\ tx.sequence = sequence
  /\ mempool' = mempool \ {tx}
  /\ sequence' = sequence + 1
  /\ \E executed \in BOOLEAN : inBlock' = inBlock \cup {[n |-> tx.n, executed |-> executed]}
  /\ UNCHANGED <<formVars, screenVars, recents, flights, historyVars, drawn>>

\* The node forgets a transfer.
Evict(tx) ==
  /\ tx \in mempool
  /\ mempool' = mempool \ {tx}
  /\ UNCHANGED <<formVars, screenVars, recents, flights, sequence, inBlock, historyVars, drawn>>

PayNext ==
  \/ \E p \in MaybePayee : Type(p)
  \/ \E l \in lookups : resolve(l)
  \/ \E c \in Codes : readCode(c)
  \/ CodeRead \/ CodeUnreadable
  \/ submit \/ PayAnyway \/ PressedEarly \/ Cancel \/ Done \/ Leave \/ Restart
  \/ \E f \in flights : \/ NoKey(f) \/ Sign(f) \/ Broadcast(f) \/ BroadcastRefused(f)
                        \/ Thrown(f) \/ Included(f) \/ NoRoom(f)
  \/ \E tx \in mempool : Block(tx) \/ Evict(tx)

PaySpec == PayInit /\ [][PayNext]_payVars

\* A call of the signer ends, at the latest when its wait for the block runs
\* out.
SignerEnds == \E f \in flights : Included(f) \/ Thrown(f)

PayFairSpec == PaySpec /\ WF_payVars(SignerEnds)
----------------------------------------------------------------------------
\* A receipt proves a payment: it was executed in a block, no other receipt
\* carries its end-to-end id however often a payment is retried, and nothing is
\* sent under that id once the receipt has been shown (Pay.tsx send, chain.ts
\* pay, signing.ts submit).
ReceiptsProve ==
  \A r \in receipts :
    /\ Settled(r.n)
    /\ \A q \in receipts : q.e2e = r.e2e => q = r
    /\ \A s \in sent : s.e2e = r.e2e => s.n <= r.n

\* Who is in the list of people paid was paid (Pay.tsx send, book.ts remember).
RecentsWerePaid ==
  \A p \in recents : \E s \in sent : s.payee = p /\ Settled(s.n)

\* A payment goes to whom the screen named when the button was pressed, and
\* takes a second press when that is somebody never paid or saved before,
\* in whatever order lookups and codes are answered; only a press in the frame
\* between a code and its effect may pay the payee before it (Pay.tsx submit).
PaidAsNamed ==
  \A s \in sent : (s.payee = s.named \/ s.early) /\ (s.known \/ s.asked)

\* The screen does not wait for ever: whatever becomes of the payment, only an
\* exception of the device's own leaves it there (signing.ts submit, chain.ts
\* pay).
SendingEnds == stage = "sending" ~> stage # "sending" \/ deviceFailed
=============================================================================
