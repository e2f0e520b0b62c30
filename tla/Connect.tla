------------------------------ MODULE Connect -------------------------------
(* The wallet connection: an application page asks for a signature, a popup  *)
(* on the wallet's origin shows the request to a person and answers.         *)
(*                                                                           *)
(* The popup has a name, so a request made while it is open navigates it and *)
(* one made after it closed opens another: a request holds the window it     *)
(* got, by number.  Each request has its own listener on the application's   *)
(* side, and every listener answers any "ready" by posting its request to    *)
(* its own window.  The wallet's page keeps one pending request; approving   *)
(* is asynchronous and works on the request that was on the screen when the  *)
(* button was pressed.                                                       *)
(*                                                                           *)
(* A request stands for its id, its document and its signature alike.  The   *)
(* messages of one direction arrive in the order they were posted.           *)
EXTENDS Naturals, Sequences

CONSTANTS
  Ids,         \* the requests an application page makes
  NoId,        \* no request
  Readable,    \* the requests whose bytes decode, or that ask for no signature
  MaxWindows   \* how many windows are opened at most

ASSUME ConnectAssumption ==
  Readable \subseteq Ids /\ NoId \notin Ids /\ MaxWindows \in Nat

VARIABLES
  promise,     \* the application's promise for each request
  handle,      \* the window each request was given
  listeners,   \* the requests with a listener attached, oldest first
  opened,      \* how many windows have been opened; the last may be open
  window,      \* that one: "closed", "loading" or "loaded"
  screen,      \* what the wallet's page shows: "request", "outcome"
  pending,     \* ConnectPage's pending request
  busy,        \* the request an approve() in progress was called for
  toApp,       \* messages from the popup to the application
  toWallet,    \* messages from the application to the popup
  approved,    \* requests a person approved, having them on the screen
  speaks       \* whether both sides speak the same PROTOCOL_VERSION

appVars == <<promise, handle, listeners>>
pageVars == <<screen, pending, busy>>
vars == <<appVars, opened, window, pageVars, toApp, toWallet, approved, speaks>>

States == {"idle", "waiting", "rejected", "resolved"}
MaybeId == Ids \cup {NoId}

Ready == [kind |-> "ready", id |-> NoId, doc |-> NoId]
Signature(i, doc) == [kind |-> "result", id |-> i, doc |-> doc]
Refusal(i) == [kind |-> "error", id |-> i, doc |-> NoId]

Idle == [state |-> "idle", doc |-> NoId]
Waiting == [state |-> "waiting", doc |-> NoId]
Rejected == [state |-> "rejected", doc |-> NoId]
Resolved(doc) == [state |-> "resolved", doc |-> doc]

Waits(i) == promise[i].state = "waiting"

\* popup.closed, for the window a request holds.
Closed(i) == handle[i] # opened \/ window = "closed"

Init ==
  /\ promise = [i \in Ids |-> Idle] /\ handle = [i \in Ids |-> 0] /\ listeners = <<>>
  /\ opened = 0 /\ window = "closed"
  /\ screen = "request" /\ pending = NoId /\ busy = NoId
  /\ toApp = <<>> /\ toWallet = <<>> /\ approved = {}
  /\ speaks \in BOOLEAN
\* The members of a sequence that belong to S, in their order: SelectSeq for a
\* set, as a function that proofs can unfold.
Only(s, S) ==
  LET kept[n \in 0 .. Len(s)] ==
        IF n = 0 THEN <<>>
        ELSE IF s[n] \in S THEN Append(kept[n - 1], s[n]) ELSE kept[n - 1]
  IN  kept[Len(s)]
----------------------------------------------------------------------------
(* The application's side. *)

\* What the page was doing, and what was posted to it, is gone.
Forget == screen' = "request" /\ pending' = NoId /\ busy' = NoId /\ toWallet' = <<>>

\* request() with popups blocked: refused at once.
Blocked(i) ==
  /\ promise[i] = Idle
  /\ promise' = [promise EXCEPT ![i] = Rejected]
  /\ UNCHANGED <<handle, listeners, opened, window, pageVars, toApp, toWallet, approved, speaks>>

\* request(): window.open opens the popup, or takes it away from whatever it
\* was doing.
request(i) ==
  /\ promise[i] = Idle
  /\ window = "closed" => opened < MaxWindows
  /\ opened' = IF window = "closed" THEN opened + 1 ELSE opened
  /\ promise' = [promise EXCEPT ![i] = Waiting]
  /\ handle' = [handle EXCEPT ![i] = opened']
  /\ listeners' = Append(listeners, i)
  /\ window' = "loading"
  /\ Forget
  /\ UNCHANGED <<toApp, approved, speaks>>

\* Fault: a request that is done with leaves its window as it is.
Close_Never(i) == UNCHANGED <<window, pageVars, toWallet>>

\* popup.close(), by the request that holds it.
Close(i) ==
  IF Closed(i) THEN UNCHANGED <<window, pageVars, toWallet>>
  ELSE window' = "closed" /\ Forget

\* finish(): settles the promise and stops listening.
finish(i, outcome) ==
  /\ promise' = [promise EXCEPT ![i] = outcome]
  /\ listeners' = Only(listeners, Ids \ {i})
  /\ UNCHANGED handle

\* The reply carries the id of a request that still listens.
Answers(m, i) == m.id = i /\ \E k \in DOMAIN listeners : listeners[k] = i

\* onMessage, for a "ready": every listener posts its request to its window; a
\* page that is still loading, or gone, does not hear it.
onReady ==
  /\ toApp # <<>> /\ Head(toApp) = Ready
  /\ toApp' = Tail(toApp)
  /\ toWallet' = IF window = "loaded"
                 THEN toWallet \o Only(listeners, {j \in Ids : ~Closed(j)})
                 ELSE toWallet
  /\ UNCHANGED <<appVars, opened, window, pageVars, approved, speaks>>

\* onMessage, for a reply: an answer in another version settles the promise
\* and leaves the window open.
onReply(i) ==
  LET m == Head(toApp) IN
  /\ toApp # <<>> /\ m # Ready /\ Answers(m, i)
  /\ toApp' = Tail(toApp)
  /\ finish(i, IF m.kind = "error" THEN Rejected ELSE Resolved(m.doc))
  /\ IF speaks THEN Close(i) ELSE UNCHANGED <<window, pageVars, toWallet>>
  /\ UNCHANGED <<opened, approved, speaks>>

\* onMessage, for a reply nobody waits for any more.
onStrayReply ==
  /\ toApp # <<>> /\ Head(toApp) # Ready /\ \A i \in Ids : ~Answers(Head(toApp), i)
  /\ toApp' = Tail(toApp)
  /\ UNCHANGED <<appVars, opened, window, pageVars, toWallet, approved, speaks>>

\* The interval that looks for a closed window.
closedCheck(i) ==
  /\ Waits(i) /\ Closed(i)
  /\ finish(i, Rejected)
  /\ UNCHANGED <<opened, window, pageVars, toApp, toWallet, approved, speaks>>

\* Fault: the timer is cleared once the wallet's page has said it is there.
timer_UntilReady(i) ==
  /\ Waits(i) /\ window # "loaded"
  /\ finish(i, Rejected)
  /\ Close(i)
  /\ UNCHANGED <<opened, toApp, approved, speaks>>

\* The timer of three minutes.
timer(i) ==
  /\ Waits(i)
  /\ finish(i, Rejected)
  /\ Close(i)
  /\ UNCHANGED <<opened, toApp, approved, speaks>>
----------------------------------------------------------------------------
(* The wallet's page. *)

\* serveWalletRequests: the page listens, and says so to its opener.
serveWalletRequests ==
  /\ window = "loading"
  /\ window' = "loaded"
  /\ toApp' = Append(toApp, Ready)
  /\ UNCHANGED <<appVars, opened, pageVars, toWallet, approved, speaks>>

\* A request in a version the wallet does not speak is refused unseen.
onUnsupported ==
  /\ window = "loaded" /\ toWallet # <<>> /\ ~speaks
  /\ toApp' = Append(toApp, Refusal(Head(toWallet)))
  /\ toWallet' = Tail(toWallet)
  /\ UNCHANGED <<appVars, opened, window, pageVars, approved, speaks>>

\* onRequest: the newest request replaces the pending one.
onRequest ==
  /\ window = "loaded" /\ toWallet # <<>> /\ speaks
  /\ pending' = Head(toWallet)
  /\ toWallet' = Tail(toWallet)
  /\ UNCHANGED <<appVars, opened, window, screen, busy, toApp, approved, speaks>>

\* A request is shown, and its buttons are live.
OnScreen(i) ==
  /\ window = "loaded" /\ screen = "request"
  /\ pending = i /\ busy = NoId

\* approve(), up to its first await.
approve(i) ==
  /\ OnScreen(i) /\ i \in Readable
  /\ busy' = i
  /\ approved' = approved \cup {i}
  /\ UNCHANGED <<appVars, opened, window, screen, pending, toApp, toWallet, speaks>>

\* Fault: approve() reads the pending request again when the signature is made.
Approving_Latest == IF pending = NoId THEN busy ELSE pending

\* approve() closed over the request it was pressed for.
Approving == busy

\* approve(), the password is wrong or the signer fails: the request stays.
ApproveFails ==
  /\ window = "loaded" /\ busy # NoId
  /\ busy' = NoId
  /\ UNCHANGED <<appVars, opened, window, screen, pending, toApp, toWallet, approved, speaks>>

\* approve() to its end: the answer goes out, and the page forgets its pending
\* request, which may be a newer one by now.
ApproveEnds ==
  /\ window = "loaded" /\ busy # NoId
  /\ toApp' = Append(toApp, Signature(Approving, Approving))
  /\ busy' = NoId /\ pending' = NoId /\ screen' = "outcome"
  /\ UNCHANGED <<appVars, opened, window, toWallet, approved, speaks>>

\* reject() answers and closes the window itself.
reject(i) ==
  /\ OnScreen(i)
  /\ toApp' = Append(toApp, Refusal(i))
  /\ window' = "closed" /\ Forget
  /\ UNCHANGED <<appVars, opened, approved, speaks>>

\* Done, on the outcome of a signature or of a connection.
onDone ==
  /\ window = "loaded" /\ screen = "outcome"
  /\ screen' = "request"
  /\ UNCHANGED <<appVars, opened, window, pending, busy, toApp, toWallet, approved, speaks>>

\* The person closes the popup.
PersonCloses ==
  /\ window # "closed"
  /\ window' = "closed" /\ Forget
  /\ UNCHANGED <<appVars, opened, toApp, approved, speaks>>
----------------------------------------------------------------------------
Next ==
  \/ \E i \in Ids : \/ Blocked(i) \/ request(i) \/ onReply(i) \/ closedCheck(i) \/ timer(i)
                    \/ approve(i) \/ reject(i)
  \/ onReady \/ onStrayReply \/ serveWalletRequests \/ onUnsupported \/ onRequest
  \/ ApproveFails \/ ApproveEnds \/ onDone \/ PersonCloses

Spec == Init /\ [][Next]_vars

\* The browser runs the timers of a page that is open.  Nothing is asked of
\* the person, of the wallet's page or of the delivery of messages.
FairSpec == Spec /\ \A i \in Ids : WF_vars(timer(i))
----------------------------------------------------------------------------
\* A request resolves with the signature of its own document, and only of one
\* a person approved with that request on the screen, whatever other requests
\* shared the popup meanwhile (client.ts onMessage, Connect.tsx approve).
SignedAsShown ==
  \A i \in Ids :
    promise[i].state = "resolved" => promise[i].doc = i /\ i \in approved

\* The wallet never sits idle, saying that it waits for a request, while a
\* request that holds this window waits for its answer with nothing on its way
\* between them (client.ts finish and popup.close, Connect.tsx setPending).
NobodyWaitsUnseen ==
  (/\ window = "loaded" /\ toApp = <<>> /\ toWallet = <<>>
   /\ pending = NoId /\ busy = NoId) => \A i \in Ids : Waits(i) => Closed(i)

\* Every request settles, with nobody at the wallet and however often the
\* popup is taken over or closed (client.ts timer).
EveryRequestSettles == \A i \in Ids : Waits(i) ~> ~Waits(i)
=============================================================================
