--------------------------- MODULE TreasuryPromise ---------------------------
(* What x/treasury promises those it owes, without a ledger of locked        *)
(* amounts, roles, schedules or cases.                                       *)
(*                                                                           *)
(* A treasury has money that is free.  Some of it may be set aside under a   *)
(* promise, and a promise may be made out of nowhere by somebody who pays it *)
(* in.  What is set aside is paid out under its own promise and never beyond *)
(* what has been earned of it; it is free again only if the promise could be *)
(* taken back, and then only what had not been earned.                       *)
EXTENDS Integers

CONSTANTS Treasuries, Denoms, Promises, Amounts

VARIABLES
  free,     \* free[t][d]: what a treasury may spend
  pledged,  \* pledged[i]: what is set aside under promise i
  paid,     \* paid[i]: what was paid under it
  earned,   \* earned[i]: what has been earned of it, as time goes by
  firm      \* firm[i]: whether it can be taken back

promiseVars == <<free, pledged, paid, earned, firm>>

PromiseInit ==
  /\ \A t \in Treasuries, d \in Denoms : free[t][d] = 0
  /\ \A i \in Promises : pledged[i] = 0 /\ paid[i] = 0

\* Nothing that was earned is ever unearned.
Earning == \A i \in Promises : earned'[i] >= earned[i]

\* Money that comes in is free; the block that brings it brings time as well.
Receive(t) ==
  /\ \A d \in Denoms : free'[t][d] >= free[t][d]
  /\ free' = [free EXCEPT ![t] = free'[t]]
  /\ Earning
  /\ UNCHANGED <<pledged, paid, firm>>

PayOut(t, d, amount) ==
  /\ amount <= free[t][d]
  /\ free' = [free EXCEPT ![t][d] = @ - amount]
  /\ UNCHANGED <<pledged, paid, earned, firm>>

\* A new promise; its terms are what they are.
Make(i, amount) ==
  /\ pledged[i] = 0 /\ paid[i] = 0
  /\ pledged' = [pledged EXCEPT ![i] = amount]
  /\ UNCHANGED paid
  /\ \A j \in Promises \ {i} : earned'[j] = earned[j] /\ firm'[j] = firm[j]

SetAside(i, t, d, amount) ==
  /\ Make(i, amount)
  /\ amount <= free[t][d]
  /\ free' = [free EXCEPT ![t][d] = @ - amount]

PayIn(i, amount) == Make(i, amount) /\ UNCHANGED free

Keep(i, amount) ==
  /\ amount <= pledged[i] /\ paid[i] + amount <= earned[i]
  /\ pledged' = [pledged EXCEPT ![i] = @ - amount]
  /\ paid' = [paid EXCEPT ![i] = @ + amount]
  /\ UNCHANGED <<free, earned, firm>>

\* All that was earned is paid, the rest is free again.
TakeBack(i, t, d) ==
  /\ ~firm[i] /\ pledged[i] > 0
  /\ LET due == earned[i] - paid[i] IN
     /\ due >= 0
     /\ paid' = [paid EXCEPT ![i] = @ + due]
     /\ pledged' = [pledged EXCEPT ![i] = 0]
     /\ free' = [free EXCEPT ![t][d] = @ + (pledged[i] - due)]
  /\ UNCHANGED <<earned, firm>>

TimePasses == Earning /\ UNCHANGED <<free, pledged, paid, firm>>

PromiseNext ==
  \/ \E t \in Treasuries :
       \/ Receive(t)
       \/ \E d \in Denoms, amount \in Amounts :
            PayOut(t, d, amount) \/ \E i \in Promises : SetAside(i, t, d, amount)
       \/ \E d \in Denoms, i \in Promises : TakeBack(i, t, d)
  \/ \E i \in Promises :
       \/ \E amount \in Amounts : PayIn(i, amount)
       \/ \E amount \in 1 .. pledged[i] : Keep(i, amount)
  \/ TimePasses

PromiseSpec == PromiseInit /\ [][PromiseNext]_promiseVars
=============================================================================
