-------------------------- MODULE SettlementPromise --------------------------
(***************************************************************************)
(* What x/netting promises the institutions that use it, with no reserve,  *)
(* no collateral, no cycle clock and no retry queue in sight.              *)
(*                                                                         *)
(* An institution has wealth.  It pays at once, or it comes to owe in a    *)
(* slice (a cycle and a currency); what a slice leaves due is discharged   *)
(* in full and once, every leg of it in one step, or it is given up in     *)
(* full.  Nothing else ever moves wealth.                                  *)
(***************************************************************************)
EXTENDS Integers, FiniteSets, Functions

CONSTANTS Participants, Denoms, Cycles, Amounts

VARIABLES
  wealth,   \* wealth[p][d]: what p holds, wherever the system keeps it
  due       \* due[c][d][p]: what slice <<c, d>> will add to p's wealth

promiseVars == <<wealth, due>>

PromiseInit ==
  /\ \A p \in Participants, d \in Denoms : wealth[p][d] >= 0
  /\ DOMAIN due = Cycles

PayNow(from, to, d, amount) ==
  /\ amount <= wealth[from][d]
  /\ wealth' = [wealth EXCEPT ![from][d] = @ - amount, ![to][d] = @ + amount]
  /\ UNCHANGED due

Owe(from, to, c, d, amount) ==
  /\ due' = [due EXCEPT ![c][d] = [due[c][d] EXCEPT ![from] = @ - amount, ![to] = @ + amount]]
  /\ UNCHANGED wealth

GiveUp(c, d) ==
  /\ due' = [due EXCEPT ![c][d] = [p \in Participants |-> 0]]
  /\ UNCHANGED wealth

\* Every leg at once, only if the legs balance and nobody is overdrawn.
Discharge(c, d) ==
  /\ SumFunctionOnSet(due[c][d], Participants) = 0
  /\ \A p \in Participants : wealth[p][d] + due[c][d][p] >= 0
  /\ wealth' = [p \in Participants |-> [wealth[p] EXCEPT ![d] = @ + due[c][d][p]]]
  /\ due' = [due EXCEPT ![c][d] = [p \in Participants |-> 0]]

PromiseNext ==
  \/ \E from, to \in Participants, d \in Denoms, amount \in Amounts :
       /\ from # to
       /\ PayNow(from, to, d, amount) \/ \E c \in Cycles : Owe(from, to, c, d, amount)
  \/ \E c \in Cycles, d \in Denoms : Discharge(c, d) \/ GiveUp(c, d)

PromiseSpec == PromiseInit /\ [][PromiseNext]_promiseVars
=============================================================================
