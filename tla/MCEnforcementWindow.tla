------------------------ MODULE MCEnforcementWindow -----------------------
(* x/enforcement with the rolling window in the foreground: one validator    *)
(* that decides alone, targets with balance and stake, and seizures that     *)
(* come due together.                                                        *)
EXTENDS Enforcement

CONSTANTS t1, t2, v, m

Base ==
  [voting |-> 1, provisional |-> 2, threshold |-> 6667,
   delay |-> 1, tiers |-> {[threshold |-> 2, delay |-> 2]},
   window |-> 2, cap |-> 3, maxSeizures |-> 3, ombudsman |-> m]
\* The value refuses a second seizure of two units; the count a second of any.
ByValue == Base
ByCount == [Base EXCEPT !.cap = 9, !.maxSeizures = 1]

\* A larger seizure waits no longer than any other.
Shorter == [Base EXCEPT !.tiers = {[threshold |-> 2, delay |-> 1]}]

MCLater == {Base, Shorter}
MCTwo == {ByValue, ByCount}
MCSettlements == {[voting |-> 1, provisional |-> 2, threshold |-> 6667]}
MCPower == {[x \in Validators |-> 1]}
MCPerimeter == Accounts \X Targets
=============================================================================
