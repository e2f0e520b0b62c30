------------------------ MODULE MCEnforcementCases ------------------------
(* x/enforcement with one case in the foreground: validators of unequal and  *)
(* moving power, a grant that moves and an ombudsman.                        *)
EXTENDS Enforcement

CONSTANTS t1, t2, v1, v2, m

\* A freeze lasts exactly as long as the vote it comes with.
Appointed ==
  [voting |-> 1, provisional |-> 1, threshold |-> 6667,
   delay |-> 1, tiers |-> {[threshold |-> 2, delay |-> 2]},
   window |-> 2, cap |-> 2, maxSeizures |-> 2, ombudsman |-> m]
\* After an amendment that lowers the bar, with the office vacant.
Lowered == [Appointed EXCEPT !.threshold = 5001, !.ombudsman = Nobody]
\* A freeze shorter than the vote, which Validate refuses.
TooShort == [Appointed EXCEPT !.voting = 2]

\* Of a power of three, 6667 asks for three and 5001 for two.
Apart == [v \in Validators |-> IF v = v1 THEN 2 ELSE 1]
\* v1 has left the bonded set and its stake is with v2.
Moved == [v \in Validators |-> IF v = v1 THEN 0 ELSE 3]

SettlementOf(p) ==
  [voting |-> p.voting, provisional |-> p.provisional, threshold |-> p.threshold]

MCOne == {Appointed}
MCAll == {Appointed, Lowered, TooShort}
MCSettlements == {SettlementOf(p) : p \in MCAll}
MCPower == {Apart, Moved}
MCPerimeter == Accounts \X Targets
=============================================================================
