--------------------------- MODULE MCNettingStuck ---------------------------
(* x/netting in a state it did not build itself: a window whose first       *)
(* currency does not balance, and in whose second one debtor has cover and  *)
(* the other is short, as settlement_test.go sets them up by writing to the *)
(* store.  What the short debtor lacks may come in from a later window.     *)
EXTENDS Netting

CONSTANTS a, b, c

StuckParams ==
  [cycleBlocks |-> 1, maxHold |-> 1,
   policy |-> [d \in Denoms |-> [gross |-> 2, aggregate |-> 0, configured |-> TRUE]]]

Row(x, y, z) == [p \in Participants |-> IF p = a THEN x ELSE IF p = b THEN y ELSE z]

Stuck ==
  [params |-> StuckParams, currentCycle |-> 1, cycleCount |-> 2,
   cycleStatus |-> [k \in Cycles |-> IF k = 1 THEN "open" ELSE "none"],
   outcome |-> [k \in Cycles |-> [d \in Denoms |->
     IF k = 1 THEN [status |-> "open", gross |-> 1, net |-> 0, reason |-> ""] ELSE NoOutcome]],
   obligations |-> [i \in 1 .. 3 |->
     [cycle |-> 1, from |-> IF i = 3 THEN c ELSE a, to |-> b, denom |-> IF i = 1 THEN 1 ELSE 2,
      amount |-> 1, mode |-> "net"]],
   position |-> [k \in Cycles |-> [d \in Denoms |->
     IF k # 1 THEN Row(0, 0, 0) ELSE IF d = 1 THEN Row(-1, 2, 0) ELSE Row(-1, 2, -1)]],
   reserve |-> [p \in Participants |-> [d \in Denoms |-> IF p = a \/ (p = b /\ d = 2) THEN 1 ELSE 0]]]

StuckInit == InitFrom(Stuck)
StuckSpec == StuckInit /\ [][Next]_vars /\ WF_vars(EndBlocker)

MCDenoms == {1, 2}
MCAmounts == {1}
MCParams == {}
MCGenesis == {}
=============================================================================
