-------------------------- MODULE MCNettingRestart --------------------------
(* x/netting from an empty genesis, with policies that come and go, an      *)
(* institution admitted late, and restarts.                                  *)
EXTENDS Netting

CONSTANTS a, b

Policy(gross, aggregate) == [gross |-> gross, aggregate |-> aggregate, configured |-> TRUE]
ParamsOf(blocks, gross, aggregate, hold) ==
  [cycleBlocks |-> blocks, policy |-> [d \in Denoms |-> Policy(gross, aggregate)],
   maxHold |-> hold]

\* DefaultGenesis with the parameters a deployment turns netting on with.
FreshGenesis(p) ==
  [params |-> p, currentCycle |-> 1, cycleCount |-> 2,
   cycleStatus |-> [k \in Cycles |-> IF k = 1 THEN "open" ELSE "none"],
   outcome |-> [k \in Cycles |-> [d \in Denoms |-> NoOutcome]],
   obligations |-> <<>>,
   position |-> [k \in Cycles |-> [d \in Denoms |-> [p2 \in Participants |-> 0]]],
   reserve |-> [p2 \in Participants |-> [d \in Denoms |-> 0]]]

\* A window of two blocks; amounts below 3 net, up to 4 in all per debtor.
On == ParamsOf(2, 3, 4, 0)
Off == [On EXCEPT !.policy = [d \in Denoms |-> NoPolicy]]

MCAmounts == {1, 2}
MCDenoms == {1}
MCGenesis == {FreshGenesis(On)}

\* Governance may switch a currency's netting off and on.
PolicyChanges == {On, Off}
=============================================================================
