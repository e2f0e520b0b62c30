----------------------------- MODULE MCTreasury -----------------------------
(* x/treasury with one treasury, which network fees may go to, and escrows   *)
(* that share its module account and the numbers of its locks.               *)
EXTENDS Treasury

CONSTANTS a, b, m, x

\* Two live locks at most, and fees to nobody, until governance says otherwise.
Launch == [maxLocks |-> 2, maxRoles |-> 1, minSeconds |-> 2, maxAddresses |-> 1,
           routeFees |-> FALSE, feeTreasury |-> 1]
Routed == [Launch EXCEPT !.routeFees = TRUE, !.maxLocks = 1]
\* No lock at all is refused.
Closed == [Launch EXCEPT !.maxLocks = 0]

\* A third after one second and nothing before two, a half of it after them.
Vesting == [kind |-> "vesting", start |-> 1, cliff |-> 2, end |-> 4, intervals |-> 0,
            revocable |-> TRUE]
Tranches == [Vesting EXCEPT !.cliff = 1, !.intervals = 2, !.revocable = FALSE]
Brief == [Vesting EXCEPT !.end = 2]

\* One unit in two seconds, to one payee; one at a time, but as often as one likes.
Tight == [perTx |-> None, limit |-> 1, period |-> 2, allow |-> {b}, deny |-> {}]
Loose == [perTx |-> 1, limit |-> None, period |-> 0, allow |-> {}, deny |-> {m}]

MCSupply == [d \in Denoms |-> 3]
MCSchedules == {Vesting, Tranches, Brief}
MCPolicies == {Tight, Loose}
MCParams == {Routed, Closed}
MCGrants == {<<b, "spender">>}
\* The second beneficiary is one the bank pays nothing to.
MCDeals == {<<b, a, m>>, <<b, x, m>>}
=============================================================================
