----------------------------- MODULE MCCustody ------------------------------
(* x/custody with three attestors, any two of whom are enough at first, who  *)
(* may name different amounts and different holdings.                        *)
EXTENDS Custody, TLC

CONSTANTS x1, x2, y1, a1, a2, a3

\* Reports count in the block after them too; redemptions wait for one block.
Launch == [threshold |-> 2, delay |-> 1, feeBps |-> 1000, maxAge |-> 1]
Strict == [Launch EXCEPT !.threshold = 3]
\* A single attestor is no threshold, and Validate says so.
Single == [Launch EXCEPT !.threshold = 1]

MCChanges == {Strict, Single}
MCNoChanges == {}
Symmetry == Permutations(AttestorIds) \cup Permutations(Refs)
=============================================================================
