------------------------------- MODULE MCLand -------------------------------
(* x/land with three offices, one of which keeps the only file, and two      *)
(* people; two attestations are needed, or one.                              *)
EXTENDS Land

CONSTANTS o1, o2, o3, h1, h2, g1, r1

Launch == [quorum |-> 2, window |-> 1, sameAuthority |-> FALSE]
Lenient == [Launch EXCEPT !.quorum = 1]
\* No quorum at all is refused.
Waived == [Launch EXCEPT !.quorum = 0]
MCChanges == {Launch, Lenient, Waived}
=============================================================================
