---------------------------- MODULE MCPayments ------------------------------
(* Two payees, one of them a saved contact, and two payments.                *)
EXTENDS Payments

CONSTANTS p1, p2
=============================================================================
