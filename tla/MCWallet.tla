------------------------------ MODULE MCWallet ------------------------------
(* A small instance of Wallet: two deposits and two deductions may overlap. *)
EXTENDS Wallet

CONSTANTS c1, c2, d1, d2

MCCharges == {c1, c2}
MCDeductions == {d1, d2}
MCAmounts == {1, 2, 3}
=============================================================================
