------------------------------ MODULE Account ------------------------------
(***************************************************************************)
(* What a prepaid wallet promises its company, with no handlers, no        *)
(* database and no payment provider: money comes in, money goes out, one   *)
(* movement at a time, and nothing is ever spent that is not there.        *)
(* Wallet.tla implements this module when requests do not overlap.         *)
(***************************************************************************)
EXTENDS Integers

CONSTANT Amounts          \* the sizes of one movement, in cents

VARIABLES balance,        \* what the company can spend
          deposited,      \* everything ever paid in
          spent           \* everything ever paid out

vars == <<balance, deposited, spent>>

Init ==
    /\ balance = 0
    /\ deposited = 0
    /\ spent = 0

Deposit(n) ==
    /\ balance' = balance + n
    /\ deposited' = deposited + n
    /\ UNCHANGED spent

Withdraw(n) ==
    /\ n <= balance
    /\ balance' = balance - n
    /\ spent' = spent + n
    /\ UNCHANGED deposited

Next == \E n \in Amounts : Deposit(n) \/ Withdraw(n)

Spec == Init /\ [][Next]_vars

----------------------------------------------------------------------------
\* The books balance: what is left is what came in less what went out, and
\* it is never negative.  (wallet.entity.ts: balance, totalDeposited.)
Balanced ==
    /\ balance = deposited - spent
    /\ balance >= 0
=============================================================================
