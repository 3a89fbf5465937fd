------------------------------- MODULE Wallet -------------------------------
(***************************************************************************)
(* The prepaid wallet of one company: PaymentService.chargeSavedCard and   *)
(* deductFromWallet, run by any number of overlapping HTTP requests over   *)
(* one Postgres row, with Square as the external payment provider.         *)
(*                                                                         *)
(* Every request works on its own copy of the Wallet entity (the identity  *)
(* map of its EntityManager) and a flush writes the ABSOLUTE values of the *)
(* copy: no row lock, no version column, READ COMMITTED.  A handler is cut *)
(* into steps at its awaits; a database transaction is one step.           *)
(*                                                                         *)
(* Amounts are cents.  The conversion of USD to CAD, the wording of errors *)
(* and the identity of the saved card do not change what is stored here    *)
(* and are left out.                                                       *)
(***************************************************************************)
EXTENDS Integers

CONSTANTS
    Charges,       \* requests that run chargeSavedCard
    Deductions,    \* requests that run deductFromWallet
    Amounts,       \* the amounts they may carry
    MinDeposit,    \* smallest deposit accepted (50 cents)
    MaxDeposit,    \* largest deposit accepted (MAX_AMOUNT)
    Serialized     \* TRUE: a request starts only when no other is running

ASSUME WalletAssumption ==
    /\ Charges \cap Deductions = {}
    /\ Amounts \subseteq Nat \ {0}
    /\ MinDeposit \in Nat
    /\ MaxDeposit \in Nat
    /\ Serialized \in BOOLEAN

VARIABLES
    wallet,        \* the wallet row
    tx,            \* tx[r]: the wallet_transaction row request r inserted
    pc,            \* pc[r]: where the handler of request r stands
    amount,        \* amount[r]: what request r asked for
    seen,          \* seen[r]: the Wallet entity in r's identity map
    payment,       \* payment[c]: what Square knows of charge c
    credited,      \* history: sum of the deposits ever completed
    spent          \* history: sum of the deductions ever completed

vars == <<wallet, tx, pc, amount, seen, payment, credited, spent>>

Requests == Charges \cup Deductions

WalletRow == [exists : BOOLEAN, balance : Int, totalDeposited : Int]

NoWallet == [exists |-> FALSE, balance |-> 0, totalDeposited |-> 0]

NewWallet == [exists |-> TRUE, balance |-> 0, totalDeposited |-> 0]

TxStatus == {"PENDING", "COMPLETED", "FAILED"}

\* balanceBefore, balanceAfter; squareId: squarePaymentId has been stored
TxRow == [status : TxStatus \cup {"none"}, before : Int, after : Int, squareId : BOOLEAN]

NoTx == [status |-> "none", before |-> 0, after |-> 0, squareId |-> FALSE]

PaymentStatus == {"none", "REQUESTED", "CAPTURED", "PENDING", "DECLINED"}

\* "interrupted": the process died or the database refused the next statement
Pc == {"idle", "find", "open", "create", "write", "square", "await", "done", "interrupted"}

InFlight(r) == pc[r] \notin {"idle", "done", "interrupted"}

MayStart == Serialized => \A r \in Requests : ~InFlight(r)

Acceptable(a) == MinDeposit <= a /\ a <= MaxDeposit

TypeOK ==
    /\ wallet \in WalletRow
    /\ tx \in [Requests -> TxRow]
    /\ pc \in [Requests -> Pc]
    /\ amount \in [Requests -> Nat]
    /\ seen \in [Requests -> WalletRow]
    /\ payment \in [Charges -> PaymentStatus]
    /\ credited \in Nat
    /\ spent \in Nat

\* The wallet row exists from a social sign-up on; for other companies the
\* first request that needs it creates it.
Init ==
    /\ wallet \in {NoWallet, NewWallet}
    /\ tx = [r \in Requests |-> NoTx]
    /\ pc = [r \in Requests |-> "idle"]
    /\ amount = [r \in Requests |-> 0]
    /\ seen = [r \in Requests |-> NoWallet]
    /\ payment = [c \in Charges |-> "none"]
    /\ credited = 0
    /\ spent = 0

----------------------------------------------------------------------------
(* chargeSavedCard, up to the call to Square                               *)

BeginCharge(c, a) ==
    /\ pc[c] = "idle"
    /\ MayStart
    /\ Acceptable(a)
    /\ amount' = [amount EXCEPT ![c] = a]
    /\ pc' = [pc EXCEPT ![c] = "find"]
    /\ UNCHANGED <<wallet, tx, seen, payment, credited, spent>>

\* A pre-flight validation throws: currency, amount, customer or card.
RefuseCharge(c) ==
    /\ pc[c] = "idle"
    /\ MayStart
    /\ pc' = [pc EXCEPT ![c] = "done"]
    /\ UNCHANGED <<wallet, tx, amount, seen, payment, credited, spent>>

\* getOrCreateWallet's SELECT, inside the transaction of step 3.
FindWallet(c) ==
    /\ pc[c] = "find"
    /\ seen' = [seen EXCEPT ![c] = wallet]
    /\ pc' = [pc EXCEPT ![c] = "open"]
    /\ UNCHANGED <<wallet, tx, amount, payment, credited, spent>>

\* The commit of step 3: the PENDING row, and the wallet if there was none.
OpenDeposit(c) ==
    /\ pc[c] = "open"
    /\ seen[c].exists \/ ~wallet.exists
    /\ wallet' = IF seen[c].exists THEN wallet ELSE NewWallet
    /\ seen' = [seen EXCEPT ![c].exists = TRUE]
    /\ tx' = [tx EXCEPT ![c] = [status |-> "PENDING", before |-> seen[c].balance,
                                after |-> 0, squareId |-> FALSE]]
    /\ pc' = [pc EXCEPT ![c] = "square"]
    /\ UNCHANGED <<amount, payment, credited, spent>>

\* The INSERT of a wallet another request has created since the SELECT
\* violates the unique company column: the request ends with an error.
WalletAlreadyCreated(r) ==
    /\ pc[r] \in {"open", "create"}
    /\ ~seen[r].exists
    /\ wallet.exists
    /\ pc' = [pc EXCEPT ![r] = "done"]
    /\ UNCHANGED <<wallet, tx, amount, seen, payment, credited, spent>>

CallSquare(c) ==
    /\ pc[c] = "square"
    /\ payment' = [payment EXCEPT ![c] = "REQUESTED"]
    /\ pc' = [pc EXCEPT ![c] = "await"]
    /\ UNCHANGED <<wallet, tx, amount, seen, credited, spent>>

----------------------------------------------------------------------------
(* Square.  It decides a request whether or not the handler still listens, *)
(* and settles a payment it answered PENDING later on.                     *)

SquareDecides(c) ==
    /\ payment[c] = "REQUESTED"
    /\ \E answer \in {"CAPTURED", "PENDING", "DECLINED"} :
          payment' = [payment EXCEPT ![c] = answer]
    /\ UNCHANGED <<wallet, tx, pc, amount, seen, credited, spent>>

SquareSettles(c) ==
    /\ payment[c] = "PENDING"
    /\ \E answer \in {"CAPTURED", "DECLINED"} :
          payment' = [payment EXCEPT ![c] = answer]
    /\ UNCHANGED <<wallet, tx, pc, amount, seen, credited, spent>>

----------------------------------------------------------------------------
(* chargeSavedCard, after the call                                         *)

\* A bug that stores Square's own status.
MarkFailedWordMutant(row) == [row EXCEPT !.status = "DECLINED"]

\* A bug that forgets to mark the row.
MarkFailedMutant(row) == row

MarkFailed(row) == [row EXCEPT !.status = "FAILED"]

\* payments.create throws: a decline, a timeout, a lost connection.  What
\* Square did, or will still do, with the request is not looked at.
RecordError(c) ==
    /\ pc[c] = "await"
    /\ tx' = [tx EXCEPT ![c] = MarkFailed(@)]
    /\ pc' = [pc EXCEPT ![c] = "done"]
    /\ UNCHANGED <<wallet, amount, seen, payment, credited, spent>>

\* A bug that leaves totalDeposited behind.
CreditMutant(c) == [seen[c] EXCEPT !.balance = @ + amount[c]]

\* The row and the wallet come from the identity map: the balance the
\* amount is added to was read before Square was called.
Credit(c) ==
    [exists |-> TRUE,
     balance |-> seen[c].balance + amount[c],
     totalDeposited |-> seen[c].totalDeposited + amount[c]]

\* A bug that takes Square's PENDING for success.
SucceededMutant == {"CAPTURED", "PENDING"}

\* Square's COMPLETED and APPROVED: the money is taken.
Succeeded == {"CAPTURED"}

\* One transaction writes both rows.
Finalize(c) ==
    /\ pc[c] = "await"
    /\ payment[c] \in Succeeded
    /\ seen' = [seen EXCEPT ![c] = Credit(c)]
    /\ wallet' = Credit(c)
    /\ tx' = [tx EXCEPT ![c] = [status |-> "COMPLETED", before |-> tx[c].before,
                                after |-> Credit(c).balance, squareId |-> TRUE]]
    /\ credited' = credited + amount[c]
    /\ pc' = [pc EXCEPT ![c] = "done"]
    /\ UNCHANGED <<amount, payment, spent>>

\* PENDING: only the payment's id is stored.  handlePaymentSuccess, which
\* would complete such a row, is called from nowhere.
KeepPending(c) ==
    /\ pc[c] = "await"
    /\ payment[c] = "PENDING"
    /\ tx' = [tx EXCEPT ![c].squareId = TRUE]
    /\ pc' = [pc EXCEPT ![c] = "done"]
    /\ UNCHANGED <<wallet, amount, seen, payment, credited, spent>>

\* Any other status.
RecordDecline(c) ==
    /\ pc[c] = "await"
    /\ payment[c] = "DECLINED"
    /\ tx' = [tx EXCEPT ![c] = [MarkFailed(@) EXCEPT !.squareId = TRUE]]
    /\ pc' = [pc EXCEPT ![c] = "done"]
    /\ UNCHANGED <<wallet, amount, seen, payment, credited, spent>>

----------------------------------------------------------------------------
(* deductFromWallet                                                        *)

BeginDeduction(d, a) ==
    /\ pc[d] = "idle"
    /\ MayStart
    /\ amount' = [amount EXCEPT ![d] = a]
    /\ pc' = [pc EXCEPT ![d] = "find"]
    /\ UNCHANGED <<wallet, tx, seen, payment, credited, spent>>

\* The check on the balance just read; no await separates the two.
Checked(d, balance) == IF balance < amount[d] THEN "done" ELSE "write"

ReadWallet(d) ==
    /\ pc[d] = "find"
    /\ seen' = [seen EXCEPT ![d] = wallet]
    /\ pc' = [pc EXCEPT ![d] = IF wallet.exists THEN Checked(d, wallet.balance) ELSE "create"]
    /\ UNCHANGED <<wallet, tx, amount, payment, credited, spent>>

\* getOrCreateWallet found none: the INSERT is a transaction of its own.
CreateWallet(d) ==
    /\ pc[d] = "create"
    /\ ~wallet.exists
    /\ wallet' = NewWallet
    /\ seen' = [seen EXCEPT ![d] = NewWallet]
    /\ pc' = [pc EXCEPT ![d] = Checked(d, 0)]
    /\ UNCHANGED <<tx, amount, payment, credited, spent>>

\* A bug that writes the change with the wrong sign.
DebitSignMutant(d) == seen[d].balance + amount[d]

\* A bug that subtracts from the stored balance without checking it again.
DebitRelativeMutant(d) == wallet.balance - amount[d]

\* balanceAfter, which becomes the new absolute balance.
Debit(d) == seen[d].balance - amount[d]

\* One flush: the transaction row and the new absolute balance.
CommitDeduction(d) ==
    /\ pc[d] = "write"
    /\ wallet' = [wallet EXCEPT !.balance = Debit(d)]
    /\ seen' = [seen EXCEPT ![d].balance = Debit(d)]
    /\ tx' = [tx EXCEPT ![d] = [status |-> "COMPLETED", before |-> seen[d].balance,
                                after |-> Debit(d), squareId |-> FALSE]]
    /\ spent' = spent + amount[d]
    /\ pc' = [pc EXCEPT ![d] = "done"]
    /\ UNCHANGED <<amount, payment, credited>>

----------------------------------------------------------------------------
\* getWallet, getWalletBalance and createCustomer create a missing wallet.
ViewWallet ==
    /\ ~wallet.exists
    /\ wallet' = NewWallet
    /\ UNCHANGED <<tx, pc, amount, seen, payment, credited, spent>>

\* The process dies, or a statement fails, between two steps of a request.
\* A crash of the process is several of these in a row.
Interrupt(r) ==
    /\ InFlight(r)
    /\ pc' = [pc EXCEPT ![r] = "interrupted"]
    /\ UNCHANGED <<wallet, tx, amount, seen, payment, credited, spent>>

ChargeStep(c) ==
    \/ FindWallet(c) \/ OpenDeposit(c) \/ WalletAlreadyCreated(c) \/ CallSquare(c)
    \/ RecordError(c) \/ Finalize(c) \/ KeepPending(c) \/ RecordDecline(c)

DeductionStep(d) ==
    \/ ReadWallet(d) \/ CreateWallet(d) \/ WalletAlreadyCreated(d) \/ CommitDeduction(d)

Next ==
    \/ \E c \in Charges :
          \/ \E a \in Amounts : BeginCharge(c, a)
          \/ RefuseCharge(c)
          \/ ChargeStep(c)
          \/ SquareDecides(c)
          \/ SquareSettles(c)
    \/ \E d \in Deductions :
          \/ \E a \in Amounts : BeginDeduction(d, a)
          \/ DeductionStep(d)
    \/ \E r \in Requests : Interrupt(r)
    \/ ViewWallet

Spec == Init /\ [][Next]_vars

\* Node's event loop runs every continuation, and the Square client bounds
\* each call with a timeout: a handler that is not interrupted goes on.
\* Nothing makes a request start, or Square answer.
Fairness ==
    /\ \A c \in Charges : WF_vars(ChargeStep(c))
    /\ \A d \in Deductions : WF_vars(DeductionStep(d))

FairSpec == Spec /\ Fairness

----------------------------------------------------------------------------
(* Properties                                                              *)

\* However requests overlap, and although updates can be lost, the stored
\* balance never goes below zero: a deduction writes the balance it checked
\* less the amount it checked (deductFromWallet).
BalanceNeverNegative == wallet.balance >= 0

\* Lost updates only ever lose money the company paid in: neither the
\* balance nor totalDeposited can exceed the deposits completed so far.
NoMoneyMinted ==
    /\ wallet.balance <= credited
    /\ wallet.totalDeposited <= credited

\* A row that carries Square's payment id tells what Square did: COMPLETED
\* only for a captured payment, FAILED only for a declined one; a COMPLETED
\* deposit always carries the id (chargeSavedCard, steps 5b to 5d).
RowAgreesWithSquare ==
    \A c \in Charges :
        /\ tx[c].status = "COMPLETED" => tx[c].squareId /\ payment[c] = "CAPTURED"
        /\ tx[c].status = "FAILED" /\ tx[c].squareId => payment[c] = "DECLINED"

\* A deposit row does not stay PENDING: unless the handler is interrupted
\* or Square itself answered PENDING, it becomes COMPLETED or FAILED.
DepositSettles ==
    \A c \in Charges :
        tx[c].status = "PENDING" ~>
            \/ tx[c].status \in {"COMPLETED", "FAILED"}
            \/ tx[c].squareId
            \/ pc[c] = "interrupted"

\* Requests that do not overlap implement the account: its movements happen
\* at Finalize and at CommitDeduction, everything else changes no money.
A == INSTANCE Account
        WITH balance <- wallet.balance, deposited <- wallet.totalDeposited, spent <- spent

ImplementsAccount == A!Spec

\* What "Insufficient wallet balance" (deductFromWallet) is there to ensure:
\* the deductions made so far are covered by the deposits made so far.
DeductionsCovered == spent <= credited
=============================================================================
