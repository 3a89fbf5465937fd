---------------------------- MODULE WalletProofs ----------------------------
(***************************************************************************)
(* Theorems about Wallet, for every set of requests and of amounts.        *)
(*                                                                         *)
(* The safety of the stored balance does not follow from the row alone: a  *)
(* request in flight will write a value computed from a copy it read       *)
(* earlier.  MoneyInv therefore says of every copy what the properties say *)
(* of the row, and of a deduction about to write that its copy passed the  *)
(* check.  RowsInv says how far the row of a charge can be, step by step.  *)
(*                                                                         *)
(* What the code lacks is a version check on the row.  NotStale says what  *)
(* one would ensure, of the two flushes that move money and of nothing     *)
(* else; under it the overlapping handlers implement the abstract account. *)
(***************************************************************************)
EXTENDS Wallet, TLAPS

\* Every copy of the wallet obeys the bounds of the row, and a deduction that
\* passed its check holds a copy that covers it.
MoneyInv ==
    /\ BalanceNeverNegative
    /\ NoMoneyMinted
    /\ \A r \in Requests :
          /\ 0 <= seen[r].balance
          /\ seen[r].balance <= credited
          /\ seen[r].totalDeposited <= credited
    /\ \A d \in Deductions : pc[d] = "write" => amount[d] <= seen[d].balance

\* Until its handler ends, a charge's row is at most PENDING and holds no id.
RowsInv ==
    /\ RowAgreesWithSquare
    /\ \A c \in Charges :
          pc[c] \in {"idle", "find", "open", "square", "await"} =>
              /\ tx[c].status \in {"none", "PENDING"}
              /\ ~tx[c].squareId

\* A request in flight carries one of the amounts; a wallet that does not
\* exist holds nothing, and a deduction about to write has found one.
Flight ==
    /\ \A r \in Requests : InFlight(r) => amount[r] \in Amounts
    /\ ~wallet.exists => wallet.balance = 0 /\ wallet.totalDeposited = 0
    /\ \A d \in Deductions : pc[d] = "write" => wallet.exists

\* What a version column would ensure (wallet.entity.ts has none): the values
\* a flush replaces are still the values its request has read.
NotStale ==
    /\ \A c \in Charges :
          Finalize(c) => /\ seen[c].balance = wallet.balance
                         /\ seen[c].totalDeposited = wallet.totalDeposited
    /\ \A d \in Deductions :
          CommitDeduction(d) => seen[d].balance = wallet.balance

\* One request at a time: its copy of the wallet is the row itself, except
\* that the row may have come into existence since.
SerialInv ==
    /\ \A r, s \in Requests : InFlight(r) /\ InFlight(s) => r = s
    /\ \A r \in Requests :
          pc[r] \in {"open", "create", "write", "square", "await"} =>
              /\ seen[r].balance = wallet.balance
              /\ seen[r].totalDeposited = wallet.totalDeposited

----------------------------------------------------------------------------
\* The rows a request starts from have the types of their tables.
LEMMA RowTypes ==
    /\ NoTx \in TxRow
    /\ NoWallet \in WalletRow
    /\ NewWallet \in WalletRow
BY DEF NoTx, TxRow, NoWallet, NewWallet, WalletRow

\* What a charge's answer makes of its row is a row.
LEMMA RowChanges ==
    ASSUME NEW row \in TxRow
    PROVE  /\ MarkFailed(row) \in TxRow
           /\ [row EXCEPT !.squareId = TRUE] \in TxRow
           /\ [MarkFailed(row) EXCEPT !.squareId = TRUE] \in TxRow
<1>1. MarkFailed(row) \in TxRow
  BY DEF MarkFailed, TxRow, TxStatus
<1>2. \A t \in TxRow : [t EXCEPT !.squareId = TRUE] \in TxRow
  BY DEF TxRow
<1>3. QED
  BY <1>1, <1>2

\* Type correctness: the wallet, the rows and the handlers keep their types
\* in every interleaving of PaymentService's requests.
THEOREM TypeCorrect == Spec => []TypeOK
<1> USE WalletAssumption DEF Requests, PaymentStatus, Pc
<1>1. Init => TypeOK
  BY RowTypes DEF Init, TypeOK
<1>2. TypeOK /\ [Next]_vars => TypeOK'
  <2> SUFFICES ASSUME TypeOK, [Next]_vars PROVE TypeOK'
    OBVIOUS
  <2> USE DEF TypeOK
  <2>1. ASSUME NEW c \in Charges, NEW a \in Amounts, BeginCharge(c, a) PROVE TypeOK'
    BY <2>1 DEF BeginCharge
  <2>2. ASSUME NEW c \in Charges, RefuseCharge(c) PROVE TypeOK'
    BY <2>2 DEF RefuseCharge
  <2>3. ASSUME NEW c \in Charges, FindWallet(c) PROVE TypeOK'
    BY <2>3 DEF FindWallet
  <2>4. ASSUME NEW c \in Charges, OpenDeposit(c) PROVE TypeOK'
    <3>1. /\ wallet' \in WalletRow
          /\ seen' \in [Requests -> WalletRow]
      BY <2>4, RowTypes DEF OpenDeposit, WalletRow
    <3>2. tx' \in [Requests -> TxRow]
      BY <2>4 DEF OpenDeposit, TxRow, TxStatus, WalletRow
    <3>3. QED
      BY <2>4, <3>1, <3>2 DEF OpenDeposit
  <2>5. ASSUME NEW r \in Requests, WalletAlreadyCreated(r) PROVE TypeOK'
    BY <2>5 DEF WalletAlreadyCreated
  <2>6. ASSUME NEW c \in Charges, CallSquare(c) PROVE TypeOK'
    BY <2>6 DEF CallSquare
  <2>7. ASSUME NEW c \in Charges, RecordError(c) PROVE TypeOK'
    <3>1. tx' = [tx EXCEPT ![c] = MarkFailed(tx[c])]
      BY <2>7 DEF RecordError
    <3>2. tx' \in [Requests -> TxRow]
      BY <3>1, RowChanges
    <3>3. QED
      BY <2>7, <3>2 DEF RecordError
  <2>8. ASSUME NEW c \in Charges, Finalize(c) PROVE TypeOK'
    <3>1. Credit(c) \in WalletRow /\ Credit(c).balance \in Int
      BY DEF Credit, WalletRow
    <3>2. tx' \in [Requests -> TxRow]
      BY <2>8, <3>1 DEF Finalize, TxRow, TxStatus
    <3>3. QED
      BY <2>8, <3>1, <3>2 DEF Finalize
  <2>9. ASSUME NEW c \in Charges, KeepPending(c) PROVE TypeOK'
    <3>1. tx' = [tx EXCEPT ![c] = [tx[c] EXCEPT !.squareId = TRUE]]
      BY <2>9 DEF KeepPending
    <3>2. tx' \in [Requests -> TxRow]
      BY <3>1, RowChanges
    <3>3. QED
      BY <2>9, <3>2 DEF KeepPending
  <2>10. ASSUME NEW c \in Charges, RecordDecline(c) PROVE TypeOK'
    <3>1. tx' = [tx EXCEPT ![c] = [MarkFailed(tx[c]) EXCEPT !.squareId = TRUE]]
      BY <2>10 DEF RecordDecline
    <3>2. tx' \in [Requests -> TxRow]
      BY <3>1, RowChanges
    <3>3. QED
      BY <2>10, <3>2 DEF RecordDecline
  <2>11. ASSUME NEW c \in Charges, SquareDecides(c) PROVE TypeOK'
    BY <2>11 DEF SquareDecides
  <2>12. ASSUME NEW c \in Charges, SquareSettles(c) PROVE TypeOK'
    BY <2>12 DEF SquareSettles
  <2>13. ASSUME NEW d \in Deductions, NEW a \in Amounts, BeginDeduction(d, a) PROVE TypeOK'
    BY <2>13 DEF BeginDeduction
  <2>14. ASSUME NEW d \in Deductions, ReadWallet(d) PROVE TypeOK'
    BY <2>14 DEF ReadWallet, Checked
  <2>15. ASSUME NEW d \in Deductions, CreateWallet(d) PROVE TypeOK'
    BY <2>15, RowTypes DEF CreateWallet, Checked
  <2>16. ASSUME NEW d \in Deductions, CommitDeduction(d) PROVE TypeOK'
    BY <2>16 DEF CommitDeduction, Debit, TxRow, TxStatus, WalletRow
  <2>17. ASSUME ViewWallet PROVE TypeOK'
    BY <2>17, RowTypes DEF ViewWallet
  <2>18. ASSUME NEW r \in Requests, Interrupt(r) PROVE TypeOK'
    BY <2>18 DEF Interrupt
  <2>19. CASE UNCHANGED vars
    BY <2>19 DEF vars
  <2> HIDE DEF TypeOK
  <2>20. QED
    BY <2>1, <2>2, <2>3, <2>4, <2>5, <2>6, <2>7, <2>8, <2>9, <2>10, <2>11, <2>12,
       <2>13, <2>14, <2>15, <2>16, <2>17, <2>18, <2>19
       DEF Next, ChargeStep, DeductionStep
<1>3. QED
  BY <1>1, <1>2, PTL DEF Spec

----------------------------------------------------------------------------
\* The money invariant is inductive: a charge writes its copy plus an amount
\* that is credited in the same step, a deduction its copy less an amount the
\* copy covers, and nobody else writes a balance.
LEMMA MoneyInvariant == Spec => []MoneyInv
<1> USE WalletAssumption DEF Requests
<1>1. Init => MoneyInv
  BY DEF Init, MoneyInv, BalanceNeverNegative, NoMoneyMinted, NoWallet, NewWallet
<1>2. TypeOK /\ MoneyInv /\ [Next]_vars => MoneyInv'
  <2> SUFFICES ASSUME TypeOK, MoneyInv, [Next]_vars PROVE MoneyInv'
    OBVIOUS
  <2> USE DEF TypeOK, MoneyInv, BalanceNeverNegative, NoMoneyMinted, WalletRow,
          NoWallet, NewWallet
  <2>1. ASSUME NEW c \in Charges, NEW a \in Amounts, BeginCharge(c, a) PROVE MoneyInv'
    BY <2>1 DEF BeginCharge
  <2>2. ASSUME NEW c \in Charges, RefuseCharge(c) PROVE MoneyInv'
    BY <2>2 DEF RefuseCharge
  <2>3. ASSUME NEW c \in Charges, FindWallet(c) PROVE MoneyInv'
    BY <2>3 DEF FindWallet
  <2>4. ASSUME NEW c \in Charges, OpenDeposit(c) PROVE MoneyInv'
    BY <2>4 DEF OpenDeposit
  <2>5. ASSUME NEW r \in Requests, WalletAlreadyCreated(r) PROVE MoneyInv'
    BY <2>5 DEF WalletAlreadyCreated
  <2>6. ASSUME NEW c \in Charges, CallSquare(c) PROVE MoneyInv'
    BY <2>6 DEF CallSquare
  <2>7. ASSUME NEW c \in Charges, RecordError(c) PROVE MoneyInv'
    BY <2>7 DEF RecordError
  <2>8. ASSUME NEW c \in Charges, Finalize(c) PROVE MoneyInv'
    <3>1. /\ wallet' = Credit(c)
          /\ seen' = [seen EXCEPT ![c] = Credit(c)]
          /\ credited' = credited + amount[c]
          /\ pc' = [pc EXCEPT ![c] = "done"]
          /\ amount' = amount
      BY <2>8 DEF Finalize
    <3>2. /\ Credit(c).balance = seen[c].balance + amount[c]
          /\ Credit(c).totalDeposited = seen[c].totalDeposited + amount[c]
      BY DEF Credit
    <3>3. amount[c] \in Nat /\ credited \in Nat
      OBVIOUS
    <3>4. /\ BalanceNeverNegative'
          /\ NoMoneyMinted'
      BY <3>1, <3>2, <3>3
    <3>5. ASSUME NEW r \in Requests
          PROVE  /\ 0 <= seen'[r].balance
                 /\ seen'[r].balance <= credited'
                 /\ seen'[r].totalDeposited <= credited'
      <4>1. CASE r = c
        BY <4>1, <3>1, <3>2, <3>3
      <4>2. CASE r # c
        BY <4>2, <3>1, <3>3
      <4>3. QED
        BY <4>1, <4>2
    <3>6. ASSUME NEW d \in Deductions, pc'[d] = "write" PROVE amount'[d] <= seen'[d].balance
      BY <3>1, <3>6
    <3>7. QED
      BY <3>4, <3>5, <3>6
  <2>9. ASSUME NEW c \in Charges, KeepPending(c) PROVE MoneyInv'
    BY <2>9 DEF KeepPending
  <2>10. ASSUME NEW c \in Charges, RecordDecline(c) PROVE MoneyInv'
    BY <2>10 DEF RecordDecline
  <2>11. ASSUME NEW c \in Charges, SquareDecides(c) PROVE MoneyInv'
    BY <2>11 DEF SquareDecides
  <2>12. ASSUME NEW c \in Charges, SquareSettles(c) PROVE MoneyInv'
    BY <2>12 DEF SquareSettles
  <2>13. ASSUME NEW d \in Deductions, NEW a \in Amounts, BeginDeduction(d, a) PROVE MoneyInv'
    BY <2>13 DEF BeginDeduction
  <2>14. ASSUME NEW d \in Deductions, ReadWallet(d) PROVE MoneyInv'
    BY <2>14 DEF ReadWallet, Checked
  <2>15. ASSUME NEW d \in Deductions, CreateWallet(d) PROVE MoneyInv'
    BY <2>15 DEF CreateWallet, Checked
  <2>16. ASSUME NEW d \in Deductions, CommitDeduction(d) PROVE MoneyInv'
    <3>1. /\ wallet' = [wallet EXCEPT !.balance = seen[d].balance - amount[d]]
          /\ seen' = [seen EXCEPT ![d].balance = seen[d].balance - amount[d]]
          /\ pc' = [pc EXCEPT ![d] = "done"]
          /\ UNCHANGED <<amount, credited>>
      BY <2>16 DEF CommitDeduction, Debit
    <3>2. /\ amount[d] \in Nat
          /\ amount[d] <= seen[d].balance
      BY <2>16 DEF CommitDeduction
    <3>3. QED
      BY <3>1, <3>2
  <2>17. ASSUME ViewWallet PROVE MoneyInv'
    BY <2>17 DEF ViewWallet
  <2>18. ASSUME NEW r \in Requests, Interrupt(r) PROVE MoneyInv'
    BY <2>18 DEF Interrupt
  <2>19. CASE UNCHANGED vars
    BY <2>19 DEF vars
  <2> HIDE DEF TypeOK, MoneyInv, BalanceNeverNegative, NoMoneyMinted, WalletRow, NoWallet,
              NewWallet
  <2>20. QED
    BY <2>1, <2>2, <2>3, <2>4, <2>5, <2>6, <2>7, <2>8, <2>9, <2>10, <2>11, <2>12,
       <2>13, <2>14, <2>15, <2>16, <2>17, <2>18, <2>19
       DEF Next, ChargeStep, DeductionStep
<1>3. QED
  BY <1>1, <1>2, TypeCorrect, PTL DEF Spec

\* The stored balance never goes below zero, however deposits and deductions
\* of the same company overlap (deductFromWallet's check and its write).
THEOREM NeverNegative == Spec => []BalanceNeverNegative
<1>1. MoneyInv => BalanceNeverNegative
  BY DEF MoneyInv
<1>2. QED
  BY <1>1, MoneyInvariant, PTL

\* Neither the balance nor totalDeposited exceeds the completed deposits:
\* the lost updates this code allows never work in the company's favour
\* (chargeSavedCard step 5b, deductFromWallet).
THEOREM NothingMinted == Spec => []NoMoneyMinted
<1>1. MoneyInv => NoMoneyMinted
  BY DEF MoneyInv
<1>2. QED
  BY <1>1, MoneyInvariant, PTL

----------------------------------------------------------------------------
\* RowsInv is inductive: the three answers of Square are taken from a state
\* in which the row is PENDING, and CAPTURED and DECLINED are final.
LEMMA RowsInvariant == Spec => []RowsInv
<1> USE WalletAssumption DEF Requests
<1>1. Init => RowsInv
  BY DEF Init, RowsInv, RowAgreesWithSquare, NoTx
<1>2. TypeOK /\ RowsInv /\ [Next]_vars => RowsInv'
  <2> SUFFICES ASSUME TypeOK, RowsInv, [Next]_vars PROVE RowsInv'
    OBVIOUS
  <2> USE DEF TypeOK, RowsInv, RowAgreesWithSquare, TxRow, TxStatus, NoTx
  <2>1. ASSUME NEW c \in Charges, NEW a \in Amounts, BeginCharge(c, a) PROVE RowsInv'
    BY <2>1 DEF BeginCharge
  <2>2. ASSUME NEW c \in Charges, RefuseCharge(c) PROVE RowsInv'
    BY <2>2 DEF RefuseCharge
  <2>3. ASSUME NEW c \in Charges, FindWallet(c) PROVE RowsInv'
    BY <2>3 DEF FindWallet
  <2>4. ASSUME NEW c \in Charges, OpenDeposit(c) PROVE RowsInv'
    BY <2>4 DEF OpenDeposit
  <2>5. ASSUME NEW r \in Requests, WalletAlreadyCreated(r) PROVE RowsInv'
    BY <2>5 DEF WalletAlreadyCreated
  <2>6. ASSUME NEW c \in Charges, CallSquare(c) PROVE RowsInv'
    BY <2>6 DEF CallSquare
  <2>7. ASSUME NEW c \in Charges, RecordError(c) PROVE RowsInv'
    BY <2>7 DEF RecordError, MarkFailed
  <2>8. ASSUME NEW c \in Charges, Finalize(c) PROVE RowsInv'
    BY <2>8 DEF Finalize, Succeeded
  <2>9. ASSUME NEW c \in Charges, KeepPending(c) PROVE RowsInv'
    BY <2>9 DEF KeepPending
  <2>10. ASSUME NEW c \in Charges, RecordDecline(c) PROVE RowsInv'
    BY <2>10 DEF RecordDecline, MarkFailed
  <2>11. ASSUME NEW c \in Charges, SquareDecides(c) PROVE RowsInv'
    BY <2>11 DEF SquareDecides
  <2>12. ASSUME NEW c \in Charges, SquareSettles(c) PROVE RowsInv'
    BY <2>12 DEF SquareSettles
  <2>13. ASSUME NEW d \in Deductions, NEW a \in Amounts, BeginDeduction(d, a) PROVE RowsInv'
    BY <2>13 DEF BeginDeduction
  <2>14. ASSUME NEW d \in Deductions, ReadWallet(d) PROVE RowsInv'
    BY <2>14 DEF ReadWallet
  <2>15. ASSUME NEW d \in Deductions, CreateWallet(d) PROVE RowsInv'
    BY <2>15 DEF CreateWallet
  <2>16. ASSUME NEW d \in Deductions, CommitDeduction(d) PROVE RowsInv'
    BY <2>16 DEF CommitDeduction
  <2>17. ASSUME ViewWallet PROVE RowsInv'
    BY <2>17 DEF ViewWallet
  <2>18. ASSUME NEW r \in Requests, Interrupt(r) PROVE RowsInv'
    BY <2>18 DEF Interrupt
  <2>19. CASE UNCHANGED vars
    BY <2>19 DEF vars
  <2> HIDE DEF TypeOK, RowsInv, RowAgreesWithSquare, TxRow, TxStatus, NoTx
  <2>20. QED
    BY <2>1, <2>2, <2>3, <2>4, <2>5, <2>6, <2>7, <2>8, <2>9, <2>10, <2>11, <2>12,
       <2>13, <2>14, <2>15, <2>16, <2>17, <2>18, <2>19
       DEF Next, ChargeStep, DeductionStep
<1>3. QED
  BY <1>1, <1>2, TypeCorrect, PTL DEF Spec

\* A deposit is COMPLETED only if Square captured the payment, and a row that
\* holds a payment id is FAILED only if Square declined it.
THEOREM RowsAgree == Spec => []RowAgreesWithSquare
<1>1. RowsInv => RowAgreesWithSquare
  BY DEF RowsInv
<1>2. QED
  BY <1>1, RowsInvariant, PTL

----------------------------------------------------------------------------
\* However requests overlap, an amount is a legal one from begin to end, and
\* no handler writes to a wallet that is not there.
LEMMA FlightInvariant == Spec => []Flight
<1> USE WalletAssumption DEF Requests
<1>1. Init => Flight
  BY DEF Init, Flight, InFlight, NoWallet, NewWallet
<1>2. TypeOK /\ Flight /\ [Next]_vars => Flight'
  <2> SUFFICES ASSUME TypeOK, Flight, [Next]_vars PROVE Flight'
    OBVIOUS
  <2> USE DEF TypeOK, Flight, WalletRow, Pc
  <2>1. ASSUME NEW c \in Charges, NEW a \in Amounts, BeginCharge(c, a) PROVE Flight'
    BY <2>1 DEF BeginCharge, InFlight
  <2>2. ASSUME NEW c \in Charges, RefuseCharge(c) PROVE Flight'
    BY <2>2 DEF RefuseCharge, InFlight
  <2>3. ASSUME NEW c \in Charges, FindWallet(c) PROVE Flight'
    BY <2>3 DEF FindWallet, InFlight
  <2>4. ASSUME NEW c \in Charges, OpenDeposit(c) PROVE Flight'
    BY <2>4 DEF OpenDeposit, InFlight, NewWallet
  <2>5. ASSUME NEW r \in Requests, WalletAlreadyCreated(r) PROVE Flight'
    BY <2>5 DEF WalletAlreadyCreated, InFlight
  <2>6. ASSUME NEW c \in Charges, CallSquare(c) PROVE Flight'
    BY <2>6 DEF CallSquare, InFlight
  <2>7. ASSUME NEW c \in Charges, RecordError(c) PROVE Flight'
    BY <2>7 DEF RecordError, InFlight
  <2>8. ASSUME NEW c \in Charges, Finalize(c) PROVE Flight'
    BY <2>8 DEF Finalize, Credit, InFlight
  <2>9. ASSUME NEW c \in Charges, KeepPending(c) PROVE Flight'
    BY <2>9 DEF KeepPending, InFlight
  <2>10. ASSUME NEW c \in Charges, RecordDecline(c) PROVE Flight'
    BY <2>10 DEF RecordDecline, InFlight
  <2>11. ASSUME NEW c \in Charges, SquareDecides(c) PROVE Flight'
    BY <2>11 DEF SquareDecides, InFlight
  <2>12. ASSUME NEW c \in Charges, SquareSettles(c) PROVE Flight'
    BY <2>12 DEF SquareSettles, InFlight
  <2>13. ASSUME NEW d \in Deductions, NEW a \in Amounts, BeginDeduction(d, a) PROVE Flight'
    BY <2>13 DEF BeginDeduction, InFlight
  <2>14. ASSUME NEW d \in Deductions, ReadWallet(d) PROVE Flight'
    BY <2>14 DEF ReadWallet, Checked, InFlight
  <2>15. ASSUME NEW d \in Deductions, CreateWallet(d) PROVE Flight'
    BY <2>15 DEF CreateWallet, Checked, InFlight, NewWallet
  <2>16. ASSUME NEW d \in Deductions, CommitDeduction(d) PROVE Flight'
    BY <2>16 DEF CommitDeduction, InFlight
  <2>17. ASSUME ViewWallet PROVE Flight'
    BY <2>17 DEF ViewWallet, InFlight, NewWallet
  <2>18. ASSUME NEW r \in Requests, Interrupt(r) PROVE Flight'
    BY <2>18 DEF Interrupt, InFlight
  <2>19. CASE UNCHANGED vars
    BY <2>19 DEF vars, InFlight
  <2> HIDE DEF TypeOK, Flight, WalletRow, Pc
  <2>20. QED
    BY <2>1, <2>2, <2>3, <2>4, <2>5, <2>6, <2>7, <2>8, <2>9, <2>10, <2>11, <2>12,
       <2>13, <2>14, <2>15, <2>16, <2>17, <2>18, <2>19
       DEF Next, ChargeStep, DeductionStep
<1>3. QED
  BY <1>1, <1>2, TypeCorrect, PTL DEF Spec

\* When requests are serialized, no copy is ever stale.
LEMMA SerialInvariant == ASSUME Serialized = TRUE PROVE Spec => []SerialInv
<1> USE WalletAssumption DEF Requests
<1>1. Init => SerialInv
  BY DEF Init, SerialInv, InFlight, NoWallet, NewWallet
<1>2. TypeOK /\ Flight /\ SerialInv /\ [Next]_vars => SerialInv'
  <2> SUFFICES ASSUME TypeOK, Flight, SerialInv, [Next]_vars PROVE SerialInv'
    OBVIOUS
  <2> USE DEF TypeOK, SerialInv, WalletRow, Pc
  <2>1. ASSUME NEW c \in Charges, NEW a \in Amounts, BeginCharge(c, a) PROVE SerialInv'
    BY <2>1 DEF BeginCharge, MayStart, InFlight
  <2>2. ASSUME NEW c \in Charges, RefuseCharge(c) PROVE SerialInv'
    BY <2>2 DEF RefuseCharge, InFlight
  <2>3. ASSUME NEW c \in Charges, FindWallet(c) PROVE SerialInv'
    BY <2>3 DEF FindWallet, InFlight
  <2>4. ASSUME NEW c \in Charges, OpenDeposit(c) PROVE SerialInv'
    BY <2>4 DEF OpenDeposit, InFlight, NewWallet, Flight
  <2>5. ASSUME NEW r \in Requests, WalletAlreadyCreated(r) PROVE SerialInv'
    BY <2>5 DEF WalletAlreadyCreated, InFlight
  <2>6. ASSUME NEW c \in Charges, CallSquare(c) PROVE SerialInv'
    BY <2>6 DEF CallSquare, InFlight
  <2>7. ASSUME NEW c \in Charges, RecordError(c) PROVE SerialInv'
    BY <2>7 DEF RecordError, InFlight
  <2>8. ASSUME NEW c \in Charges, Finalize(c) PROVE SerialInv'
    BY <2>8 DEF Finalize, Credit, InFlight
  <2>9. ASSUME NEW c \in Charges, KeepPending(c) PROVE SerialInv'
    BY <2>9 DEF KeepPending, InFlight
  <2>10. ASSUME NEW c \in Charges, RecordDecline(c) PROVE SerialInv'
    BY <2>10 DEF RecordDecline, InFlight
  <2>11. ASSUME NEW c \in Charges, SquareDecides(c) PROVE SerialInv'
    BY <2>11 DEF SquareDecides, InFlight
  <2>12. ASSUME NEW c \in Charges, SquareSettles(c) PROVE SerialInv'
    BY <2>12 DEF SquareSettles, InFlight
  <2>13. ASSUME NEW d \in Deductions, NEW a \in Amounts, BeginDeduction(d, a) PROVE SerialInv'
    BY <2>13 DEF BeginDeduction, MayStart, InFlight
  <2>14. ASSUME NEW d \in Deductions, ReadWallet(d) PROVE SerialInv'
    <3>1. InFlight(d)
      BY <2>14 DEF ReadWallet, InFlight
    <3>2. \A r \in Requests : r # d => ~InFlight(r) /\ pc'[r] = pc[r]
      BY <3>1, <2>14 DEF ReadWallet
    <3>3. \A r \in Requests : InFlight(r)' => r = d
      BY <3>2 DEF InFlight
    <3>4. \A r \in Requests :
             pc'[r] \in {"open", "create", "write", "square", "await"} =>
                 seen'[r] = wallet'
      BY <3>3, <2>14 DEF ReadWallet, InFlight
    <3>5. \A r, s \in Requests : InFlight(r)' /\ InFlight(s)' => r = s
      BY <3>3
    <3>6. QED
      BY <3>4, <3>5
  <2>15. ASSUME NEW d \in Deductions, CreateWallet(d) PROVE SerialInv'
    BY <2>15 DEF CreateWallet, Checked, InFlight, NewWallet, Flight
  <2>16. ASSUME NEW d \in Deductions, CommitDeduction(d) PROVE SerialInv'
    BY <2>16 DEF CommitDeduction, Debit, InFlight
  <2>17. ASSUME ViewWallet PROVE SerialInv'
    BY <2>17 DEF ViewWallet, InFlight, NewWallet, Flight
  <2>18. ASSUME NEW r \in Requests, Interrupt(r) PROVE SerialInv'
    BY <2>18 DEF Interrupt, InFlight
  <2>19. CASE UNCHANGED vars
    BY <2>19 DEF vars, InFlight
  <2> HIDE DEF TypeOK, SerialInv, WalletRow, Pc
  <2>20. QED
    BY <2>1, <2>2, <2>3, <2>4, <2>5, <2>6, <2>7, <2>8, <2>9, <2>10, <2>11, <2>12,
       <2>13, <2>14, <2>15, <2>16, <2>17, <2>18, <2>19
       DEF Next, ChargeStep, DeductionStep
<1>3. QED
  BY <1>1, <1>2, TypeCorrect, FlightInvariant, PTL DEF Spec

\* A version check on the row is enough: when no flush replaces values its
\* request has not read, overlapping handlers implement the abstract account.
\* Finalize is a Deposit, CommitDeduction a Withdraw, and no other step, not
\* even an interruption, moves money (chargeSavedCard, deductFromWallet).
THEOREM FreshWalletIsAccount == Spec /\ [][NotStale]_vars => ImplementsAccount
<1> USE WalletAssumption DEF Requests
<1>1. Init => A!Init
  BY DEF Init, A!Init, NoWallet, NewWallet
<1>2. TypeOK /\ MoneyInv /\ Flight /\ [Next]_vars /\ [NotStale]_vars => [A!Next]_(A!vars)
  <2> SUFFICES ASSUME TypeOK, MoneyInv, Flight, [Next]_vars, [NotStale]_vars
               PROVE  [A!Next]_(A!vars)
    OBVIOUS
  <2> USE DEF TypeOK, A!vars
  <2>1. ASSUME NEW c \in Charges, NEW a \in Amounts, BeginCharge(c, a) PROVE UNCHANGED A!vars
    BY <2>1 DEF BeginCharge
  <2>2. ASSUME NEW c \in Charges, RefuseCharge(c) PROVE UNCHANGED A!vars
    BY <2>2 DEF RefuseCharge
  <2>3. ASSUME NEW c \in Charges, FindWallet(c) PROVE UNCHANGED A!vars
    BY <2>3 DEF FindWallet
  <2>4. ASSUME NEW c \in Charges, OpenDeposit(c) PROVE UNCHANGED A!vars
    BY <2>4 DEF OpenDeposit, Flight, NewWallet
  <2>5. ASSUME NEW r \in Requests, WalletAlreadyCreated(r) PROVE UNCHANGED A!vars
    BY <2>5 DEF WalletAlreadyCreated
  <2>6. ASSUME NEW c \in Charges, CallSquare(c) PROVE UNCHANGED A!vars
    BY <2>6 DEF CallSquare
  <2>7. ASSUME NEW c \in Charges, RecordError(c) PROVE UNCHANGED A!vars
    BY <2>7 DEF RecordError
  <2>8. ASSUME NEW c \in Charges, Finalize(c) PROVE A!Next
    <3>1. /\ amount[c] \in Amounts
          /\ pc[c] = "await" /\ pc'[c] = "done"
      BY <2>8 DEF Finalize, Flight, InFlight
    <3>2. /\ seen[c].balance = wallet.balance
          /\ seen[c].totalDeposited = wallet.totalDeposited
      BY <2>8, <3>1 DEF NotStale, vars
    <3>3. A!Deposit(amount[c])
      BY <2>8, <3>1, <3>2 DEF Finalize, Credit, A!Deposit
    <3>4. QED
      BY <3>1, <3>3 DEF A!Next
  <2>9. ASSUME NEW c \in Charges, KeepPending(c) PROVE UNCHANGED A!vars
    BY <2>9 DEF KeepPending
  <2>10. ASSUME NEW c \in Charges, RecordDecline(c) PROVE UNCHANGED A!vars
    BY <2>10 DEF RecordDecline
  <2>11. ASSUME NEW c \in Charges, SquareDecides(c) PROVE UNCHANGED A!vars
    BY <2>11 DEF SquareDecides
  <2>12. ASSUME NEW c \in Charges, SquareSettles(c) PROVE UNCHANGED A!vars
    BY <2>12 DEF SquareSettles
  <2>13. ASSUME NEW d \in Deductions, NEW a \in Amounts, BeginDeduction(d, a) PROVE UNCHANGED A!vars
    BY <2>13 DEF BeginDeduction
  <2>14. ASSUME NEW d \in Deductions, ReadWallet(d) PROVE UNCHANGED A!vars
    BY <2>14 DEF ReadWallet
  <2>15. ASSUME NEW d \in Deductions, CreateWallet(d) PROVE UNCHANGED A!vars
    BY <2>15 DEF CreateWallet, Flight, NewWallet
  <2>16. ASSUME NEW d \in Deductions, CommitDeduction(d) PROVE A!Next
    <3>1. /\ amount[d] \in Amounts
          /\ amount[d] <= seen[d].balance
          /\ pc[d] = "write" /\ pc'[d] = "done"
      BY <2>16 DEF CommitDeduction, Flight, MoneyInv, InFlight
    <3>2. seen[d].balance = wallet.balance
      BY <2>16, <3>1 DEF NotStale, vars
    <3>3. A!Withdraw(amount[d])
      BY <2>16, <3>1, <3>2 DEF CommitDeduction, Debit, WalletRow, A!Withdraw
    <3>4. QED
      BY <3>1, <3>3 DEF A!Next
  <2>17. ASSUME ViewWallet PROVE UNCHANGED A!vars
    BY <2>17 DEF ViewWallet, Flight, NewWallet
  <2>18. ASSUME NEW r \in Requests, Interrupt(r) PROVE UNCHANGED A!vars
    BY <2>18 DEF Interrupt
  <2>19. CASE UNCHANGED vars
    BY <2>19 DEF vars
  <2> HIDE DEF TypeOK, A!vars
  <2>20. QED
    BY <2>1, <2>2, <2>3, <2>4, <2>5, <2>6, <2>7, <2>8, <2>9, <2>10, <2>11, <2>12,
       <2>13, <2>14, <2>15, <2>16, <2>17, <2>18, <2>19
       DEF Next, ChargeStep, DeductionStep
<1>3. QED
  BY <1>1, <1>2, TypeCorrect, MoneyInvariant, FlightInvariant, PTL
     DEF Spec, ImplementsAccount, A!Spec

\* Requests that run one at a time never flush a stale value.
LEMMA SerializedIsNotStale ==
    ASSUME Serialized = TRUE
    PROVE  Spec => [][NotStale]_vars
<1>1. TypeOK /\ SerialInv => NotStale
  BY DEF TypeOK, SerialInv, NotStale, Finalize, CommitDeduction, Requests
<1>2. QED
  BY <1>1, TypeCorrect, SerialInvariant, PTL

\* The detailed handlers implement the abstract account as long as requests
\* do not overlap.
THEOREM SerializedWalletIsAccount ==
    ASSUME Serialized = TRUE
    PROVE  Spec => ImplementsAccount
BY SerializedIsNotStale, FreshWalletIsAccount, PTL

\* With a version check on the row, what the balance check is there to ensure
\* would hold however requests overlap: the books of the account balance, so
\* what was spent is totalDeposited less a balance that is not negative, and
\* totalDeposited is at most what was paid in (deductFromWallet).
THEOREM FreshDeductionsCovered == Spec /\ [][NotStale]_vars => []DeductionsCovered
<1>1. TypeOK /\ A!Init => A!Balanced
  BY DEF A!Init, A!Balanced
<1>2. TypeOK /\ A!Balanced /\ [A!Next]_(A!vars) => A!Balanced'
  <2> SUFFICES ASSUME TypeOK, A!Balanced, [A!Next]_(A!vars) PROVE A!Balanced'
    OBVIOUS
  <2>1. /\ wallet.balance \in Int
        /\ wallet.totalDeposited \in Int
        /\ spent \in Nat
    BY DEF TypeOK, WalletRow
  <2>2. ASSUME NEW n \in Amounts, A!Deposit(n) PROVE A!Balanced'
    BY <2>1, <2>2, WalletAssumption DEF A!Deposit, A!Balanced
  <2>3. ASSUME NEW n \in Amounts, A!Withdraw(n) PROVE A!Balanced'
    BY <2>1, <2>3, WalletAssumption DEF A!Withdraw, A!Balanced
  <2>4. CASE UNCHANGED A!vars
    BY <2>4 DEF A!vars, A!Balanced
  <2>5. QED
    BY <2>2, <2>3, <2>4 DEF A!Next
<1>3. TypeOK /\ NoMoneyMinted /\ A!Balanced => DeductionsCovered
  BY DEF TypeOK, WalletRow, NoMoneyMinted, A!Balanced, DeductionsCovered
<1>4. QED
  BY <1>1, <1>2, <1>3, TypeCorrect, NothingMinted, FreshWalletIsAccount, PTL
     DEF ImplementsAccount, A!Spec
=============================================================================
