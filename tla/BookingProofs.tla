---------------------------- MODULE BookingProofs ----------------------------
(***************************************************************************)
(* Theorems about Booking, for every set of requests, carriers, rates,     *)
(* prices and fees.                                                        *)
(*                                                                         *)
(* No property follows from the rows alone, because a handler goes on with *)
(* what it loaded or was answered.  Each invariant below says of the       *)
(* places between two awaits what the property says of the end: Refs of    *)
(* the booking that a cancellation holds on to, Charges of the answer that *)
(* a deduction is made for, Doubles of the mark that a success leaves,     *)
(* Covered of the balance since it was checked, BookingTurns and           *)
(* PaymentTurns of requests that take turns.                               *)
(***************************************************************************)
EXTENDS Booking, TLAPS

\* A deduction about to be written was checked against the balance it holds.
Enough ==
    \A r \in Payers : pc[r] \in {"deduct", "dirty"} => Amount(r) <= seen[r]

\* Where a booking may stand once the row names its carrier.
Booked == {"find", "deduct", "dirty", "poll", "done", "interrupted"}

\* The row, and a cancellation that has read it, refer to a booking that the
\* carrier has accepted, by a carrier that can cancel.
Refs ==
    /\ Processed =>
          /\ shipment.by \in Bookings
          /\ pc[shipment.by] \in Booked
          /\ order[shipment.by].carrier = shipment.carrier
    /\ \A x \in Cancels :
          /\ pc[x] \in {"release", "mark", "done"} =>
                /\ target[x] \in Bookings
                /\ pc[target[x]] \in Booked
                /\ order[target[x]].carrier \in Cancellable
          /\ pc[x] = "mark" => \/ pickup[target[x]] = "released"
                               \/ order[target[x]].carrier = "TFORCE"
    /\ CancelledIsReleased

\* A booking has neither pickup nor charge before the carrier is called, and
\* goes on only with a pickup or an answer that was taken for one.
Charges ==
    /\ \A b \in Bookings :
          /\ pc[b] \in {"check", "call"} => order[b].carrier \in Bookable
          /\ pc[b] \in {"absent", "idle", "check", "call"} =>
                pickup[b] = "none" /\ charged[b] = 0
          /\ pc[b] \in {"flush", "find", "deduct", "dirty", "poll"} =>
                pickup[b] # "none" \/ order[b].reply = "unnamed"
    /\ \A p \in Payments : pc[p] = "flag" => charged[p] = InvoiceAmount
    /\ ChargedOnlyForPickup
    /\ PaidWasDeducted

\* A request that succeeds leaves its mark on the row, and one that finds
\* the mark ends.
Doubles ==
    /\ \A b \in Bookings : pc[b] \in {"find", "deduct", "dirty", "poll", "done"} => Processed
    /\ \A p \in Payments :
          /\ pc[p] = "done" => invoice = "paid"
          /\ pc[p] \in {"absent", "idle"} => charged[p] = 0
    /\ \A r \in Payers :
          /\ pc[r] \in {"absent", "idle"} => after[r] = {}
          /\ after[r] # {} => pc[r] \in {"told", "unsupported"}
    /\ NothingDoneTwice

\* What the balance covered when it was checked it still covers, or another
\* request has been charged.
Covered ==
    /\ \A b \in Bookings :
          /\ pc[b] \in {"call", "flush", "find"} =>
                \/ Estimate(b) <= balance
                \/ \E r \in Payers \ {b} : charged[r] > 0
          /\ pc[b] \in {"find", "deduct", "dirty"} => order[b].charge > 0

\* What is unsupported is not bookable at all, or not with this type.
Unsupported ==
    \A b \in Bookings :
        pc[b] = "unsupported" =>
            order[b].carrier \notin Bookable \/ ~TakesType(order[b].carrier, type)

----------------------------------------------------------------------------
\* A cost is a natural number.
LEMMA Costs ==
    ASSUME TypeOK
    PROVE /\ Fee \in Nat
          /\ \A b \in Bookings : Cost(b) \in Nat /\ Estimate(b) \in Nat
          /\ \A r \in Payers : Amount(r) \in Nat
BY BookingAssumption DEF TypeOK, Order, Fee, Cost, Estimate, Amount, Payers

\* It depends on the quote and the order alone.
LEMMA SameCosts ==
    ASSUME UNCHANGED <<type, order>>
    PROVE /\ \A b \in Bookings : Cost(b)' = Cost(b) /\ Estimate(b)' = Estimate(b)
          /\ \A r \in Payers : Amount(r)' = Amount(r)
BY DEF Cost, Estimate, Amount, Fee

\* What createShipment takes for a success is a booking, which the carrier
\* comes for, or an answer without a reference.
LEMMA BookedAnswers ==
    /\ \A c \in Bookable, reply \in Reply : Books(c, reply) => reply \in {"booked", "unnamed"}
    /\ MayComeAfter("booked") = {TRUE}
BY DEF Bookable, Books, FedexBooks, TstBooks, TForceBooks, XpoBooks, MinimaxBooks, MayComeAfter

\* What the carrier's answer changes: the booking it is for, no other.
LEMMA Answered ==
    ASSUME order \in [Bookings -> Order], Prices \subseteq Nat,
           NEW b \in Bookings, NEW reply \in Reply, NEW price \in Prices,
           CarrierAnswers(b, reply, price)
    PROVE /\ pc[b] = "call"
          /\ pc' = [pc EXCEPT ![b] = "flush"] \/ pc' = [pc EXCEPT ![b] = "told"]
          /\ order' \in [Bookings -> Order]
          /\ order'[b].rate = order[b].rate
          /\ \A a \in Bookings \ {b} : order'[a] = order[a]
          /\ \E state \in {"live", "none"} : pickup' = [pickup EXCEPT ![b] = state]
          /\ UNCHANGED <<type, shipment, invoice, balance, seen, charged, target, after, faults>>
<1> DEFINE charge == Charge(order[b].carrier, order[b].rate, price)
<1> DEFINE o == [order[b] EXCEPT !.reply = reply, !.charge = charge]
<1>1. order[b].rate \in Nat
  BY DEF Order
<1>2. charge \in Nat
  BY <1>1 DEF Charge
<1>3. o \in Order /\ o.rate = order[b].rate
  <2> HIDE DEF charge
  <2>1. QED
    BY <1>2 DEF Order
<1>4. order' = order \/ order' = [order EXCEPT ![b] = o]
  BY DEF CarrierAnswers
<1> HIDE DEF o
<1>5. /\ order' \in [Bookings -> Order]
      /\ order'[b].rate = order[b].rate
      /\ \A a \in Bookings \ {b} : order'[a] = order[a]
  BY <1>3, <1>4
<1>6. QED
  BY <1>5 DEF CarrierAnswers, Goto

\* Types, and the check of a deduction, hold in every interleaving.
LEMMA TypesHold == Spec => [](TypeOK /\ Enough)
<1> USE BookingAssumption DEF Requests, Payers, Pc
<1>1. Init => TypeOK /\ Enough
  BY DEF Init, TypeOK, Enough, NewShipment, ShipmentRow, NoOrder, Order, Carrier,
         InvoiceStatus, Pickup, ShipmentType
<1>2. TypeOK /\ Enough /\ [Next]_vars => TypeOK'
  <2> SUFFICES ASSUME TypeOK, Enough, [Next]_vars PROVE TypeOK'
    OBVIOUS
  <2> USE Costs DEF TypeOK, Goto
  <2>1. ASSUME NEW b \in Bookings, NEW c \in CarriersOf[b], NEW rate \in Rates, Begin(b, c, rate)
        PROVE TypeOK'
    <3>1. c \in Carrier /\ rate \in Nat
      OBVIOUS
    <3>2. order' = [order EXCEPT ![b] = [order[b] EXCEPT !.carrier = c, !.rate = rate]]
      BY <2>1 DEF Begin
    <3>3. order[b] \in Order
      OBVIOUS
    <3>4. [order[b] EXCEPT !.carrier = c, !.rate = rate] \in Order
      BY ONLY <3>1, <3>3 DEF Order
    <3>6. order' \in [Bookings -> Order]
      BY <3>2, <3>4
    <3>5. after' \in [Payers -> SUBSET Payers]
      BY <2>1 DEF Begin, Done
    <3>7. QED
      BY <2>1, <3>5, <3>6 DEF Begin
  <2>2. ASSUME NEW b \in Bookings, CheckBalance(b) PROVE TypeOK'
    BY <2>2 DEF CheckBalance
  <2>3. ASSUME NEW b \in Bookings, NEW reply \in Reply, NEW price \in Prices, CarrierAnswers(b, reply, price)
        PROVE TypeOK'
    <3>1. order' \in [Bookings -> Order]
      BY <2>3, Answered
    <3>2. pickup' \in [Bookings -> Pickup]
      BY <2>3, Answered DEF Pickup
    <3>3. pc' \in [Requests -> Pc]
      BY <2>3, Answered
    <3>4. UNCHANGED <<type, shipment, invoice, balance, seen, charged, target, after, faults>>
      BY <2>3, Answered
    <3>5. QED
      BY <3>1, <3>2, <3>3, <3>4
  <2>4. ASSUME NEW b \in Bookings, Save(b) PROVE TypeOK'
    BY <2>4 DEF Save, Saved, ShipmentRow, Order
  <2>5. ASSUME NEW r \in Payers, FindBalance(r) PROVE TypeOK'
    BY <2>5 DEF FindBalance, Refused
  <2>6. ASSUME NEW r \in Payers, CommitDeduction(r) PROVE TypeOK'
    BY <2>6 DEF CommitDeduction, Debit, Enough
  <2>7. ASSUME NEW b \in Bookings, DeductionFails(b) PROVE TypeOK'
    BY <2>7 DEF DeductionFails
  <2>8. ASSUME NEW b \in Bookings, SetPoll(b) PROVE TypeOK'
    <3>1. shipment' \in ShipmentRow
      BY <2>8 DEF SetPoll, Scheduled, ShipmentRow
    <3>2. pc[b] = "dirty" => Debit(b) \in Nat
      BY DEF Debit, Enough
    <3>3. QED
      BY <2>8, <3>1, <3>2 DEF SetPoll
  <2>9. ASSUME NEW x \in Cancels, BeginCancel(x) PROVE TypeOK'
    BY <2>9 DEF BeginCancel, ShipmentRow
  <2>10. ASSUME NEW x \in Cancels, NEW reply \in CancelReply, CarrierReleases(x, reply)
         PROVE TypeOK'
    BY <2>10 DEF CarrierReleases, Pickup
  <2>11. ASSUME NEW x \in Cancels, MarkCancelled(x) PROVE TypeOK'
    BY <2>11 DEF MarkCancelled, ShipmentRow
  <2>12. ASSUME AddSurcharges PROVE TypeOK'
    BY <2>12 DEF AddSurcharges, InvoiceStatus
  <2>13. ASSUME NEW p \in Payments, BeginPayment(p) PROVE TypeOK'
    BY <2>13 DEF BeginPayment, Done
  <2>14. ASSUME NEW p \in Payments, FlagPaid(p) PROVE TypeOK'
    BY <2>14 DEF FlagPaid, InvoiceStatus
  <2>15. ASSUME NEW r \in Requests, Interrupt(r) PROVE TypeOK'
    BY <2>15 DEF Interrupt
  <2>16. CASE UNCHANGED vars
    BY <2>16 DEF vars
  <2> HIDE DEF TypeOK, Goto
  <2>17. QED
    BY <2>1, <2>2, <2>3, <2>4, <2>5, <2>6, <2>7, <2>8, <2>9, <2>10, <2>11, <2>12,
       <2>13, <2>14, <2>15, <2>16 DEF Next, Tail, Payers
<1>3. TypeOK /\ Enough /\ [Next]_vars => Enough'
  <2> SUFFICES ASSUME TypeOK, Enough, [Next]_vars PROVE Enough'
    OBVIOUS
  <2> USE Costs DEF TypeOK, Enough, Goto
  <2>1. ASSUME NEW b \in Bookings, NEW c \in CarriersOf[b], NEW rate \in Rates, Begin(b, c, rate)
        PROVE Enough'
    BY <2>1 DEF Begin, Amount, Cost, Fee, Order
  <2>2. ASSUME NEW b \in Bookings, CheckBalance(b) PROVE Enough'
    BY <2>2, SameCosts DEF CheckBalance
  <2>3. ASSUME NEW b \in Bookings, NEW reply \in Reply, NEW price \in Prices, CarrierAnswers(b, reply, price)
        PROVE Enough'
    BY <2>3 DEF CarrierAnswers, Amount, Cost, Fee, Order
  <2>4. ASSUME NEW b \in Bookings, Save(b) PROVE Enough'
    BY <2>4, SameCosts DEF Save
  <2>5. ASSUME NEW r \in Payers, FindBalance(r) PROVE Enough'
    BY <2>5, SameCosts DEF FindBalance, Refused
  <2>6. ASSUME NEW r \in Payers, CommitDeduction(r) PROVE Enough'
    BY <2>6, SameCosts DEF CommitDeduction
  <2>7. ASSUME NEW b \in Bookings, DeductionFails(b) PROVE Enough'
    BY <2>7, SameCosts DEF DeductionFails
  <2>8. ASSUME NEW b \in Bookings, SetPoll(b) PROVE Enough'
    BY <2>8, SameCosts DEF SetPoll
  <2>9. ASSUME NEW x \in Cancels, BeginCancel(x) PROVE Enough'
    BY <2>9, SameCosts DEF BeginCancel
  <2>10. ASSUME NEW x \in Cancels, NEW reply \in CancelReply, CarrierReleases(x, reply)
         PROVE Enough'
    BY <2>10, SameCosts DEF CarrierReleases
  <2>11. ASSUME NEW x \in Cancels, MarkCancelled(x) PROVE Enough'
    BY <2>11, SameCosts DEF MarkCancelled
  <2>12. ASSUME AddSurcharges PROVE Enough'
    BY <2>12, SameCosts DEF AddSurcharges
  <2>13. ASSUME NEW p \in Payments, BeginPayment(p) PROVE Enough'
    BY <2>13, SameCosts DEF BeginPayment
  <2>14. ASSUME NEW p \in Payments, FlagPaid(p) PROVE Enough'
    BY <2>14, SameCosts DEF FlagPaid
  <2>15. ASSUME NEW r \in Requests, Interrupt(r) PROVE Enough'
    BY <2>15, SameCosts DEF Interrupt
  <2>16. CASE UNCHANGED vars
    BY <2>16, SameCosts DEF vars
  <2> HIDE DEF TypeOK, Enough, Goto
  <2>17. QED
    BY <2>1, <2>2, <2>3, <2>4, <2>5, <2>6, <2>7, <2>8, <2>9, <2>10, <2>11, <2>12,
       <2>13, <2>14, <2>15, <2>16 DEF Next, Tail, Payers
<1>4. QED
  BY <1>1, <1>2, <1>3, PTL DEF Spec

----------------------------------------------------------------------------
\* The references hold: once the row names a carrier its booking is past the
\* call, whatever cancellations do meanwhile.
LEMMA ReferencesHold == Spec => []Refs
<1> USE BookingAssumption DEF Requests, Payers, Pc
<1>1. Init => Refs
  BY DEF Init, Refs, CancelledIsReleased, NewShipment, Processed
<1>2. TypeOK /\ Refs /\ [Next]_vars => Refs'
  <2> SUFFICES ASSUME TypeOK, Refs, [Next]_vars PROVE Refs'
    OBVIOUS
  <2> USE DEF TypeOK, Refs, Booked, CancelledIsReleased, Processed, Goto, ShipmentRow
  <2>1. ASSUME NEW b \in Bookings, NEW c \in CarriersOf[b], NEW rate \in Rates, Begin(b, c, rate)
        PROVE Refs'
    <3>1. /\ pc[b] = "idle" /\ UNCHANGED <<shipment, pickup, target>>
          /\ pc'[b] \in {"unsupported", "told", "check"}
          /\ \A r \in Requests \ {b} : pc'[r] = pc[r]
      BY <2>1 DEF Begin
    <3>2. \A a \in Bookings \ {b} : order'[a] = order[a]
      BY <2>1 DEF Begin
    <3>3. \A a \in Bookings : pc[a] \in Booked => a # b
      BY <3>1
    <3>4. Processed => shipment.by # b
      BY <3>3
    <3>5. \A x \in Cancels : pc[x] \in {"release", "mark", "done"} => target[x] # b
      BY <3>3
    <3>6. \A x \in Cancels : pc'[x] = pc[x]
      BY <3>1
    <3>7. Processed' => /\ shipment'.by \in Bookings
                        /\ pc'[shipment'.by] \in Booked
                        /\ order'[shipment'.by].carrier = shipment'.carrier
      BY <3>1, <3>2, <3>4
    <3>8. \A x \in Cancels :
             pc'[x] \in {"release", "mark", "done"} =>
                /\ target'[x] \in Bookings
                /\ pc'[target'[x]] \in Booked
                /\ order'[target'[x]] = order[target[x]]
      BY <3>1, <3>2, <3>5, <3>6
    <3>9. QED
      BY <3>1, <3>6, <3>7, <3>8
  <2>2. ASSUME NEW b \in Bookings, CheckBalance(b) PROVE Refs'
    BY <2>2 DEF CheckBalance
  <2>3. ASSUME NEW b \in Bookings, NEW reply \in Reply, NEW price \in Prices, CarrierAnswers(b, reply, price)
        PROVE Refs'
    BY <2>3 DEF CarrierAnswers
  <2>4. ASSUME NEW b \in Bookings, Save(b) PROVE Refs'
    BY <2>4 DEF Save, Saved, Order
  <2>5. ASSUME NEW r \in Payers, FindBalance(r) PROVE Refs'
    BY <2>5 DEF FindBalance, Refused
  <2>6. ASSUME NEW r \in Payers, CommitDeduction(r) PROVE Refs'
    BY <2>6 DEF CommitDeduction
  <2>7. ASSUME NEW b \in Bookings, DeductionFails(b) PROVE Refs'
    BY <2>7 DEF DeductionFails
  <2>8. ASSUME NEW b \in Bookings, SetPoll(b) PROVE Refs'
    BY <2>8 DEF SetPoll, Scheduled
  <2>9. ASSUME NEW x \in Cancels, BeginCancel(x) PROVE Refs'
    BY <2>9 DEF BeginCancel, Cancellable
  <2>10. ASSUME NEW x \in Cancels, NEW reply \in CancelReply, CarrierReleases(x, reply)
         PROVE Refs'
    BY <2>10 DEF CarrierReleases, TakenForCancelled, CancelReplies, FedexCancels, XpoCancels, Cancellable
  <2>11. ASSUME NEW x \in Cancels, MarkCancelled(x) PROVE Refs'
    BY <2>11 DEF MarkCancelled
  <2>12. ASSUME AddSurcharges PROVE Refs'
    BY <2>12 DEF AddSurcharges
  <2>13. ASSUME NEW p \in Payments, BeginPayment(p) PROVE Refs'
    BY <2>13 DEF BeginPayment
  <2>14. ASSUME NEW p \in Payments, FlagPaid(p) PROVE Refs'
    BY <2>14 DEF FlagPaid
  <2>15. ASSUME NEW r \in Requests, Interrupt(r) PROVE Refs'
    BY <2>15 DEF Interrupt
  <2>16. CASE UNCHANGED vars
    BY <2>16 DEF vars
  <2> HIDE DEF TypeOK, Refs, Booked, CancelledIsReleased, Processed, Goto, ShipmentRow
  <2>17. QED
    BY <2>1, <2>2, <2>3, <2>4, <2>5, <2>6, <2>7, <2>8, <2>9, <2>10, <2>11, <2>12,
       <2>13, <2>14, <2>15, <2>16 DEF Next, Tail, Payers
<1>3. QED
  BY <1>1, <1>2, TypesHold, PTL DEF Spec

\* Charges hold: every step between the call and the deduction keeps the
\* answer that justified it.
LEMMA ChargesHold == Spec => []Charges
<1> USE BookingAssumption DEF Requests, Payers, Pc
<1>1. Init => Charges
  BY DEF Init, Charges, ChargedOnlyForPickup, PaidWasDeducted
<1>2. TypeOK /\ Refs /\ Charges /\ [Next]_vars => Charges'
  <2> SUFFICES ASSUME TypeOK, Refs, Charges, [Next]_vars PROVE Charges'
    OBVIOUS
  <2> USE DEF TypeOK, Refs, Booked, Charges, ChargedOnlyForPickup, PaidWasDeducted, Goto
  <2>1. ASSUME NEW b \in Bookings, NEW c \in CarriersOf[b], NEW rate \in Rates, Begin(b, c, rate)
        PROVE Charges'
    BY <2>1 DEF Begin, Order
  <2>2. ASSUME NEW b \in Bookings, CheckBalance(b) PROVE Charges'
    BY <2>2 DEF CheckBalance
  <2>3. ASSUME NEW b \in Bookings, NEW reply \in Reply, NEW price \in Prices, CarrierAnswers(b, reply, price)
        PROVE Charges'
    <3>1. Books(order[b].carrier, reply) => reply \in {"booked", "unnamed"}
      BY <2>3, BookedAnswers DEF CarrierAnswers
    <3>2. \A comes \in MayComeAfter("booked") : comes
      BY BookedAnswers
    <3>3. QED
      BY <2>3, <3>1, <3>2 DEF CarrierAnswers, Order
  <2>4. ASSUME NEW b \in Bookings, Save(b) PROVE Charges'
    BY <2>4 DEF Save, Order
  <2>5. ASSUME NEW r \in Payers, FindBalance(r) PROVE Charges'
    BY <2>5 DEF FindBalance, Refused
  <2>6. ASSUME NEW r \in Payers, CommitDeduction(r) PROVE Charges'
    BY <2>6 DEF CommitDeduction, Amount
  <2>7. ASSUME NEW b \in Bookings, DeductionFails(b) PROVE Charges'
    BY <2>7 DEF DeductionFails
  <2>8. ASSUME NEW b \in Bookings, SetPoll(b) PROVE Charges'
    BY <2>8 DEF SetPoll
  <2>9. ASSUME NEW x \in Cancels, BeginCancel(x) PROVE Charges'
    BY <2>9 DEF BeginCancel
  <2>10. ASSUME NEW x \in Cancels, NEW reply \in CancelReply, CarrierReleases(x, reply)
         PROVE Charges'
    BY <2>10 DEF CarrierReleases
  <2>11. ASSUME NEW x \in Cancels, MarkCancelled(x) PROVE Charges'
    BY <2>11 DEF MarkCancelled
  <2>12. ASSUME AddSurcharges PROVE Charges'
    BY <2>12 DEF AddSurcharges
  <2>13. ASSUME NEW p \in Payments, BeginPayment(p) PROVE Charges'
    BY <2>13 DEF BeginPayment
  <2>14. ASSUME NEW p \in Payments, FlagPaid(p) PROVE Charges'
    BY <2>14 DEF FlagPaid
  <2>15. ASSUME NEW r \in Requests, Interrupt(r) PROVE Charges'
    BY <2>15 DEF Interrupt
  <2>16. CASE UNCHANGED vars
    BY <2>16 DEF vars
  <2> HIDE DEF TypeOK, Refs, Booked, Charges, ChargedOnlyForPickup, PaidWasDeducted, Goto
  <2>17. QED
    BY <2>1, <2>2, <2>3, <2>4, <2>5, <2>6, <2>7, <2>8, <2>9, <2>10, <2>11, <2>12,
       <2>13, <2>14, <2>15, <2>16 DEF Next, Tail, Payers
<1>3. QED
  BY <1>1, <1>2, TypesHold, ReferencesHold, PTL DEF Spec

\* Doubles hold: the mark of a success is on the row before the success is
\* reported, so that whoever loads the row afterwards finds it.
LEMMA DoublesHold == Spec => []Doubles
<1> USE BookingAssumption DEF Requests, Payers, Pc
<1>1. Init => Doubles
  BY DEF Init, Doubles, NothingDoneTwice
<1>2. TypeOK /\ Refs /\ Charges /\ Doubles /\ [Next]_vars => Doubles'
  <2> SUFFICES ASSUME TypeOK, Refs, Charges, Doubles, [Next]_vars PROVE Doubles'
    OBVIOUS
  <2> USE DEF TypeOK, Refs, Booked, Charges, Doubles, NothingDoneTwice, Processed, Goto, ShipmentRow
  <2>1. ASSUME NEW b \in Bookings, NEW c \in CarriersOf[b], NEW rate \in Rates, Begin(b, c, rate)
        PROVE Doubles'
    BY <2>1 DEF Begin, Done
  <2>2. ASSUME NEW b \in Bookings, CheckBalance(b) PROVE Doubles'
    BY <2>2 DEF CheckBalance
  <2>3. ASSUME NEW b \in Bookings, NEW reply \in Reply, NEW price \in Prices, CarrierAnswers(b, reply, price)
        PROVE Doubles'
    <3>1. pc[b] = "call" /\ UNCHANGED <<shipment, invoice, charged, after>>
      BY <2>3, Answered
    <3>2. \E place \in {"flush", "told"} : pc' = [pc EXCEPT ![b] = place]
      BY <2>3, Answered
    <3>3. \E state \in {"live", "none"} : pickup' = [pickup EXCEPT ![b] = state]
      BY <2>3, Answered
    <3>4. after[b] = {}
      BY <3>1
    <3>5. NothingDoneTwice'
      BY <3>1, <3>3, <3>4
    <3>6. QED
      BY <3>1, <3>2, <3>5
  <2>4. ASSUME NEW b \in Bookings, Save(b) PROVE Doubles'
    <3>1. /\ pc[b] = "flush" /\ UNCHANGED <<invoice, pickup, charged, after>>
          /\ shipment' = [shipment EXCEPT !.carrier = order[b].carrier, !.by = b]
      BY <2>4 DEF Save, Saved
    <3>2. \E place \in {"find", "poll"} : pc' = [pc EXCEPT ![b] = place]
      BY <2>4 DEF Save
    <3>3. shipment'.carrier # "none"
      BY <3>1 DEF Order, Carrier
    <3>4. after[b] = {}
      BY <3>1
    <3>5. NothingDoneTwice'
      BY <3>1, <3>2, <3>4
    <3>6. QED
      BY <3>1, <3>2, <3>3, <3>5
  <2>5. ASSUME NEW r \in Payers, FindBalance(r) PROVE Doubles'
    BY <2>5 DEF FindBalance, Refused
  <2>6. ASSUME NEW r \in Payers, CommitDeduction(r) PROVE Doubles'
    BY <2>6 DEF CommitDeduction
  <2>7. ASSUME NEW b \in Bookings, DeductionFails(b) PROVE Doubles'
    BY <2>7 DEF DeductionFails
  <2>8. ASSUME NEW b \in Bookings, SetPoll(b) PROVE Doubles'
    BY <2>8 DEF SetPoll, Scheduled
  <2>9. ASSUME NEW x \in Cancels, BeginCancel(x) PROVE Doubles'
    BY <2>9 DEF BeginCancel
  <2>10. ASSUME NEW x \in Cancels, NEW reply \in CancelReply, CarrierReleases(x, reply)
         PROVE Doubles'
    BY <2>10 DEF CarrierReleases
  <2>11. ASSUME NEW x \in Cancels, MarkCancelled(x) PROVE Doubles'
    BY <2>11 DEF MarkCancelled
  <2>12. ASSUME AddSurcharges PROVE Doubles'
    BY <2>12 DEF AddSurcharges
  <2>13. ASSUME NEW p \in Payments, BeginPayment(p) PROVE Doubles'
    BY <2>13 DEF BeginPayment, Done
  <2>14. ASSUME NEW p \in Payments, FlagPaid(p) PROVE Doubles'
    BY <2>14 DEF FlagPaid
  <2>15. ASSUME NEW r \in Requests, Interrupt(r) PROVE Doubles'
    BY <2>15 DEF Interrupt, InFlight
  <2>16. CASE UNCHANGED vars
    BY <2>16 DEF vars
  <2> HIDE DEF TypeOK, Refs, Booked, Charges, Doubles, NothingDoneTwice, Processed, Goto,
              ShipmentRow
  <2>17. QED
    BY <2>1, <2>2, <2>3, <2>4, <2>5, <2>6, <2>7, <2>8, <2>9, <2>10, <2>11, <2>12,
       <2>13, <2>14, <2>15, <2>16 DEF Next, Tail, Payers
<1>3. QED
  BY <1>1, <1>2, TypesHold, ReferencesHold, ChargesHold, PTL DEF Spec

\* The balance checked still covers: only a deduction lowers it, and the one
\* that does has charged somebody.
LEMMA CoveredHolds == Spec => []Covered
<1> USE BookingAssumption DEF Requests, Payers, Pc
<1>1. Init => Covered
  BY DEF Init, Covered
<1>2. TypeOK /\ Enough /\ Covered /\ [Next]_vars => Covered'
  <2> SUFFICES ASSUME TypeOK, Enough, Covered, [Next]_vars PROVE Covered'
    OBVIOUS
  <2> USE Costs DEF TypeOK, Enough, Covered, Goto
  <2>1. ASSUME NEW b \in Bookings, NEW c \in CarriersOf[b], NEW rate \in Rates, Begin(b, c, rate)
        PROVE Covered'
    BY <2>1 DEF Begin, Estimate, Fee, Order
  <2>2. ASSUME NEW b \in Bookings, CheckBalance(b) PROVE Covered'
    BY <2>2, SameCosts DEF CheckBalance
  <2>3. ASSUME NEW b \in Bookings, NEW reply \in Reply, NEW price \in Prices, CarrierAnswers(b, reply, price)
        PROVE Covered'
    <3>1. pc[b] = "call" /\ UNCHANGED <<type, balance, charged>>
      BY <2>3, Answered
    <3>2. \E place \in {"flush", "told"} : pc' = [pc EXCEPT ![b] = place]
      BY <2>3, Answered
    <3>3. order'[b].rate = order[b].rate /\ \A a \in Bookings \ {b} : order'[a] = order[a]
      BY <2>3, Answered
    <3>4. \A a \in Bookings : Estimate(a)' = Estimate(a)
      BY <3>1, <3>3 DEF Estimate, Fee
    <3>5. QED
      BY <3>1, <3>2, <3>3, <3>4
  <2>4. ASSUME NEW b \in Bookings, Save(b) PROVE Covered'
    BY <2>4, SameCosts DEF Save
  <2>5. ASSUME NEW r \in Payers, FindBalance(r) PROVE Covered'
    BY <2>5, SameCosts DEF FindBalance, Refused
  <2>6. ASSUME NEW r \in Payers, CommitDeduction(r) PROVE Covered'
    <3>1. Amount(r) > 0
      BY <2>6 DEF CommitDeduction, Amount, Cost, Order
    <3>2. QED
      BY <2>6, <3>1, SameCosts DEF CommitDeduction
  <2>7. ASSUME NEW b \in Bookings, DeductionFails(b) PROVE Covered'
    BY <2>7, SameCosts DEF DeductionFails
  <2>8. ASSUME NEW b \in Bookings, SetPoll(b) PROVE Covered'
    <3>1. pc[b] = "dirty" => Cost(b) > 0
      BY DEF Cost, Order
    <3>2. QED
      BY <2>8, <3>1, SameCosts DEF SetPoll
  <2>9. ASSUME NEW x \in Cancels, BeginCancel(x) PROVE Covered'
    BY <2>9, SameCosts DEF BeginCancel
  <2>10. ASSUME NEW x \in Cancels, NEW reply \in CancelReply, CarrierReleases(x, reply)
         PROVE Covered'
    BY <2>10, SameCosts DEF CarrierReleases
  <2>11. ASSUME NEW x \in Cancels, MarkCancelled(x) PROVE Covered'
    BY <2>11, SameCosts DEF MarkCancelled
  <2>12. ASSUME AddSurcharges PROVE Covered'
    BY <2>12, SameCosts DEF AddSurcharges
  <2>13. ASSUME NEW p \in Payments, BeginPayment(p) PROVE Covered'
    BY <2>13, SameCosts DEF BeginPayment
  <2>14. ASSUME NEW p \in Payments, FlagPaid(p) PROVE Covered'
    BY <2>14, SameCosts DEF FlagPaid
  <2>15. ASSUME NEW r \in Requests, Interrupt(r) PROVE Covered'
    BY <2>15, SameCosts DEF Interrupt
  <2>16. CASE UNCHANGED vars
    BY <2>16, SameCosts DEF vars
  <2> HIDE DEF TypeOK, Enough, Covered, Goto
  <2>17. QED
    BY <2>1, <2>2, <2>3, <2>4, <2>5, <2>6, <2>7, <2>8, <2>9, <2>10, <2>11, <2>12,
       <2>13, <2>14, <2>15, <2>16 DEF Next, Tail, Payers
<1>3. QED
  BY <1>1, <1>2, TypesHold, PTL DEF Spec

\* A booking ends as unsupported at one of two guards, and its order is not
\* changed afterwards.
LEMMA UnsupportedHolds == Spec => []Unsupported
<1> USE BookingAssumption DEF Requests, Payers, Pc
<1>1. Init => Unsupported
  BY DEF Init, Unsupported
<1>2. TypeOK /\ Unsupported /\ [Next]_vars => Unsupported'
  <2> SUFFICES ASSUME TypeOK, Unsupported, [Next]_vars PROVE Unsupported'
    OBVIOUS
  <2> USE DEF TypeOK, Unsupported, Goto
  <2>1. ASSUME NEW b \in Bookings, NEW c \in CarriersOf[b], NEW rate \in Rates, Begin(b, c, rate)
        PROVE Unsupported'
    BY <2>1 DEF Begin, Order
  <2>2. ASSUME NEW b \in Bookings, CheckBalance(b) PROVE Unsupported'
    BY <2>2 DEF CheckBalance
  <2>3. ASSUME NEW b \in Bookings, NEW reply \in Reply, NEW price \in Prices, CarrierAnswers(b, reply, price)
        PROVE Unsupported'
    BY <2>3 DEF CarrierAnswers
  <2>4. ASSUME NEW b \in Bookings, Save(b) PROVE Unsupported'
    BY <2>4 DEF Save
  <2>5. ASSUME NEW r \in Payers, FindBalance(r) PROVE Unsupported'
    BY <2>5 DEF FindBalance, Refused
  <2>6. ASSUME NEW r \in Payers, CommitDeduction(r) PROVE Unsupported'
    BY <2>6 DEF CommitDeduction
  <2>7. ASSUME NEW b \in Bookings, DeductionFails(b) PROVE Unsupported'
    BY <2>7 DEF DeductionFails
  <2>8. ASSUME NEW b \in Bookings, SetPoll(b) PROVE Unsupported'
    BY <2>8 DEF SetPoll
  <2>9. ASSUME NEW x \in Cancels, BeginCancel(x) PROVE Unsupported'
    BY <2>9 DEF BeginCancel
  <2>10. ASSUME NEW x \in Cancels, NEW reply \in CancelReply, CarrierReleases(x, reply)
         PROVE Unsupported'
    BY <2>10 DEF CarrierReleases
  <2>11. ASSUME NEW x \in Cancels, MarkCancelled(x) PROVE Unsupported'
    BY <2>11 DEF MarkCancelled
  <2>12. ASSUME AddSurcharges PROVE Unsupported'
    BY <2>12 DEF AddSurcharges
  <2>13. ASSUME NEW p \in Payments, BeginPayment(p) PROVE Unsupported'
    BY <2>13 DEF BeginPayment
  <2>14. ASSUME NEW p \in Payments, FlagPaid(p) PROVE Unsupported'
    BY <2>14 DEF FlagPaid
  <2>15. ASSUME NEW r \in Requests, Interrupt(r) PROVE Unsupported'
    BY <2>15 DEF Interrupt
  <2>16. CASE UNCHANGED vars
    BY <2>16 DEF vars
  <2> HIDE DEF TypeOK, Unsupported, Goto
  <2>17. QED
    BY <2>1, <2>2, <2>3, <2>4, <2>5, <2>6, <2>7, <2>8, <2>9, <2>10, <2>11, <2>12,
       <2>13, <2>14, <2>15, <2>16 DEF Next, Tail, Payers
<1>3. QED
  BY <1>1, <1>2, TypesHold, PTL DEF Spec

----------------------------------------------------------------------------
\* Type correctness: in particular the wallet's balance stays a natural
\* number, because a deduction writes what it read less what that covered.
THEOREM TypeCorrect == Spec => []TypeOK
BY TypesHold, PTL

\* createShipment and payInvoice do nothing for a request that loads its row
\* after another one has succeeded, for any number of requests.
THEOREM DoneOnce == Spec => []NothingDoneTwice
<1>1. Doubles => NothingDoneTwice
  BY DEF Doubles
<1>2. QED
  BY <1>1, DoublesHold, PTL

\* The deduction after the carrier's answer finds too little only when the
\* carrier asks for more than its rate or another request was charged.
THEOREM ShortWhenOutpaced == Spec => []ShortOnlyWhenOutpaced
<1>1. TypeOK /\ Covered => ShortOnlyWhenOutpaced
  BY Costs DEF TypeOK, Covered, ShortOnlyWhenOutpaced, Cost, Estimate, Order
<1>2. QED
  BY <1>1, TypesHold, CoveredHolds, PTL

\* A booking is charged only for a pickup, or for an answer without a
\* reference that the service took for a success.
THEOREM ChargedForPickup == Spec => []ChargedOnlyForPickup
<1>1. Charges => ChargedOnlyForPickup
  BY DEF Charges
<1>2. QED
  BY <1>1, ChargesHold, PTL

\* No invoice is flagged as paid without a deduction of its amount.
THEOREM PaidMeansDeducted == Spec => []PaidWasDeducted
<1>1. Charges => PaidWasDeducted
  BY DEF Charges
<1>2. QED
  BY <1>1, ChargesHold, PTL

\* A cancellation reported as done released the pickup it named, TForce
\* apart, even when bookings and other cancellations run beside it.
THEOREM CancelledMeansReleased == Spec => []CancelledIsReleased
<1>1. Refs => CancelledIsReleased
  BY DEF Refs
<1>2. QED
  BY <1>1, ReferencesHold, PTL

\* Whatever carrier quotes a rate can be booked, but for Polaris: the guards
\* of createShipment and the filters of the rates request agree.
THEOREM OfferedMeansBookable == Spec => []OfferedIsBookable
<1>1. TypeOK /\ Unsupported => OfferedIsBookable
  BY DEF TypeOK, Unsupported, OfferedIsBookable, Order, Carrier, Bookable, TakesType,
         Offers, RateOutcomes, TForceRates, TForceMaps, Parcel
<1>2. QED
  BY <1>1, TypesHold, UnsupportedHolds, PTL

----------------------------------------------------------------------------
\* Bookings of the shipment run one at a time, and so do payments of its
\* invoice; what the rows say when a request begins is then still true when
\* it writes.  (Nothing in createShipment or payInvoice ensures it.)
InTurn ==
    /\ \A a, b \in Bookings : InFlight(a) /\ InFlight(b) => a = b
    /\ \A p, q \in Payments : InFlight(p) /\ InFlight(q) => p = q

\* One booking is charged for, one payment is taken, and the carrier comes
\* once: it comes again, or the wallet pays again, only after a request that
\* ended in an error before it could leave its mark.
TakenOnce ==
    /\ \A a, b \in Bookings : charged[a] > 0 /\ charged[b] > 0 => a = b
    /\ \A a, b \in Bookings :
          a # b /\ pickup[a] # "none" /\ pickup[b] # "none" =>
             \/ pc[a] \in {"told", "interrupted"} /\ charged[a] = 0
             \/ pc[b] \in {"told", "interrupted"} /\ charged[b] = 0
    /\ \A p, q \in Payments :
          p # q /\ charged[p] > 0 /\ charged[q] > 0 =>
             pc[p] = "interrupted" \/ pc[q] = "interrupted"

\* A booking finds the row free until it takes it, and from then on the row
\* names it.
BookingTurns ==
    \A b \in Bookings :
        /\ pc[b] \in {"check", "call", "flush"} => ~Processed /\ charged[b] = 0
        /\ pc[b] \in {"find", "deduct", "dirty", "poll", "done"} => Processed /\ shipment.by = b
        /\ charged[b] > 0 => Processed /\ shipment.by = b
        /\ pickup[b] # "none" => pc[b] \in Booked \cup {"flush", "told"}
        /\ pc[b] = "told" => charged[b] = 0

\* A payment finds the invoice open until it flags it, and has taken nothing
\* before its deduction.
PaymentTurns ==
    /\ \A p \in Payments :
          /\ pc[p] \in {"find", "deduct", "flag"} => invoice # "paid"
          /\ pc[p] \in {"find", "deduct"} => charged[p] = 0
          /\ charged[p] > 0 => invoice = "paid" \/ pc[p] \in {"flag", "interrupted"}
    /\ \A p, q \in Payments :
          p # q /\ charged[p] > 0 /\ charged[q] > 0 =>
             pc[p] = "interrupted" \/ pc[q] = "interrupted"

\* Bookings in turn keep the row that they found, or have taken.
LEMMA BookingsInTurn == Spec /\ []InTurn => []BookingTurns
<1> USE BookingAssumption DEF Requests, Payers, Pc
<1>1. Init => BookingTurns
  BY DEF Init, BookingTurns, NewShipment, Processed
<1>2. TypeOK /\ Refs /\ Charges /\ InTurn /\ BookingTurns /\ [Next]_vars => BookingTurns'
  <2> SUFFICES ASSUME TypeOK, Refs, Charges, InTurn, BookingTurns, [Next]_vars
               PROVE  BookingTurns'
    OBVIOUS
  <2> USE DEF TypeOK, Refs, Booked, Charges, BookingTurns, Processed, Goto, ShipmentRow
  <2>1. ASSUME NEW b \in Bookings, NEW c \in CarriersOf[b], NEW rate \in Rates, Begin(b, c, rate)
        PROVE BookingTurns'
    BY <2>1 DEF Begin
  <2>2. ASSUME NEW b \in Bookings, CheckBalance(b) PROVE BookingTurns'
    BY <2>2 DEF CheckBalance
  <2>3. ASSUME NEW b \in Bookings, NEW reply \in Reply, NEW price \in Prices, CarrierAnswers(b, reply, price)
        PROVE BookingTurns'
    <3>1. pc[b] = "call" /\ UNCHANGED <<shipment, charged>>
      BY <2>3, Answered
    <3>2. \E place \in {"flush", "told"} : pc' = [pc EXCEPT ![b] = place]
      BY <2>3, Answered
    <3>3. \E state \in {"live", "none"} : pickup' = [pickup EXCEPT ![b] = state]
      BY <2>3, Answered
    <3>4. QED
      BY <3>1, <3>2, <3>3
  <2>4. ASSUME NEW b \in Bookings, Save(b) PROVE BookingTurns'
    <3>1. /\ pc[b] = "flush" /\ UNCHANGED <<pickup, charged>>
          /\ shipment' = [shipment EXCEPT !.carrier = order[b].carrier, !.by = b]
      BY <2>4 DEF Save, Saved
    <3>2. \E place \in {"find", "poll"} : pc' = [pc EXCEPT ![b] = place]
      BY <2>4 DEF Save
    <3>3. shipment'.carrier # "none" /\ shipment'.by = b
      BY <3>1 DEF Order, Carrier
    <3>4. \A a \in Bookings \ {b} :
             /\ pc[a] \notin {"check", "call", "flush", "find", "deduct", "dirty", "poll", "done"}
             /\ charged[a] = 0
      BY <3>1 DEF InTurn, InFlight
    <3>5. QED
      BY <3>1, <3>2, <3>3, <3>4
  <2>5. ASSUME NEW r \in Payers, FindBalance(r) PROVE BookingTurns'
    BY <2>5 DEF FindBalance, Refused
  <2>6. ASSUME NEW r \in Payers, CommitDeduction(r) PROVE BookingTurns'
    BY <2>6 DEF CommitDeduction
  <2>7. ASSUME NEW b \in Bookings, DeductionFails(b) PROVE BookingTurns'
    BY <2>7 DEF DeductionFails
  <2>8. ASSUME NEW b \in Bookings, SetPoll(b) PROVE BookingTurns'
    BY <2>8 DEF SetPoll, Scheduled
  <2>9. ASSUME NEW x \in Cancels, BeginCancel(x) PROVE BookingTurns'
    BY <2>9 DEF BeginCancel
  <2>10. ASSUME NEW x \in Cancels, NEW reply \in CancelReply, CarrierReleases(x, reply)
        PROVE BookingTurns'
    BY <2>10 DEF CarrierReleases
  <2>11. ASSUME NEW x \in Cancels, MarkCancelled(x) PROVE BookingTurns'
    BY <2>11 DEF MarkCancelled
  <2>12. ASSUME AddSurcharges PROVE BookingTurns'
    BY <2>12 DEF AddSurcharges
  <2>13. ASSUME NEW p \in Payments, BeginPayment(p) PROVE BookingTurns'
    BY <2>13 DEF BeginPayment
  <2>14. ASSUME NEW p \in Payments, FlagPaid(p) PROVE BookingTurns'
    BY <2>14 DEF FlagPaid
  <2>15. ASSUME NEW r \in Requests, Interrupt(r) PROVE BookingTurns'
    BY <2>15 DEF Interrupt
  <2>16. CASE UNCHANGED vars
    BY <2>16 DEF vars
  <2> HIDE DEF TypeOK, Refs, Booked, Charges, BookingTurns, Processed, Goto, ShipmentRow
  <2>17. QED
    BY <2>1, <2>2, <2>3, <2>4, <2>5, <2>6, <2>7, <2>8, <2>9, <2>10, <2>11, <2>12,
       <2>13, <2>14, <2>15, <2>16 DEF Next, Tail, Payers
<1>3. QED
  BY <1>1, <1>2, TypesHold, ReferencesHold, ChargesHold, PTL DEF Spec

\* Payments in turn keep the invoice that they found.
LEMMA PaymentsInTurn == Spec /\ []InTurn => []PaymentTurns
<1> USE BookingAssumption DEF Requests, Payers, Pc
<1>1. Init => PaymentTurns
  BY DEF Init, PaymentTurns, NewShipment, Processed
<1>2. TypeOK /\ Charges /\ Doubles /\ InTurn /\ PaymentTurns /\ [Next]_vars => PaymentTurns'
  <2> SUFFICES ASSUME TypeOK, Charges, Doubles, InTurn, PaymentTurns, [Next]_vars
               PROVE  PaymentTurns'
    OBVIOUS
  <2> USE DEF TypeOK, Charges, Doubles, PaymentTurns, Goto
  <2>1. ASSUME NEW b \in Bookings, NEW c \in CarriersOf[b], NEW rate \in Rates, Begin(b, c, rate)
        PROVE PaymentTurns'
    BY <2>1 DEF Begin
  <2>2. ASSUME NEW b \in Bookings, CheckBalance(b) PROVE PaymentTurns'
    BY <2>2 DEF CheckBalance
  <2>3. ASSUME NEW b \in Bookings, NEW reply \in Reply, NEW price \in Prices, CarrierAnswers(b, reply, price)
        PROVE PaymentTurns'
    <3>1. pc[b] = "call" /\ UNCHANGED <<invoice, charged>>
      BY <2>3, Answered
    <3>2. \E place \in {"flush", "told"} : pc' = [pc EXCEPT ![b] = place]
      BY <2>3, Answered
    <3>3. QED
      BY <3>1, <3>2
  <2>4. ASSUME NEW b \in Bookings, Save(b) PROVE PaymentTurns'
    BY <2>4 DEF Save, Saved, Order, Carrier
  <2>5. ASSUME NEW r \in Payers, FindBalance(r) PROVE PaymentTurns'
    BY <2>5 DEF FindBalance, Refused
  <2>6. ASSUME NEW r \in Payers, CommitDeduction(r) PROVE PaymentTurns'
    BY <2>6 DEF CommitDeduction, InTurn, InFlight
  <2>7. ASSUME NEW b \in Bookings, DeductionFails(b) PROVE PaymentTurns'
    BY <2>7 DEF DeductionFails
  <2>8. ASSUME NEW b \in Bookings, SetPoll(b) PROVE PaymentTurns'
    BY <2>8 DEF SetPoll, Scheduled
  <2>9. ASSUME NEW x \in Cancels, BeginCancel(x) PROVE PaymentTurns'
    BY <2>9 DEF BeginCancel
  <2>10. ASSUME NEW x \in Cancels, NEW reply \in CancelReply, CarrierReleases(x, reply)
        PROVE PaymentTurns'
    BY <2>10 DEF CarrierReleases
  <2>11. ASSUME NEW x \in Cancels, MarkCancelled(x) PROVE PaymentTurns'
    BY <2>11 DEF MarkCancelled
  <2>12. ASSUME AddSurcharges PROVE PaymentTurns'
    BY <2>12 DEF AddSurcharges
  <2>13. ASSUME NEW p \in Payments, BeginPayment(p) PROVE PaymentTurns'
    BY <2>13 DEF BeginPayment
  <2>14. ASSUME NEW p \in Payments, FlagPaid(p) PROVE PaymentTurns'
    BY <2>14 DEF FlagPaid, InTurn, InFlight
  <2>15. ASSUME NEW r \in Requests, Interrupt(r) PROVE PaymentTurns'
    BY <2>15 DEF Interrupt
  <2>16. CASE UNCHANGED vars
    BY <2>16 DEF vars
  <2> HIDE DEF TypeOK, Charges, Doubles, PaymentTurns, Goto
  <2>17. QED
    BY <2>1, <2>2, <2>3, <2>4, <2>5, <2>6, <2>7, <2>8, <2>9, <2>10, <2>11, <2>12,
       <2>13, <2>14, <2>15, <2>16 DEF Next, Tail, Payers
<1>3. QED
  BY <1>1, <1>2, TypesHold, ChargesHold, DoublesHold, PTL DEF Spec

\* Without overlapping requests a shipment is booked and paid for once, and
\* its invoice is paid once: the marks that createShipment and payInvoice
\* look for before they begin are then enough.
THEOREM InTurnTakenOnce == Spec /\ []InTurn => []TakenOnce
<1>1. TypeOK /\ InTurn /\ BookingTurns /\ PaymentTurns => TakenOnce
  <2> SUFFICES ASSUME TypeOK, InTurn, BookingTurns, PaymentTurns PROVE TakenOnce
    OBVIOUS
  <2>1. \A a, b \in Bookings : charged[a] > 0 /\ charged[b] > 0 => a = b
    BY DEF BookingTurns
  <2>2. ASSUME NEW b \in Bookings, pickup[b] # "none"
        PROVE  \/ InFlight(b) /\ ~Processed
               \/ Processed /\ shipment.by = b
               \/ pc[b] \in {"told", "interrupted"} /\ charged[b] = 0
    <3>1. charged[b] \in Nat
      BY DEF TypeOK, Payers
    <3>2. pc[b] \in Booked \cup {"flush", "told"}
      BY <2>2 DEF BookingTurns
    <3>3. QED
      BY <3>1, <3>2 DEF BookingTurns, Booked, InFlight
  <2>3. ASSUME NEW a \in Bookings, NEW b \in Bookings, a # b,
               pickup[a] # "none", pickup[b] # "none"
        PROVE  \/ pc[a] \in {"told", "interrupted"} /\ charged[a] = 0
               \/ pc[b] \in {"told", "interrupted"} /\ charged[b] = 0
    <3>1. ~(InFlight(a) /\ InFlight(b))
      BY <2>3 DEF InTurn
    <3>2. QED
      BY <2>2, <2>3, <3>1
  <2>4. QED
    BY <2>1, <2>3 DEF TakenOnce, PaymentTurns
<1>2. QED
  BY <1>1, TypesHold, BookingsInTurn, PaymentsInTurn, PTL
=============================================================================
