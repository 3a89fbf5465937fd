------------------------------ MODULE Booking ------------------------------
(***************************************************************************)
(* Booking one shipment: createShipment and cancelShipment of the carrier  *)
(* service, the invoice that later surcharges put on it, and its payment,  *)
(* by overlapping HTTP requests over one shipment row and one wallet.      *)
(*                                                                         *)
(* The quote is converted already (Quotes.tla) and the job that tracks the *)
(* shipment starts where this module ends (Tracking.tla).  A handler is    *)
(* cut at its awaits; a flush is one step and writes absolute values.      *)
(***************************************************************************)
EXTENDS Carriers

CONSTANTS
    Bookings,       \* requests that run createShipment
    Cancels,        \* requests that run cancelShipment
    Payments,       \* requests that run payInvoice
    CarriersOf,     \* the carriers each booking may name
    Types,          \* the shipment types of the quote
    Rates,          \* selectedRate.totalCharge, as the request states it
    Prices,         \* what a carrier may charge in the end
    LtlFee, FtlFee, \* the company's own rates per shipment
    InvoiceAmount,  \* the surcharges of the invoice
    Funds,          \* balances the wallet may start with
    Together,       \* bound: the sets of requests that arrive in one behaviour
    MaxFaults       \* bound on interruptions and failed deductions

ASSUME BookingAssumption ==
    /\ Bookings \cap Payments = {}
    /\ Bookings \cap Cancels = {}
    /\ Cancels \cap Payments = {}
    /\ CarriersOf \in [Bookings -> SUBSET Carrier]
    /\ Types \subseteq ShipmentType
    /\ Rates \subseteq Nat
    /\ Prices \subseteq Nat
    /\ LtlFee \in Nat
    /\ FtlFee \in Nat
    /\ InvoiceAmount \in Nat \ {0}
    /\ Funds \subseteq Nat
    /\ Together \subseteq SUBSET (Bookings \cup Cancels \cup Payments)
    /\ MaxFaults \in Nat

VARIABLES
    type,           \* the quote's shipment type
    shipment,       \* the shipment row
    invoice,        \* the invoice row
    balance,        \* the wallet row's balance
    pc,             \* pc[r]: where the handler of request r stands
    order,          \* order[b]: what booking b asks for and is answered
    pickup,         \* pickup[b]: what the carrier will do for booking b
    seen,           \* seen[r]: the balance r last read
    charged,        \* charged[r]: what r deducted from the wallet
    target,         \* target[x]: the booking whose reference x cancels by
    after,          \* history: requests of its kind done when r loaded its row
    faults          \* bound: faults left to happen

vars == <<type, shipment, invoice, balance, pc, order, pickup, seen, charged, target, after, faults>>

Requests == Bookings \cup Cancels \cup Payments
Payers == Bookings \cup Payments

\* by: the booking whose references the row holds
ShipmentRow == [carrier : Carrier \cup {"none"}, by : Bookings \cup {"none"},
                cancelled : BOOLEAN, poll : BOOLEAN]

InvoiceStatus == {"none", "open", "paid"}

\* charge, reply: totalNetCharge and the answer, once taken for a success
Order == [carrier : Carrier, rate : Nat, charge : Nat, reply : Reply \cup {"none"}]

NoOrder == [carrier |-> "FEDEX", rate |-> 0, charge |-> 0, reply |-> "none"]

Pickup == {"none", "live", "released"}

\* "told": ended with an error the caller sees
Pc == {"absent", "idle", "check", "call", "flush", "find", "deduct", "dirty", "poll",
       "release", "mark", "flag", "unsupported", "told", "done", "interrupted"}

InFlight(r) == pc[r] \notin {"absent", "idle", "unsupported", "told", "done", "interrupted"}

TypeOK ==
    /\ type \in ShipmentType
    /\ shipment \in ShipmentRow
    /\ invoice \in InvoiceStatus
    /\ balance \in Nat
    /\ pc \in [Requests -> Pc]
    /\ order \in [Bookings -> Order]
    /\ pickup \in [Bookings -> Pickup]
    /\ seen \in [Payers -> Nat]
    /\ charged \in [Payers -> Nat]
    /\ target \in [Cancels -> Bookings \cup {"none"}]
    /\ after \in [Payers -> SUBSET Payers]
    /\ faults \in Nat

\* The row as ShipmentService.create leaves it.
NewShipment == [carrier |-> "none", by |-> "none", cancelled |-> FALSE, poll |-> FALSE]

Init ==
    /\ type \in Types
    /\ shipment = NewShipment
    /\ invoice = "none"
    /\ balance \in Funds
    /\ \E arriving \in Together :
          pc = [r \in Requests |-> IF r \in arriving THEN "idle" ELSE "absent"]
    /\ order = [b \in Bookings |-> NoOrder]
    /\ pickup = [b \in Bookings |-> "none"]
    /\ seen = [r \in Payers |-> 0]
    /\ charged = [r \in Payers |-> 0]
    /\ target = [x \in Cancels |-> "none"]
    /\ after = [r \in Payers |-> {}]
    /\ faults = MaxFaults

Goto(r, label) == pc' = [pc EXCEPT ![r] = label]

Done(kind) == {r \in kind : pc[r] = "done"}

----------------------------------------------------------------------------
(* createShipment, up to the call to the carrier                           *)

Processed == shipment.carrier # "none"

\* The guards on the carrier and on the quote just loaded.
Begin(b, c, rate) ==
    /\ pc[b] = "idle"
    /\ order' = [order EXCEPT ![b].carrier = c, ![b].rate = rate]
    /\ after' = [after EXCEPT ![b] = Done(Bookings)]
    /\ Goto(b, IF c \notin Bookable THEN "unsupported"
               ELSE IF Processed THEN "told"
               ELSE IF ~TakesType(c, type) THEN "unsupported" ELSE "check")
    /\ UNCHANGED <<type, shipment, invoice, balance, pickup, seen, charged, target, faults>>

\* companyBasedRates: packages and pallets go by the LTL rate.
Fee == IF type \in {"PACKAGE", "PALLET"} THEN LtlFee ELSE FtlFee

\* A bug that checks the carrier's part alone.
EstimateMutant(b) == order[b].rate

Estimate(b) == order[b].rate + Fee

CheckBalance(b) ==
    /\ pc[b] = "check"
    /\ Goto(b, IF balance < Estimate(b) THEN "told" ELSE "call")
    /\ UNCHANGED <<type, shipment, invoice, balance, order, pickup, seen, charged, target, after, faults>>

----------------------------------------------------------------------------
(* The carrier                                                             *)

\* It takes the shipment or not, and names its price; the adapter and the
\* service decide what the answer means.  Labels are saved before the flush.
CarrierAnswers(b, reply, price) ==
    /\ pc[b] = "call"
    /\ reply \in Answers(order[b].carrier)
    /\ \E comes \in MayComeAfter(reply) :
          pickup' = [pickup EXCEPT ![b] = IF comes THEN "live" ELSE "none"]
    /\ IF Books(order[b].carrier, reply)
          THEN /\ order' = [order EXCEPT ![b].reply = reply,
                       ![b].charge = Charge(order[b].carrier, order[b].rate, price)]
               /\ Goto(b, "flush")
          ELSE Goto(b, "told") /\ UNCHANGED order
    /\ UNCHANGED <<type, shipment, invoice, balance, seen, charged, target, after, faults>>

----------------------------------------------------------------------------
(* createShipment, after the call                                          *)

Cost(b) == order[b].charge + Fee

\* A bug that leaves the carrier to the tracking job.
SavedMutant(b) == [shipment EXCEPT !.by = b]

Saved(b) == [shipment EXCEPT !.carrier = order[b].carrier, !.by = b]

\* The first flush; nothing is deducted for a charge of 0, not even the fee.
Save(b) ==
    /\ pc[b] = "flush"
    /\ shipment' = Saved(b)
    /\ Goto(b, IF order[b].charge > 0 THEN "find" ELSE "poll")
    /\ UNCHANGED <<type, invoice, balance, order, pickup, seen, charged, target, after, faults>>

\* deductFromWallet, called from createShipment and from payInvoice.
Amount(r) == IF r \in Bookings THEN Cost(r) ELSE InvoiceAmount

\* A bug that passes over a refused deduction in a payment, too.
RefusedMutant(r) == IF r \in Bookings THEN "poll" ELSE "flag"

\* A refused deduction is logged and passed over by a booking; a payment
\* ends with it.
Refused(r) == IF r \in Bookings THEN "poll" ELSE "told"

FindBalance(r) ==
    /\ pc[r] = "find"
    /\ seen' = [seen EXCEPT ![r] = balance]
    /\ Goto(r, IF balance < Amount(r) THEN Refused(r) ELSE "deduct")
    /\ UNCHANGED <<type, shipment, invoice, balance, order, pickup, charged, target, after, faults>>

\* A bug that subtracts from the stored balance without checking it again.
DebitMutant(r) == balance - Amount(r)

\* The new balance is absolute: what was read less the amount.
Debit(r) == seen[r] - Amount(r)

CommitDeduction(r) ==
    /\ pc[r] = "deduct"
    /\ balance' = Debit(r)
    /\ charged' = [charged EXCEPT ![r] = Amount(r)]
    /\ Goto(r, IF r \in Bookings THEN "poll" ELSE "flag")
    /\ UNCHANGED <<type, shipment, invoice, order, pickup, seen, target, after, faults>>

\* The wallet cannot be read or written.  A booking goes on; when it was the
\* write, its copy of the wallet stays changed.
DeductionFails(b) ==
    /\ pc[b] \in {"find", "deduct"}
    /\ faults > 0
    /\ faults' = faults - 1
    /\ Goto(b, IF pc[b] = "find" THEN "poll" ELSE "dirty")
    /\ UNCHANGED <<type, shipment, invoice, balance, order, pickup, seen, charged, target, after>>

\* A bug that schedules only what was paid for.
ScheduledMutant(b) == [shipment EXCEPT !.poll = charged[b] > 0]

Scheduled(b) == [shipment EXCEPT !.poll = TRUE]

\* The second flush, after the job is queued; it also writes a changed copy
\* of the wallet an earlier flush failed to write.
SetPoll(b) ==
    /\ pc[b] \in {"poll", "dirty"}
    /\ shipment' = Scheduled(b)
    /\ IF pc[b] = "dirty"
          THEN /\ balance' = Debit(b)
               /\ charged' = [charged EXCEPT ![b] = Cost(b)]
          ELSE UNCHANGED <<balance, charged>>
    /\ Goto(b, "done")
    /\ UNCHANGED <<type, invoice, order, pickup, seen, target, after, faults>>

----------------------------------------------------------------------------
(* cancelShipment                                                          *)

\* A shipment that is cancelled already is answered at once.
BeginCancel(x) ==
    /\ pc[x] = "idle"
    /\ target' = [target EXCEPT ![x] = IF shipment.cancelled THEN "none" ELSE shipment.by]
    /\ Goto(x, IF Processed /\ ~shipment.cancelled /\ shipment.carrier \in Cancellable
               THEN "release" ELSE "told")
    /\ UNCHANGED <<type, shipment, invoice, balance, order, pickup, seen, charged, after, faults>>

CarrierReleases(x, reply) ==
    /\ pc[x] = "release"
    /\ reply \in CancelReplies(order[target[x]].carrier)
    /\ pickup' = [pickup EXCEPT ![target[x]] =
                     IF reply \in {"released", "lost"} THEN "released" ELSE @]
    /\ Goto(x, IF TakenForCancelled(reply) THEN "mark" ELSE "told")
    /\ UNCHANGED <<type, shipment, invoice, balance, order, seen, charged, target, after, faults>>

\* Nothing is paid back.
MarkCancelled(x) ==
    /\ pc[x] = "mark"
    /\ shipment' = [shipment EXCEPT !.cancelled = TRUE]
    /\ Goto(x, "done")
    /\ UNCHANGED <<type, invoice, balance, order, pickup, seen, charged, target, after, faults>>

----------------------------------------------------------------------------
(* Surcharges and their invoice                                            *)

\* SurchargeService.create: an administrator invoices a booked shipment.
AddSurcharges ==
    /\ Processed
    /\ invoice = "none"
    /\ invoice' = "open"
    /\ UNCHANGED <<type, shipment, balance, pc, order, pickup, seen, charged, target, after, faults>>

BeginPayment(p) ==
    /\ pc[p] = "idle"
    /\ invoice # "none"
    /\ after' = [after EXCEPT ![p] = Done(Payments)]
    /\ Goto(p, IF invoice = "paid" THEN "told" ELSE "find")
    /\ UNCHANGED <<type, shipment, invoice, balance, order, pickup, seen, charged, target, faults>>

FlagPaid(p) ==
    /\ pc[p] = "flag"
    /\ invoice' = "paid"
    /\ Goto(p, "done")
    /\ UNCHANGED <<type, shipment, balance, order, pickup, seen, charged, target, after, faults>>

----------------------------------------------------------------------------
\* The process dies, a file cannot be saved, a statement is refused, or a
\* call to a carrier never ends: no adapter sets a timeout.
Interrupt(r) ==
    /\ InFlight(r)
    /\ faults > 0
    /\ faults' = faults - 1
    /\ Goto(r, "interrupted")
    /\ UNCHANGED <<type, shipment, invoice, balance, order, pickup, seen, charged, target, after>>

\* Between the answer of the carrier and the answer to the caller.
Tail(b) ==
    \/ Save(b) \/ FindBalance(b) \/ CommitDeduction(b) \/ DeductionFails(b) \/ SetPoll(b)

Next ==
    \/ \E b \in Bookings :
          \/ \E c \in CarriersOf[b], rate \in Rates : Begin(b, c, rate)
          \/ CheckBalance(b)
          \/ \E reply \in Reply, price \in Prices : CarrierAnswers(b, reply, price)
          \/ Tail(b)
    \/ \E x \in Cancels :
          \/ BeginCancel(x)
          \/ \E reply \in CancelReply : CarrierReleases(x, reply)
          \/ MarkCancelled(x)
    \/ AddSurcharges
    \/ \E p \in Payments : BeginPayment(p) \/ FindBalance(p) \/ CommitDeduction(p) \/ FlagPaid(p)
    \/ \E r \in Requests : Interrupt(r)

Spec == Init /\ [][Next]_vars

\* The event loop runs the continuations of a booking; nothing makes a
\* request start or a carrier answer.
FairSpec == Spec /\ \A b \in Bookings : WF_vars(Tail(b))

----------------------------------------------------------------------------
(* Properties                                                              *)

\* What "Shipment already processed" and "Invoice has already been paid" are
\* worth: a request that loads its row after another has succeeded orders no
\* pickup and takes no money.  Only requests that overlap do it twice.
NothingDoneTwice ==
    \A r \in Payers :
        after[r] # {} => /\ charged[r] = 0
                         /\ r \in Bookings => pickup[r] = "none"

\* A booking that finds too little money after the carrier has accepted was
\* outpaced: the carrier charges more than its rate, or another request has
\* been at the wallet since the check (createShipment, 119 to 127 and 470).
ShortOnlyWhenOutpaced ==
    \A b \in Bookings :
        pc[b] = "find" /\ balance < Cost(b) =>
            \/ order[b].charge > order[b].rate
            \/ \E r \in Payers \ {b} : charged[r] > 0

\* Money is taken for a booking only when the carrier may come for it: it
\* accepted, or answered without a reference and the code took that for a yes.
ChargedOnlyForPickup ==
    \A b \in Bookings :
        charged[b] > 0 => pickup[b] # "none" \/ order[b].reply = "unnamed"

\* An invoice is marked as paid only when its amount has been deducted.
PaidWasDeducted ==
    invoice = "paid" => \E p \in Payments : charged[p] = InvoiceAmount

\* A cancellation that is answered with success has released the pickup it
\* named, unless TForce declined and nobody looked (cancelShipment, 914).
CancelledIsReleased ==
    \A x \in Cancels :
        pc[x] = "done" => \/ pickup[target[x]] = "released"
                          \/ order[target[x]].carrier = "TFORCE"

\* Of the carriers that quote a rate for a shipment only Polaris can then
\* not be booked.
OfferedIsBookable ==
    \A b \in Bookings :
        pc[b] = "unsupported" /\ Offers(order[b].carrier, type) => order[b].carrier = "POLARIS"

\* A booked shipment is handed to the tracking scheduler in the end, unless
\* a booking is cut short before its last flush.
ScheduledInTheEnd ==
    shipment.carrier # "none" ~>
        shipment.poll \/ \E b \in Bookings : pc[b] = "interrupted"
=============================================================================
