------------------------------ MODULE Carriers ------------------------------
(***************************************************************************)
(* What the six carrier adapters make of a request for rates, a booking    *)
(* and a cancellation.  No state: Booking.tla walks through it.            *)
(*                                                                         *)
(* Payloads, addresses and documents are left out; what is kept is which   *)
(* shipments an adapter has a request for, what it reads out of an answer, *)
(* which answers the code takes for a success, and where the price of a    *)
(* booked shipment comes from.                                             *)
(***************************************************************************)
EXTENDS Integers

Carrier == {"FEDEX", "TST", "TFORCE", "XPO", "MINIMAX", "POLARIS"}

\* The shipment types of a standard quote, the only quote that is shipped.
ShipmentType == {"PACKAGE", "PALLET", "COURIER_PAK", "STANDARD_FTL"}

----------------------------------------------------------------------------
(* Rates.  "rate": a rate with a price; "free": a rate whose price is      *)
(* missing and counts as nothing; "unpriced": an object whose price is     *)
(* NaN; "none": null; "error": this carrier's error alone.  The rates      *)
(* endpoint knows a courier pak as COURIER.                                *)

\* Of the carriers that are asked, any may fail to answer.
Asked(read) == {"error"} \cup read

Parcel(t) == t \in {"PACKAGE", "COURIER_PAK"}

\* Parcels go to one mapper and pallets to the other; freight is not asked
\* for with the US account.
FedexMaps(t) == t # "STANDARD_FTL"

\* No details are no rates; the first of account and list price counts.
FedexReads == {"rate", "free", "unpriced"}

\* Only FEDEX_GROUND is kept, and its absence is not noticed.
FedexRates(t) == IF FedexMaps(t) THEN Asked(FedexReads) ELSE {"error"}

\* Everything is a pallet, which needs its three dimensions.
TstMaps(t) == t # "STANDARD_FTL"

\* A total that cannot be read is 0.
TstReads == {"rate", "free"}

TstRates(t) == IF TstMaps(t) THEN Asked(TstReads) ELSE {"error"}

\* Parcels are not asked for.  A full truckload goes to volume rating, which
\* refuses less than 8 feet, and anything else to LTL rating.
TForceMaps(t) == ~Parcel(t)

\* The first of the details, if there is one.
TForceReads == {"rate", "free", "unpriced"}

TForceRates(t) == IF TForceMaps(t) THEN Asked(TForceReads) ELSE {"none"}

\* The service presents every shipment as pallets, so the mapper for
\* packages is never used.
XpoMaps(t) == TRUE

XpoReads == {"rate", "free", "unpriced"}

XpoRates(t) == IF XpoMaps(t) THEN Asked(XpoReads) ELSE {"error"}

MinimaxMaps(t) == ~Parcel(t)

\* A total of 0 is no rate.
MinimaxReads == {"rate", "none"}

MinimaxRates(t) == IF MinimaxMaps(t) THEN Asked(MinimaxReads) ELSE {"none"}

\* Within limits of skids, weight and length.
PolarisMaps(t) == ~Parcel(t)

PolarisReads == {"rate", "none"}

\* Cross-border only, which is looked at first.
PolarisRates(t, crossBorder) ==
    IF ~crossBorder THEN {"error"}
    ELSE IF PolarisMaps(t) THEN Asked(PolarisReads) ELSE {"none"}

\* getShipmentCarriersRates and its stream ask all six at once and catch
\* each carrier's failure on its own.
RateOutcomes(c, t, crossBorder) ==
    CASE c = "FEDEX" -> FedexRates(t)
      [] c = "TST" -> TstRates(t)
      [] c = "TFORCE" -> TForceRates(t)
      [] c = "XPO" -> XpoRates(t)
      [] c = "MINIMAX" -> MinimaxRates(t)
      [] c = "POLARIS" -> PolarisRates(t, crossBorder)

Offers(c, t) == \E x \in BOOLEAN : "rate" \in RateOutcomes(c, t, x)

----------------------------------------------------------------------------
(* Booking: what becomes of the adapter's createShipment.                  *)
(*   "refused"  the adapter's own checks, no token, or an error answer     *)
(*   "lost"     the carrier took the shipment, its answer did not arrive   *)
(*   "booked"   a reference, and a price where the carrier names one       *)
(*   "unrated"  taken, but without a rating, or in an unreadable answer    *)
(*   "unnamed"  a good answer without a reference, whatever happened       *)

Reply == {"refused", "lost", "booked", "unrated", "unnamed"}

Always == {"refused", "lost", "booked"}

\* The answer is passed on as it is, and may hold no rating.
FedexAnswers == Always \cup {"unrated"}

\* An answer whose root is unknown passes for one without an error code.
TstAnswers == Always \cup {"unnamed"}

\* Countries and weights are checked first; a BOL that asks for manual
\* rating, and one without any detail, are passed on.
TForceAnswers == Always \cup {"unrated", "unnamed"}

\* Addresses and the date are checked first; from then on every failure of
\* the bill of lading is swallowed, and so are those of its documents.
XpoAnswers == Always \cup {"unrated", "unnamed"}

\* Anything but success = yes throws; the PRO number may be empty.
MinimaxAnswers == Always \cup {"unnamed"}

Answers(c) ==
    CASE c = "FEDEX" -> FedexAnswers
      [] c = "TST" -> TstAnswers
      [] c = "TFORCE" -> TForceAnswers
      [] c = "XPO" -> XpoAnswers
      [] c = "MINIMAX" -> MinimaxAnswers

\* The carriers createShipment knows.
Bookable == {"FEDEX", "TST", "TFORCE", "XPO", "MINIMAX"}

\* A bug that lets TForce ship pallets only.
TakesTypeMutant(c, t) == ~(c = "TFORCE" /\ t # "PALLET")

\* shipmentType is compared with COURIER, which no quote has.
TakesType(c, t) == ~(c = "TFORCE" /\ t = "PACKAGE")

\* shipmentRating.surcharges throws when there is no rating.
FedexBooks(reply) == reply = "booked"

\* A missing PRO number is not noticed.
TstBooks(reply) == reply \in {"booked", "unnamed"}

\* Any status but 200 throws, with or without a bill of lading; a missing
\* one is not noticed.
TForceBooks(reply) == reply \in {"booked", "unnamed"}

\* A bug that does not miss the id either.
XpoBooksMutant(reply) == TRUE

\* The service misses the id that the adapter did not.
XpoBooks(reply) == reply = "booked"

MinimaxBooks(reply) == reply = "booked"

Books(c, reply) ==
    CASE c = "FEDEX" -> FedexBooks(reply)
      [] c = "TST" -> TstBooks(reply)
      [] c = "TFORCE" -> TForceBooks(reply)
      [] c = "XPO" -> XpoBooks(reply)
      [] c = "MINIMAX" -> MinimaxBooks(reply)

\* Whether the carrier may come for the freight after such an answer.
MayComeAfter(reply) ==
    CASE reply = "refused" -> {FALSE}
      [] reply = "unnamed" -> {TRUE, FALSE}
      [] OTHER -> {TRUE}

\* totalNetCharge: the carrier's own figure, or the rate of the request.
Charge(c, rate, carrierPrice) ==
    IF c \in {"XPO", "MINIMAX"} \/ (c = "TST" /\ carrierPrice = 0) THEN rate ELSE carrierPrice

----------------------------------------------------------------------------
(* Cancelling.  "declined": TForce answers 200 with success FALSE.         *)

CancelReply == {"released", "refused", "lost", "declined"}

Cancellable == {"XPO", "TFORCE", "FEDEX"}

FedexCancels == {"released", "refused", "lost"}
XpoCancels == {"released", "refused", "lost"}
TForceCancels == {"released", "refused", "lost", "declined"}

CancelReplies(c) ==
    CASE c = "FEDEX" -> FedexCancels
      [] c = "XPO" -> XpoCancels
      [] c = "TFORCE" -> TForceCancels

\* A bug that takes an error answer of the carrier for a success.
TakenForCancelledMutant(reply) == reply # "lost"

\* Only an exception stops cancelShipment: the success flag is not read.
TakenForCancelled(reply) == reply \in {"released", "declined"}
=============================================================================
