----------------------------- MODULE MCBooking -----------------------------
(* A small instance of Booking: two bookings of one shipment, one          *)
(* cancellation and two payments of its invoice, three requests at a time.  *)
EXTENDS Booking

CONSTANTS b1, b2, x1, p1, p2

MCBookings == {b1, b2}
MCCancels == {x1}
MCPayments == {p1, p2}
MCCarriersOf == [b \in MCBookings |-> IF b = b1 THEN Carrier ELSE {"FEDEX", "TFORCE"}]
MCTypes == {"PACKAGE", "STANDARD_FTL"}
MCRates == {1}
MCPrices == {0, 2}
MCFunds == {1, 2, 4}
MCTogether == {{b1, b2, x1}, {b1, p1, p2}}
=============================================================================
