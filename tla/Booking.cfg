\* Two bookings of one shipment overlap with its cancellation and with two
\* payments of its invoice.
SPECIFICATION FairSpec
CONSTANTS
    b1 = b1
    b2 = b2
    x1 = x1
    p1 = p1
    p2 = p2
    Bookings <- MCBookings
    Cancels <- MCCancels
    Payments <- MCPayments
    CarriersOf <- MCCarriersOf
    Types <- MCTypes
    Rates <- MCRates
    Prices <- MCPrices
    LtlFee = 1
    FtlFee = 1
    InvoiceAmount = 1
    Funds <- MCFunds
    Together <- MCTogether
    MaxFaults = 1
INVARIANTS
    TypeOK
    NothingDoneTwice
    ShortOnlyWhenOutpaced
    ChargedOnlyForPickup
    PaidWasDeducted
    CancelledIsReleased
    OfferedIsBookable
PROPERTIES
    ScheduledInTheEnd
CHECK_DEADLOCK FALSE
