----------------------------- MODULE QuoteRules -----------------------------
(***************************************************************************)
(* What the quote factories and validators take of a request: which parts  *)
(* a quote of each kind must have, which they store, which they drop, and  *)
(* which make them fail.  No state: Quotes.tla walks through it.  Of the   *)
(* contents of a part only what some check looks at is kept.               *)
(***************************************************************************)

\* Standard shipment types, then spot ones.
StandardKind == {"PACKAGE", "PALLET", "COURIER_PAK", "STANDARD_FTL"}

SpotKind == {"SPOT_LTL", "SPOT_FTL", "TIME_CRITICAL"}

Kind == StandardKind \cup SpotKind

Ends == {"FROM", "TO"}

Part == Ends \cup {"lineItem", "services", "insurance", "signature", "spotDetails"}

\* How a request states an address: an address book entry, a new contact,
\* plain lines, or changes to the entry in use.
How == {"book", "new", "own", "patch"}

Status == {"DRAFT", "SAVED", "ARCHIVED", "SUBMITTED", "CONVERTED_TO_SHIPMENT"}

\* What may be odd about the contents: a new unit lacks a field, limited
\* access names no known place, a service is described by an object, the
\* insured amount is negative, spot details are incomplete, or their
\* equipment is a car, a truck or a van.
Odd == {"lineItem", "services", "serviceDetails", "insurance", "spotDetails", "roadVehicle"}

\* VALID_STATUS_TRANSITIONS.
Transitions(status) ==
    IF status \in {"DRAFT", "SAVED"} THEN {"CONVERTED_TO_SHIPMENT"} ELSE {}

----------------------------------------------------------------------------
(* Creation                                                                *)

\* What validate() demands; a full truckload has no line item.
Required(k) ==
    Ends \cup (IF k = "STANDARD_FTL" THEN {} ELSE {"lineItem"})
         \cup (IF k \in SpotKind THEN {"spotDetails"} ELSE {})

PackageParts == {"lineItem", "insurance", "signature"}
PalletParts == {"lineItem", "insurance", "services"}
CourierPakParts == {"lineItem", "signature"}
StandardFtlParts == {"insurance", "services"}
\* A bug that forgets the line item.
SpotLtlPartsMutant == {"insurance", "services", "spotDetails"}

SpotLtlParts == {"lineItem", "insurance", "services", "spotDetails"}
SpotFtlParts == {"lineItem", "insurance", "services", "spotDetails"}
TimeCriticalParts == {"lineItem", "insurance", "spotDetails"}

\* What build() makes rows of; the rest of a request is dropped.
Built(k, parts) ==
    Ends \cup (parts \cap
        CASE k = "PACKAGE" -> PackageParts
          [] k = "PALLET" -> PalletParts
          [] k = "COURIER_PAK" -> CourierPakParts
          [] k = "STANDARD_FTL" -> StandardFtlParts
          [] k = "SPOT_LTL" -> SpotLtlParts
          [] k = "SPOT_FTL" -> SpotFtlParts
          [] k = "TIME_CRITICAL" -> TimeCriticalParts)

\* The checks of the contents.  A signature has none.
UnitsRefused(odd) == "lineItem" \in odd
ServicesRefused(odd) == "services" \in odd
InsuranceRefused(odd) == "insurance" \in odd

\* The equipment of a time critical quote may be a car, but no case is for it.
SpotDetailsRefused(odd) == odd \cap {"spotDetails", "roadVehicle"} # {}

\* validate(); no service is known to a spot truckload, and so none is checked.
CreateRefuses(k, parts, odd) ==
    LET built == Built(k, parts) IN
    \/ ~(Required(k) \subseteq parts)
    \/ "lineItem" \in built /\ UnitsRefused(odd)
    \/ "services" \in built /\ k # "SPOT_FTL" /\ ServicesRefused(odd)
    \/ "insurance" \in built /\ InsuranceRefused(odd)
    \/ "spotDetails" \in built /\ SpotDetailsRefused(odd)

\* buildServices flushes on its own, before spot details are built.
SavesEarly(k, parts) == "services" \in Built(k, parts)

\* An address is a book entry when it names one or when a shipment is made;
\* a full truckload has forgotten by then that it is a shipment.
InBook(k, how, forShipment) == how = "book" \/ (forShipment /\ k # "STANDARD_FTL")

----------------------------------------------------------------------------
(* QuoteService.update                                                     *)

\* UPDATE_WHITELIST, without status and knownShipper.
Whitelist(k) ==
    Ends \cup
        CASE k = "PACKAGE" -> {"lineItem", "signature", "services", "insurance"}
          [] k = "PALLET" -> {"lineItem", "services", "insurance"}
          [] k = "COURIER_PAK" -> {"lineItem", "signature"}
          [] k = "STANDARD_FTL" -> {"insurance", "services"}
          [] k = "SPOT_LTL" -> {"spotDetails", "services"}
          [] OTHER -> {"spotDetails"}

\* A package keeps no services, whatever the whitelist lets through.
UpdateStores(k, parts) ==
    (parts \cap Whitelist(k)) \ (IF k = "PACKAGE" THEN {"services"} ELSE {})

\* A car will do for spot details that are edited.
NewSpotDetailsRefused(odd) == "spotDetails" \in odd

\* validateUpdateQuote lets services and insurance pass, and of a line item
\* it refuses fields a type has not, never their absence.
UpdateRefuses(k, parts, odd) ==
    "spotDetails" \in parts \cap Whitelist(k) /\ NewSpotDetailsRefused(odd)

----------------------------------------------------------------------------
(* The update factories, as a conversion and a shipment update use them.   *)

\* A conversion is sent lineItem, which only the courier pak's handler
\* reads; a shipment update may use the name the others read.
PackageStores(converting) == {"insurance"} \cup (IF converting THEN {} ELSE {"lineItem"})
PalletStores(converting) == {"insurance", "services"} \cup (IF converting THEN {} ELSE {"lineItem"})
CourierPakStores == {"lineItem"}
StandardFtlStores == {"services"}

HandlerStores(k, converting, parts) ==
    parts \cap (Ends \cup
        CASE k = "PACKAGE" -> PackageStores(converting)
          [] k = "PALLET" -> PalletStores(converting)
          [] k = "COURIER_PAK" -> CourierPakStores
          [] k = "STANDARD_FTL" -> StandardFtlStores)

\* What validate() looks at.  The courier pak's looks at lineItems, and
\* stores lineItem.
PackageChecks(converting) == PackageStores(converting)
PalletChecks(converting) == PalletStores(converting)
CourierPakChecks == {}
StandardFtlChecks == {"services"}

HandlerChecks(k, converting, parts) ==
    parts \cap
        CASE k = "PACKAGE" -> PackageChecks(converting)
          [] k = "PALLET" -> PalletChecks(converting)
          [] k = "COURIER_PAK" -> CourierPakChecks
          [] k = "STANDARD_FTL" -> StandardFtlChecks

\* validateAndFilterServicesForUpdate: limited access is compared, and ...
AccessRefused(odd) == "services" \in odd

\* ... an object is gone through field by field, and then refused in any
\* case because it is not a Boolean.
DetailsRefused(odd) == "serviceDetails" \in odd

HandlerRefuses(k, converting, parts, odd) ==
    LET checked == HandlerChecks(k, converting, parts) IN
    \/ "lineItem" \in checked /\ UnitsRefused(odd)
    \/ "insurance" \in checked /\ InsuranceRefused(odd)
    \/ "services" \in checked /\ (AccessRefused(odd) \/ DetailsRefused(odd))

\* Insurance and services are assigned to rows that are taken to be there.
InsuranceThrows(has, stored) == "insurance" \in stored \ has

ServicesThrow(has, stored) == "services" \in stored \ has

HandlerThrows(has, k, parts) ==
    LET stored == HandlerStores(k, TRUE, parts) IN
    InsuranceThrows(has, stored) \/ ServicesThrow(has, stored)
=============================================================================
