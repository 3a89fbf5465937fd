---------------------------- MODULE QuotesProofs ----------------------------
(***************************************************************************)
(* Theorems about Quotes, for every set of requests and of payloads.       *)
(*                                                                         *)
(* A handler writes what it decided on a copy, so that each invariant says *)
(* of the handlers in flight what the row alone cannot: Made that nobody   *)
(* has the quote before it is there, Moves that a status about to be       *)
(* written was looked up for a row that can have moved to it only,         *)
(* Building what a creation cut in two has flushed, and Whole that nobody  *)
(* had loaded what a handler was going to write.  FreshEdits says what     *)
(* edits that do not overlap know of the addresses they write.             *)
(***************************************************************************)
EXTENDS Quotes, TLAPS

\* One request makes the quote; until it has, nobody has got hold of it.
Made ==
    /\ \A r, q \in Creators : pc[r] # "absent" /\ pc[q] # "absent" => r = q
    /\ \A r \in Requests : pc[r] \in {"early", "insert", "second"} => r \in Creators
    /\ \A c \in Creators :
          pc[c] \in {"idle", "early", "insert"} =>
              /\ ~quote.live
              /\ shipment = "none"
              /\ favourites = {}
              /\ \A r \in Requests : pc[r] # "flush"

\* A move that passed the table has only one aim, and the status it was
\* looked up for can have moved only there.
Moves ==
    \A r \in Requests :
        pc[r] = "flush" /\ Is(r, {"edit", "move"}) /\ sent[r].status # "none" =>
            /\ sent[r].status = "CONVERTED_TO_SHIPMENT"
            /\ quote.live => quote.status \in {"DRAFT", "SAVED", "CONVERTED_TO_SHIPMENT"}

\* A creator has sent what its kind requires; what was flushed early lacks
\* the spot details, and only until the creator goes on.
Building ==
    /\ \A r \in Requests :
          /\ pc[r] \in {"early", "insert"} => Required(kind) \subseteq sent[r].parts
          /\ pc[r] \in {"early", "second"} => SavesEarly(kind, sent[r].parts)
          /\ pc[r] \in {"early", "insert", "second"} /\ Is(r, {"direct"}) => kind \notin SpotKind
    /\ quote.live =>
          /\ \A p \in Required(kind) : p # "spotDetails" => quote.by[p] # "none"
          /\ quote.born # "origin" => quote.born \in Creators /\ pc[quote.born] # "absent"
    /\ HalfMadeWasCutShort

----------------------------------------------------------------------------

\* A new row is complete, and each of its addresses is of one sort.
LEMMA NewQuoteRow ==
    ASSUME TypeOK, NEW r \in Requests, NEW parts, NEW status \in Status
    PROVE /\ NewQuote(r, parts, status) \in QuoteRow
          /\ NewQuote(r, parts, status).live
          /\ NewQuote(r, parts, status).status = status
          /\ \A e \in Ends : e \in NewQuote(r, parts, status).book
                               <=> e \notin NewQuote(r, parts, status).own
          /\ NewQuote(r, parts, status).born = r
          /\ \A p \in Part : NewQuote(r, parts, status).by[p] = IF p \in parts THEN r ELSE "none"
<1> DEFINE book == {e \in Ends : InBook(kind, sent[r].how[e], Is(r, {"direct"}))}
<1> DEFINE by == [p \in Part |-> IF p \in parts THEN r ELSE "none"]
<1>1. NewQuote(r, parts, status) =
        [live |-> TRUE, born |-> r, status |-> status, by |-> by,
         book |-> book, own |-> Ends \ book]
  BY DEF NewQuote
<1>2. by \in [Part -> Writer] /\ book \in SUBSET Ends /\ Ends \ book \in SUBSET Ends
  BY DEF Writer
<1>3. /\ \A p \in Part : by[p] = IF p \in parts THEN r ELSE "none"
      /\ \A e \in Ends : e \in book <=> e \notin Ends \ book
  OBVIOUS
<1> HIDE DEF book, by
<1>4. QED
  BY <1>1, <1>2, <1>3 DEF QuoteRow, Writer

\* Writing over a row keeps its existence and its status.
LEMMA WrittenRow ==
    ASSUME TypeOK, NEW r \in Requests, NEW parts
    PROVE /\ Written(r, parts) \in QuoteRow
          /\ Written(r, parts).live = quote.live
          /\ Written(r, parts).status = quote.status
          /\ Written(r, parts).born = quote.born
          /\ \A p \in Part : Written(r, parts).by[p] = IF p \in parts THEN r ELSE quote.by[p]
<1> DEFINE toBook == {e \in Ends \cap parts : sent[r].how[e] \in {"book", "new"}}
<1> DEFINE toOwn == {e \in Ends \cap parts : sent[r].how[e] = "own"}
<1> DEFINE by == [p \in Part |-> IF p \in parts THEN r ELSE quote.by[p]]
<1> DEFINE book == (quote.book \cup toBook) \ (toOwn \cap copy[r].book)
<1> DEFINE own == (quote.own \cup (toOwn \ copy[r].own)) \ (toBook \cap copy[r].own)
<1>1. Written(r, parts) = [quote EXCEPT !.by = by, !.book = book, !.own = own]
  BY DEF Written
<1>2. quote \in QuoteRow
  BY DEF TypeOK
<1>3. by \in [Part -> Writer] /\ book \in SUBSET Ends /\ own \in SUBSET Ends
  BY <1>2 DEF QuoteRow, Writer
<1>4. \A p \in Part : by[p] = IF p \in parts THEN r ELSE quote.by[p]
  OBVIOUS
<1> HIDE DEF by, book, own
<1>5. QED
  BY <1>1, <1>2, <1>3, <1>4 DEF QuoteRow

\* So does what the handlers write.
LEMMA WriteKeeps ==
    ASSUME TypeOK, NEW r \in Requests, NEW parts, Write(r, parts)
    PROVE /\ quote' \in QuoteRow
          /\ quote'.live = quote.live
          /\ quote'.status = quote.status
          /\ crossed' \in BOOLEAN
<1>1. CASE quote' = quote /\ crossed' = crossed
  BY <1>1 DEF TypeOK
<1>2. CASE quote' = Written(r, parts) /\ crossed' = (crossed \/ Crosses(r, parts))
  BY <1>2, WrittenRow DEF TypeOK, Crosses
<1>3. QED
  BY <1>1, <1>2 DEF Write

\* A move touches the status alone.
LEMMA MovedRow ==
    ASSUME TypeOK, NEW r \in Requests, NEW row \in QuoteRow
    PROVE /\ Moved(row, r) \in QuoteRow
          /\ Moved(row, r).live = row.live
          /\ Moved(row, r).book = row.book
          /\ Moved(row, r).own = row.own
          /\ Moved(row, r).by = row.by
          /\ Moved(row, r).born = row.born
          /\ Moved(row, r).status =
                IF sent[r].status = "none" THEN row.status ELSE sent[r].status
BY DEF TypeOK, Moved, QuoteRow, Sent

\* What the update and the move of QuoteService leave of the row.
LEMMA EditedRow ==
    ASSUME TypeOK, NEW r \in Requests, FlushEdit(r) \/ FlushMove(r)
    PROVE /\ quote' \in QuoteRow
          /\ crossed' \in BOOLEAN
          /\ quote'.live = quote.live
          /\ \/ quote' = quote
             \/ quote'.status = quote.status
             \/ sent[r].status # "none" /\ quote'.status = sent[r].status
<1>1. CASE quote' = quote /\ crossed' = crossed
  BY <1>1 DEF TypeOK
<1>2. CASE /\ quote' = Moved(Written(r, Stored(r)), r)
           /\ crossed' = (crossed \/ Crosses(r, Stored(r)))
  <2>1. crossed' \in BOOLEAN
    BY <1>2 DEF TypeOK, Crosses
  <2>2. Written(r, Stored(r)) \in QuoteRow
    BY WrittenRow
  <2>3. QED
    BY <1>2, <2>1, <2>2, WrittenRow, MovedRow
<1>3. CASE quote' = Moved(quote, r) /\ crossed' = crossed
  <2>1. quote \in QuoteRow
    BY DEF TypeOK
  <2>2. QED
    BY <1>3, <2>1, MovedRow DEF TypeOK
<1>4. QED
  BY <1>1, <1>2, <1>3 DEF FlushEdit, FlushMove

\* The spot details come later than the rest.
LEMMA CompletedRow ==
    ASSUME TypeOK, NEW r \in Requests, CompleteCreate(r)
    PROVE /\ quote' \in QuoteRow
          /\ quote'.live = quote.live
          /\ quote'.status = quote.status
          /\ quote'.born = quote.born
          /\ quote'.book = quote.book
          /\ quote'.own = quote.own
<1>1. CASE quote' = quote
  BY <1>1 DEF TypeOK
<1>2. CASE quote' = [quote EXCEPT !.by["spotDetails"] = r]
  <2>1. quote \in QuoteRow
    BY DEF TypeOK
  <2>2. [quote.by EXCEPT !["spotDetails"] = r] \in [Part -> Writer]
    BY <2>1 DEF QuoteRow, Writer
  <2>3. quote' = [quote EXCEPT !.by = [quote.by EXCEPT !["spotDetails"] = r]]
    BY <1>2
  <2>4. QED
    BY <2>1, <2>2, <2>3 DEF QuoteRow
<1>3. QED
  BY <1>1, <1>2 DEF CompleteCreate

\* A shipment is made of a quote that is there and has none.
LEMMA ShippedRow ==
    ASSUME TypeOK, NEW r \in Requests, InsertShipment(r)
    PROVE /\ quote' \in QuoteRow
          /\ quote'.live = quote.live
          /\ quote'.book = quote.book
          /\ quote'.own = quote.own
          /\ quote'.by = quote.by
          /\ quote'.born = quote.born
          /\ \/ quote' = quote /\ shipment' = shipment
             \/ /\ quote.live
                /\ shipment = "none"
                /\ shipment' = r
                /\ quote'.status = "CONVERTED_TO_SHIPMENT"
<1>1. CASE quote' = quote /\ shipment' = shipment
  BY <1>1 DEF TypeOK
<1>2. CASE /\ quote.live
           /\ shipment = "none"
           /\ shipment' = r
           /\ quote' = [quote EXCEPT !.status = "CONVERTED_TO_SHIPMENT"]
  BY <1>2 DEF TypeOK, QuoteRow, Status
<1>3. QED
  BY <1>1, <1>2 DEF InsertShipment, Taken

\* Where a handler stands that has looked the quote up.
LEMMA LoadGoes ==
    ASSUME NEW r \in Requests, NEW s \in Sends, Load(r, s)
    PROVE \E label \in {"told", "edit", "flush"} :
             pc' = [pc EXCEPT ![r] = label] /\ (label = "edit" => quote.live)
<1>1. CASE ~quote.live
  BY <1>1 DEF Load, Goto
<1>2. CASE quote.live
  <2>1. CASE Is(r, {"convert", "reship"})
    BY <1>2, <2>1 DEF Load, Goto, Is
  <2>2. CASE Is(r, {"edit"})
    BY <1>2, <2>2 DEF Load, Goto, Is
  <2>3. CASE Is(r, {"move"})
    BY <1>2, <2>3 DEF Load, Goto, Is
  <2>4. CASE Is(r, {"delete"})
    BY <1>2, <2>4 DEF Load, Goto, Is
  <2>5. QED
    BY <2>1, <2>2, <2>3, <2>4 DEF Load, Is
<1>3. QED
  BY <1>1, <1>2

\* A handler that writes goes on to one of its later places.
LEMMA GoesOn ==
    ASSUME NEW r \in Requests,
           CompleteCreate(r) \/ FlushHandler(r) \/ InsertShipment(r) \/ FlushEdit(r)
    PROVE /\ \E label \in {"book", "told", "done"} : pc' = [pc EXCEPT ![r] = label]
          /\ pc[r] \in {"second", "edit", "half", "book", "flush"}
          /\ favourites' = favourites
          /\ sent' = sent
<1>1. CASE CompleteCreate(r)
  BY <1>1 DEF CompleteCreate, Goto
<1>2. CASE FlushHandler(r)
  BY <1>2 DEF FlushHandler, Goto
<1>3. CASE InsertShipment(r)
  BY <1>3 DEF InsertShipment, Goto
<1>4. CASE FlushEdit(r)
  BY <1>4 DEF FlushEdit, Goto
<1>5. QED
  BY <1>1, <1>2, <1>3, <1>4

\* Such a step, by somebody who has the quote, leaves Made alone.
LEMMA MadeStays ==
    ASSUME TypeOK, Made, NEW r \in Requests,
           CompleteCreate(r) \/ FlushHandler(r) \/ InsertShipment(r) \/ FlushEdit(r),
           quote'.live = quote.live,
           shipment' = shipment \/ quote.live
    PROVE Made'
<1>1. PICK label \in {"book", "told", "done"} : pc' = [pc EXCEPT ![r] = label]
  BY GoesOn
<1>2. pc[r] \in {"second", "edit", "half", "book", "flush"} /\ favourites' = favourites
  BY GoesOn
<1>3. \A q \in Requests : /\ pc'[q] # "absent" => pc[q] # "absent"
                          /\ pc'[q] \in {"idle", "early", "insert", "second", "flush"} => pc'[q] = pc[q]
  BY <1>1, <1>2 DEF TypeOK
<1>4. QED
  BY <1>2, <1>3 DEF Made, Creators

\* An edit of addresses that nobody has changed since keeps them of one sort.
LEMMA WrittenOneAddress ==
    ASSUME TypeOK, NEW r \in Requests, NEW parts, ~Crosses(r, parts),
           \A e \in Ends : e \in quote.book <=> e \notin quote.own
    PROVE \A e \in Ends : e \in Written(r, parts).book <=> e \notin Written(r, parts).own
<1> DEFINE toBook == {e \in Ends \cap parts : sent[r].how[e] \in {"book", "new"}}
<1> DEFINE toOwn == {e \in Ends \cap parts : sent[r].how[e] = "own"}
<1> DEFINE by == [p \in Part |-> IF p \in parts THEN r ELSE quote.by[p]]
<1> DEFINE book == (quote.book \cup toBook) \ (toOwn \cap copy[r].book)
<1> DEFINE own == (quote.own \cup (toOwn \ copy[r].own)) \ (toBook \cap copy[r].own)
<1>1. Written(r, parts) = [quote EXCEPT !.by = by, !.book = book, !.own = own]
  BY DEF Written
<1>2. \A e \in Ends : e \in book <=> e \notin own
  BY DEF Crosses
<1>3. quote \in QuoteRow
  BY DEF TypeOK
<1> HIDE DEF by, book, own
<1>4. Written(r, parts).book = book /\ Written(r, parts).own = own
  BY <1>1, <1>3 DEF QuoteRow
<1>5. QED
  BY <1>2, <1>4

\* Later writes fill parts in and never take one away.
LEMMA PartsStay ==
    ASSUME TypeOK, NEW r \in Requests,
           FlushContact(r) \/ FlushHandler(r) \/ FlushEdit(r) \/ FlushMove(r)
    PROVE /\ quote'.born = quote.born
          /\ quote'.live = quote.live
          /\ \A p \in Part : quote.by[p] # "none" => quote'.by[p] # "none"
<1> USE QuotesAssumption
<1>1. CASE quote' = quote
  BY <1>1
<1>2. ASSUME NEW parts, quote' = Written(r, parts) PROVE 
             /\ quote'.born = quote.born
             /\ quote'.live = quote.live
             /\ \A p \in Part : quote.by[p] # "none" => quote'.by[p] # "none"
  BY <1>2, WrittenRow
<1>3. CASE quote' = Moved(quote, r)
  BY <1>3, MovedRow DEF TypeOK
<1>4. CASE quote' = Moved(Written(r, Stored(r)), r)
  <2>1. Written(r, Stored(r)) \in QuoteRow
    BY WrittenRow
  <2>2. /\ quote'.born = Written(r, Stored(r)).born
        /\ quote'.live = Written(r, Stored(r)).live
        /\ quote'.by = Written(r, Stored(r)).by
    BY <1>4, <2>1, MovedRow
  <2>3. QED
    BY <2>2, WrittenRow
<1>5. QED
  BY <1>1, <1>2, <1>3, <1>4 DEF FlushContact, FlushHandler, Write, FlushEdit, FlushMove

\* Every kind requires parts, and builds them.
LEMMA RequiredParts ==
    ASSUME kind \in Kind
    PROVE /\ Required(kind) \subseteq Part
          /\ \A parts : Required(kind) \subseteq parts => Required(kind) \subseteq Built(kind, parts)
          /\ "spotDetails" \in Required(kind) <=> kind \in SpotKind
BY DEF Required, Part, Ends, Built, Kind, StandardKind, SpotKind, PackageParts, PalletParts,
       CourierPakParts, StandardFtlParts, SpotLtlParts, SpotFtlParts, TimeCriticalParts

\* Type correctness: rows, copies and handlers keep their types in every
\* interleaving of the requests.
THEOREM TypeCorrect == Spec => []TypeOK
<1> USE QuotesAssumption
<1>1. Init => TypeOK
  <2> SUFFICES ASSUME Init PROVE TypeOK
    OBVIOUS
  <2>1. NothingSent \in Sent
    BY DEF NothingSent, Sent, How, Kind, StandardKind
  <2>2. NoQuote \in QuoteRow
    BY DEF NoQuote, QuoteRow, Writer, Status
  <2>3. kind \in Kind
    BY DEF Init
  <2>4. \A status \in Status : Original(status) \in QuoteRow
    BY DEF Original, QuoteRow, Writer
  <2>5. quote \in QuoteRow
    BY <2>2, <2>4 DEF Init
  <2>6. QED
    BY <2>1, <2>2, <2>3, <2>5 DEF Init, TypeOK, Pc
<1>2. TypeOK /\ [Next]_vars => TypeOK'
  <2> SUFFICES ASSUME TypeOK, [Next]_vars PROVE TypeOK'
    OBVIOUS
  <2> USE DEF TypeOK, Goto, Pc
  <2>1. ASSUME NEW r \in Requests, NEW s \in Sends, BeginCreate(r, s) PROVE TypeOK'
    BY <2>1 DEF BeginCreate
  <2>2. ASSUME NEW r \in Requests, NEW s \in Sends, Load(r, s) PROVE TypeOK'
    BY <2>2 DEF Load
  <2>3. ASSUME NEW r \in Requests, SaveEarly(r) PROVE TypeOK'
    <3>1. \E place \in {"told", "second"} : pc' = [pc EXCEPT ![r] = place]
      BY <2>3 DEF SaveEarly
    <3>2. quote' \in QuoteRow
      <4>1. CASE sent[r].status = "none"
        BY <2>3, <4>1 DEF SaveEarly
      <4>2. CASE sent[r].status # "none"
        <5>1. sent[r].status \in Status
          BY <4>2 DEF Sent
        <5>2. quote' = NewQuote(r, Built(kind, sent[r].parts) \ {"spotDetails"}, sent[r].status)
          BY <2>3, <4>2 DEF SaveEarly
        <5>3. QED
          BY <5>1, <5>2, NewQuoteRow
      <4>3. QED
        BY <4>1, <4>2
    <3>3. QED
      BY <2>3, <3>1, <3>2 DEF SaveEarly
  <2>4. ASSUME NEW r \in Requests, Insert(r) PROVE TypeOK'
    BY <2>4, NewQuoteRow DEF Insert, Stated, Sent, Status
  <2>5. ASSUME NEW r \in Requests, CompleteCreate(r) PROVE TypeOK'
    BY <2>5, CompletedRow DEF CompleteCreate, QuoteRow, Writer
  <2>6. ASSUME NEW r \in Requests, FlushContact(r) PROVE TypeOK'
    BY <2>6, WriteKeeps DEF FlushContact
  <2>7. ASSUME NEW r \in Requests, FlushHandler(r) PROVE TypeOK'
    BY <2>7, WriteKeeps DEF FlushHandler
  <2>8. ASSUME NEW r \in Requests, InsertShipment(r) PROVE TypeOK'
    <3>1. quote' \in QuoteRow /\ shipment' \in Requests \cup {"none"}
      BY <2>8, ShippedRow
    <3>2. QED
      BY <2>8, <3>1 DEF InsertShipment
  <2>9. ASSUME NEW r \in Requests, FlushEdit(r) PROVE TypeOK'
    BY <2>9, EditedRow DEF FlushEdit, Crosses
  <2>10. ASSUME NEW r \in Requests, FlushMove(r) PROVE TypeOK'
    BY <2>10, EditedRow DEF FlushMove
  <2>11. ASSUME NEW r \in Requests, FlushDelete(r) PROVE TypeOK'
    BY <2>11 DEF FlushDelete, NoQuote, QuoteRow, Writer, Status
  <2>12. ASSUME NEW r \in Requests, CheckFavourite(r) PROVE TypeOK'
    BY <2>12 DEF CheckFavourite
  <2>13. ASSUME NEW r \in Requests, InsertFavourite(r) PROVE TypeOK'
    BY <2>13 DEF InsertFavourite
  <2>14. ASSUME NEW r \in Requests, FindFavourite(r) PROVE TypeOK'
    BY <2>14 DEF FindFavourite
  <2>15. ASSUME NEW r \in Requests, RemoveFavourite(r) PROVE TypeOK'
    BY <2>15 DEF RemoveFavourite
  <2>16. ASSUME NEW r \in Requests, Interrupt(r) PROVE TypeOK'
    BY <2>16 DEF Interrupt
  <2>17. CASE UNCHANGED vars
    BY <2>17 DEF vars
  <2> HIDE DEF TypeOK, Goto, Pc
  <2>18. QED
    BY <2>1, <2>2, <2>3, <2>4, <2>5, <2>6, <2>7, <2>8, <2>9, <2>10, <2>11, <2>12,
       <2>13, <2>14, <2>15, <2>16, <2>17 DEF Next
<1>3. QED
  BY <1>1, <1>2, PTL DEF Spec


\* Whoever looks for the quote before its creator has flushed is refused.
LEMMA MadeHolds == Spec => []Made
<1> USE QuotesAssumption
<1>1. Init => Made
  BY DEF Init, Made, Creators, NoQuote, Is
<1>2. TypeOK /\ Made /\ [Next]_vars => Made'
  <2> SUFFICES ASSUME TypeOK, Made, [Next]_vars PROVE Made'
    OBVIOUS
  <2> USE DEF TypeOK, Made, Creators, Is, Goto, QuoteRow
  <2>1. ASSUME NEW r \in Requests, NEW s \in Sends, BeginCreate(r, s) PROVE Made'
    BY <2>1 DEF BeginCreate
  <2>2. ASSUME NEW r \in Requests, NEW s \in Sends, Load(r, s) PROVE Made'
    BY <2>2 DEF Load
  <2>3. ASSUME NEW r \in Requests, SaveEarly(r) PROVE Made'
    <3>1. \E label \in {"told", "second"} : pc' = [pc EXCEPT ![r] = label]
      BY <2>3 DEF SaveEarly
    <3>2. r \in Creators /\ pc[r] = "early"
      BY <2>3 DEF SaveEarly
    <3>3. \A c \in Creators : pc'[c] \notin {"idle", "early", "insert"}
      <4>1. \A c \in Creators : c # r => pc[c] = "absent"
        BY <3>2
      <4>2. /\ pc'[r] \in {"told", "second"}
            /\ \A c \in Creators : c # r => pc'[c] = pc[c]
        BY <3>1
      <4>3. QED
        BY ONLY <4>1, <4>2
    <3>4. QED
      BY <3>1, <3>2, <3>3
  <2>4. ASSUME NEW r \in Requests, Insert(r) PROVE Made'
    BY <2>4, NewQuoteRow DEF Insert, Stated, Sent, Status
  <2>5. ASSUME NEW r \in Requests, CompleteCreate(r) PROVE Made'
    BY <2>5, MadeStays, CompletedRow DEF CompleteCreate
  <2>6. ASSUME NEW r \in Requests, FlushContact(r) PROVE Made'
    BY <2>6, WriteKeeps DEF FlushContact
  <2>7. ASSUME NEW r \in Requests, FlushHandler(r) PROVE Made'
    <3>1. quote'.live = quote.live
      BY <2>7, WriteKeeps DEF FlushHandler
    <3>2. QED
      BY <2>7, <3>1, MadeStays DEF FlushHandler
  <2>8. ASSUME NEW r \in Requests, InsertShipment(r) PROVE Made'
    BY <2>8, MadeStays, ShippedRow
  <2>9. ASSUME NEW r \in Requests, FlushEdit(r) PROVE Made'
    BY <2>9, MadeStays, EditedRow DEF FlushEdit
  <2>10. ASSUME NEW r \in Requests, FlushMove(r) PROVE Made'
    BY <2>10, EditedRow DEF FlushMove
  <2>11. ASSUME NEW r \in Requests, FlushDelete(r) PROVE Made'
    BY <2>11 DEF FlushDelete, NoQuote
  <2>12. ASSUME NEW r \in Requests, CheckFavourite(r) PROVE Made'
    BY <2>12 DEF CheckFavourite
  <2>13. ASSUME NEW r \in Requests, InsertFavourite(r) PROVE Made'
    BY <2>13 DEF InsertFavourite
  <2>14. ASSUME NEW r \in Requests, FindFavourite(r) PROVE Made'
    <3>1. CASE pc' = [pc EXCEPT ![r] = "told"]
      BY <2>14, <3>1 DEF FindFavourite
    <3>2. CASE quote.live /\ pc' = [pc EXCEPT ![r] = "flush"]
      BY <2>14, <3>2 DEF FindFavourite
    <3>3. QED
      BY <2>14, <3>1, <3>2 DEF FindFavourite
  <2>15. ASSUME NEW r \in Requests, RemoveFavourite(r) PROVE Made'
    BY <2>15 DEF RemoveFavourite
  <2>16. ASSUME NEW r \in Requests, Interrupt(r) PROVE Made'
    BY <2>16 DEF Interrupt, InFlight
  <2>17. CASE UNCHANGED vars
    BY <2>17 DEF vars
  <2> HIDE DEF TypeOK, Made, Creators, Is, Goto, QuoteRow
  <2>18. QED
    BY <2>1, <2>2, <2>3, <2>4, <2>5, <2>6, <2>7, <2>8, <2>9, <2>10, <2>11, <2>12,
       <2>13, <2>14, <2>15, <2>16, <2>17 DEF Next
<1>3. QED
  BY <1>1, <1>2, TypeCorrect, PTL DEF Spec


\* Nothing but a move to CONVERTED_TO_SHIPMENT changes the status meanwhile.
LEMMA MovesHold == Spec => []Moves
<1> USE QuotesAssumption
<1>1. Init => Moves
  BY DEF Init, Moves
<1>2. TypeOK /\ Made /\ Moves /\ [Next]_vars => Moves'
  <2> SUFFICES ASSUME TypeOK, Made, Moves, [Next]_vars PROVE Moves'
    OBVIOUS
  <2> USE DEF TypeOK, Made, Moves, Is, Goto, Creators, QuoteRow
  <2>1. ASSUME NEW r \in Requests, NEW s \in Sends, BeginCreate(r, s) PROVE Moves'
    BY <2>1 DEF BeginCreate
  <2>2. ASSUME NEW r \in Requests, NEW s \in Sends, Load(r, s) PROVE Moves'
    BY <2>2 DEF Load, MayMove, Transitions
  <2>3. ASSUME NEW r \in Requests, SaveEarly(r) PROVE Moves'
    BY <2>3, NewQuoteRow DEF SaveEarly, Sent
  <2>4. ASSUME NEW r \in Requests, Insert(r) PROVE Moves'
    BY <2>4, NewQuoteRow DEF Insert, Stated, Sent, Status
  <2>5. ASSUME NEW r \in Requests, CompleteCreate(r) PROVE Moves'
    BY <2>5, CompletedRow, GoesOn DEF CompleteCreate
  <2>6. ASSUME NEW r \in Requests, FlushContact(r) PROVE Moves'
    BY <2>6, WriteKeeps DEF FlushContact
  <2>7. ASSUME NEW r \in Requests, FlushHandler(r) PROVE Moves'
    BY <2>7, WriteKeeps, GoesOn DEF FlushHandler
  <2>8. ASSUME NEW r \in Requests, InsertShipment(r) PROVE Moves'
    BY <2>8, ShippedRow, GoesOn DEF InsertShipment
  <2>9. ASSUME NEW r \in Requests, FlushEdit(r) PROVE Moves'
    BY <2>9, EditedRow, GoesOn DEF FlushEdit
  <2>10. ASSUME NEW r \in Requests, FlushMove(r) PROVE Moves'
    <3>1. /\ quote'.live = quote.live
          /\ \/ quote' = quote
             \/ quote'.status = quote.status
             \/ sent[r].status # "none" /\ quote'.status = sent[r].status
      BY <2>10, EditedRow
    <3>2. /\ pc[r] = "flush"
          /\ Is(r, {"edit", "move"})
          /\ pc' = [pc EXCEPT ![r] = "done"]
          /\ UNCHANGED <<shipment, favourites, sent>>
      BY <2>10 DEF FlushMove
    <3>3. QED
      BY <3>1, <3>2
  <2>11. ASSUME NEW r \in Requests, FlushDelete(r) PROVE Moves'
    BY <2>11 DEF FlushDelete, NoQuote
  <2>12. ASSUME NEW r \in Requests, CheckFavourite(r) PROVE Moves'
    BY <2>12 DEF CheckFavourite
  <2>13. ASSUME NEW r \in Requests, InsertFavourite(r) PROVE Moves'
    <3>1. /\ Is(r, {"mark"}) /\ UNCHANGED <<quote, sent>>
          /\ \E label \in {"done", "told"} : pc' = [pc EXCEPT ![r] = label]
      BY <2>13 DEF InsertFavourite
    <3>2. QED
      BY <3>1
  <2>14. ASSUME NEW r \in Requests, FindFavourite(r) PROVE Moves'
    <3>1. /\ Is(r, {"unmark"}) /\ UNCHANGED <<quote, sent>>
          /\ \E label \in {"flush", "told"} : pc' = [pc EXCEPT ![r] = label]
      BY <2>14 DEF FindFavourite
    <3>2. QED
      BY <3>1
  <2>15. ASSUME NEW r \in Requests, RemoveFavourite(r) PROVE Moves'
    <3>1. UNCHANGED <<quote, sent>> /\ pc' = [pc EXCEPT ![r] = "done"]
      BY <2>15 DEF RemoveFavourite
    <3>2. QED
      BY <3>1
  <2>16. ASSUME NEW r \in Requests, Interrupt(r) PROVE Moves'
    BY <2>16 DEF Interrupt
  <2>17. CASE UNCHANGED vars
    BY <2>17 DEF vars
  <2> HIDE DEF TypeOK, Made, Moves, Is, Goto, Creators, QuoteRow
  <2>18. QED
    BY <2>1, <2>2, <2>3, <2>4, <2>5, <2>6, <2>7, <2>8, <2>9, <2>10, <2>11, <2>12,
       <2>13, <2>14, <2>15, <2>16, <2>17 DEF Next
<1>3. QED
  BY <1>1, <1>2, TypeCorrect, MadeHolds, PTL DEF Spec


\* ReferencesStand, for any number of conversions, deletions and favourites
\* that overlap: the database refuses what the handlers have not checked.
THEOREM ReferencesAlwaysStand == Spec => []ReferencesStand
<1> USE QuotesAssumption
<1>1. Init => ReferencesStand
  BY DEF Init, ReferencesStand
<1>2. TypeOK /\ Made /\ Moves /\ ReferencesStand /\ [Next]_vars => ReferencesStand'
  <2> SUFFICES ASSUME TypeOK, Made, Moves, ReferencesStand, [Next]_vars PROVE ReferencesStand'
    OBVIOUS
  <2> USE DEF TypeOK, Made, Moves, ReferencesStand, Is, Goto, Creators, QuoteRow
  <2>1. ASSUME NEW r \in Requests, NEW s \in Sends, BeginCreate(r, s)
        PROVE ReferencesStand'
    BY <2>1 DEF BeginCreate
  <2>2. ASSUME NEW r \in Requests, NEW s \in Sends, Load(r, s)
        PROVE ReferencesStand'
    BY <2>2 DEF Load
  <2>3. ASSUME NEW r \in Requests, SaveEarly(r) PROVE ReferencesStand'
    BY <2>3, NewQuoteRow DEF SaveEarly, Sent
  <2>4. ASSUME NEW r \in Requests, Insert(r) PROVE ReferencesStand'
    BY <2>4, NewQuoteRow DEF Insert, Stated, Sent, Status
  <2>5. ASSUME NEW r \in Requests, CompleteCreate(r) PROVE ReferencesStand'
    BY <2>5, CompletedRow, GoesOn DEF CompleteCreate
  <2>6. ASSUME NEW r \in Requests, FlushContact(r) PROVE ReferencesStand'
    BY <2>6, WriteKeeps DEF FlushContact
  <2>7. ASSUME NEW r \in Requests, FlushHandler(r) PROVE ReferencesStand'
    <3>1. quote' = quote \/ \E parts : Write(r, parts)
      BY <2>7 DEF FlushHandler
    <3>2. quote'.live = quote.live /\ quote'.status = quote.status
      BY <3>1, WriteKeeps
    <3>3. favourites' = favourites /\ shipment' = shipment
      BY <2>7 DEF FlushHandler
    <3>4. QED
      BY ONLY ReferencesStand, <3>2, <3>3 DEF ReferencesStand
  <2>8. ASSUME NEW r \in Requests, InsertShipment(r) PROVE ReferencesStand'
    <3>1. /\ quote'.live = quote.live
          /\ \/ quote' = quote /\ shipment' = shipment
             \/ quote.live /\ quote'.status = "CONVERTED_TO_SHIPMENT"
      BY <2>8, ShippedRow
    <3>2. favourites' = favourites
      BY <2>8, GoesOn
    <3>3. QED
      BY ONLY ReferencesStand, <3>1, <3>2 DEF ReferencesStand
  <2>9. ASSUME NEW r \in Requests, FlushEdit(r) PROVE ReferencesStand'
    <3>1. /\ quote'.live = quote.live
          /\ \/ quote' = quote
             \/ quote'.status = quote.status
             \/ sent[r].status # "none" /\ quote'.status = sent[r].status
      BY <2>9, EditedRow
    <3>2. favourites' = favourites
      BY <2>9, GoesOn
    <3>3. shipment' = shipment /\ pc[r] = "flush" /\ Is(r, {"edit"})
      BY <2>9 DEF FlushEdit
    <3>4. QED
      BY <3>1, <3>2, <3>3
  <2>10. ASSUME NEW r \in Requests, FlushMove(r) PROVE ReferencesStand'
    <3>1. /\ quote'.live = quote.live
          /\ \/ quote' = quote
             \/ quote'.status = quote.status
             \/ sent[r].status # "none" /\ quote'.status = sent[r].status
      BY <2>10, EditedRow
    <3>2. /\ pc[r] = "flush"
          /\ Is(r, {"edit", "move"})
          /\ pc' = [pc EXCEPT ![r] = "done"]
          /\ UNCHANGED <<shipment, favourites, sent>>
      BY <2>10 DEF FlushMove
    <3>3. QED
      BY <3>1, <3>2
  <2>11. ASSUME NEW r \in Requests, FlushDelete(r) PROVE ReferencesStand'
    BY <2>11 DEF FlushDelete, NoQuote, ReferredTo
  <2>12. ASSUME NEW r \in Requests, CheckFavourite(r) PROVE ReferencesStand'
    BY <2>12 DEF CheckFavourite
  <2>13. ASSUME NEW r \in Requests, InsertFavourite(r) PROVE ReferencesStand'
    BY <2>13 DEF InsertFavourite
  <2>14. ASSUME NEW r \in Requests, FindFavourite(r) PROVE ReferencesStand'
    BY <2>14 DEF FindFavourite
  <2>15. ASSUME NEW r \in Requests, RemoveFavourite(r) PROVE ReferencesStand'
    BY <2>15 DEF RemoveFavourite
  <2>16. ASSUME NEW r \in Requests, Interrupt(r) PROVE ReferencesStand'
    BY <2>16 DEF Interrupt
  <2>17. CASE UNCHANGED vars
    BY <2>17 DEF vars
  <2> HIDE DEF TypeOK, Made, Moves, ReferencesStand, Is, Goto, Creators, QuoteRow
  <2>18. QED
    BY <2>1, <2>2, <2>3, <2>4, <2>5, <2>6, <2>7, <2>8, <2>9, <2>10, <2>11, <2>12,
       <2>13, <2>14, <2>15, <2>16, <2>17 DEF Next
<1>3. QED
  BY <1>1, <1>2, TypeCorrect, MadeHolds, MovesHold, PTL DEF Spec


\* OneAddress: handlers that overlap on one address are the only way to an
\* address with two rows, or none.
THEOREM OneAddressAlways == Spec => []OneAddress
<1> USE QuotesAssumption
<1>1. Init => OneAddress
  BY DEF Init, OneAddress, Original, NoQuote
<1>2. TypeOK /\ OneAddress /\ [Next]_vars => OneAddress'
  <2> SUFFICES ASSUME TypeOK, OneAddress, [Next]_vars PROVE OneAddress'
    OBVIOUS
  <2> USE DEF TypeOK, OneAddress, Goto, QuoteRow
  <2>1. ASSUME NEW r \in Requests, NEW s \in Sends, BeginCreate(r, s)
        PROVE OneAddress'
    BY <2>1 DEF BeginCreate
  <2>2. ASSUME NEW r \in Requests, NEW s \in Sends, Load(r, s) PROVE OneAddress'
    BY <2>2 DEF Load
  <2>3. ASSUME NEW r \in Requests, SaveEarly(r) PROVE OneAddress'
    BY <2>3, NewQuoteRow DEF SaveEarly, Sent
  <2>4. ASSUME NEW r \in Requests, Insert(r) PROVE OneAddress'
    <3>1. Stated(r) \in Status /\ "CONVERTED_TO_SHIPMENT" \in Status
      BY DEF Stated, Sent, Status
    <3>2. QED
      BY <2>4, <3>1, NewQuoteRow DEF Insert
  <2>5. ASSUME NEW r \in Requests, CompleteCreate(r) PROVE OneAddress'
    BY <2>5, CompletedRow DEF CompleteCreate
  <2>6. ASSUME NEW r \in Requests, FlushContact(r) PROVE OneAddress'
    <3>1. CASE quote' = quote /\ crossed' = crossed
      BY <3>1
    <3>2. ASSUME NEW parts, quote.live,
                 quote' = Written(r, parts), crossed' = (crossed \/ Crosses(r, parts))
          PROVE OneAddress'
      BY <3>2, WrittenRow, WrittenOneAddress
    <3>3. QED
      BY <2>6, <3>1, <3>2 DEF FlushContact, Write
  <2>7. ASSUME NEW r \in Requests, FlushHandler(r) PROVE OneAddress'
    <3>1. CASE quote' = quote /\ crossed' = crossed
      BY <3>1
    <3>2. ASSUME NEW parts, quote.live,
                 quote' = Written(r, parts), crossed' = (crossed \/ Crosses(r, parts))
          PROVE OneAddress'
      BY <3>2, WrittenRow, WrittenOneAddress
    <3>3. QED
      BY <2>7, <3>1, <3>2 DEF FlushHandler, Write
  <2>8. ASSUME NEW r \in Requests, InsertShipment(r) PROVE OneAddress'
    BY <2>8, ShippedRow DEF InsertShipment
  <2>9. ASSUME NEW r \in Requests, FlushEdit(r) PROVE OneAddress'
    <3>1. CASE quote' = quote /\ crossed' = crossed
      BY <3>1
    <3>2. CASE /\ quote.live
               /\ quote' = Moved(Written(r, Stored(r)), r)
               /\ crossed' = (crossed \/ Crosses(r, Stored(r)))
      <4>1. Written(r, Stored(r)) \in QuoteRow
        BY WrittenRow
      <4>2. quote'.book = Written(r, Stored(r)).book /\ quote'.own = Written(r, Stored(r)).own
        <5> DEFINE row == Written(r, Stored(r))
        <5>0. row \in QuoteRow /\ quote' = Moved(row, r)
          BY <3>2, <4>1
        <5> HIDE DEF row
        <5>1. Moved(row, r).book = row.book /\ Moved(row, r).own = row.own
          BY <5>0, MovedRow
        <5>2. quote'.book = row.book /\ quote'.own = row.own
          BY <5>0, <5>1
        <5>3. QED
          BY <5>2 DEF row
      <4>3. QED
        BY <3>2, <4>2, WrittenOneAddress
    <3>3. QED
      BY <2>9, <3>1, <3>2 DEF FlushEdit
  <2>10. ASSUME NEW r \in Requests, FlushMove(r) PROVE OneAddress'
    <3>1. CASE quote' = quote
      BY <2>10, <3>1 DEF FlushMove
    <3>2. CASE quote.live /\ quote' = Moved(quote, r)
      BY <2>10, <3>2, MovedRow DEF FlushMove
    <3>3. QED
      BY <2>10, <3>1, <3>2 DEF FlushMove
  <2>11. ASSUME NEW r \in Requests, FlushDelete(r) PROVE OneAddress'
    BY <2>11 DEF FlushDelete, NoQuote
  <2>12. ASSUME NEW r \in Requests, CheckFavourite(r) PROVE OneAddress'
    BY <2>12 DEF CheckFavourite
  <2>13. ASSUME NEW r \in Requests, InsertFavourite(r) PROVE OneAddress'
    BY <2>13 DEF InsertFavourite
  <2>14. ASSUME NEW r \in Requests, FindFavourite(r) PROVE OneAddress'
    BY <2>14 DEF FindFavourite
  <2>15. ASSUME NEW r \in Requests, RemoveFavourite(r) PROVE OneAddress'
    BY <2>15 DEF RemoveFavourite
  <2>16. ASSUME NEW r \in Requests, Interrupt(r) PROVE OneAddress'
    BY <2>16 DEF Interrupt
  <2>17. CASE UNCHANGED vars
    BY <2>17 DEF vars
  <2> HIDE DEF TypeOK, OneAddress, Goto, QuoteRow
  <2>18. QED
    BY <2>1, <2>2, <2>3, <2>4, <2>5, <2>6, <2>7, <2>8, <2>9, <2>10, <2>11, <2>12,
       <2>13, <2>14, <2>15, <2>16, <2>17 DEF Next
<1>3. QED
  BY <1>1, <1>2, TypeCorrect, PTL DEF Spec

\* Every change of the status is one of the table or part of a conversion.
THEOREM StatusMovesByTable == Spec => StatusFollowsTable
<1> DEFINE Step == quote.live /\ quote'.live /\ quote'.status # quote.status =>
                      \/ quote'.status \in Transitions(quote.status)
                      \/ shipment' # shipment /\ quote'.status = "CONVERTED_TO_SHIPMENT"
<1>1. TypeOK /\ Made /\ Moves /\ [Next]_vars => Step
  <2> SUFFICES ASSUME TypeOK, Made, Moves, [Next]_vars PROVE Step
    OBVIOUS
  <2> USE QuotesAssumption DEF TypeOK
  <2>1. ASSUME NEW r \in Requests, NEW s \in Sends, BeginCreate(r, s) PROVE Step
    BY <2>1 DEF BeginCreate
  <2>2. ASSUME NEW r \in Requests, NEW s \in Sends, Load(r, s) PROVE Step
    BY <2>2 DEF Load
  <2>3. ASSUME NEW r \in Requests, SaveEarly(r) PROVE Step
    BY <2>3 DEF SaveEarly, Made, Creators, Is
  <2>4. ASSUME NEW r \in Requests, Insert(r) PROVE Step
    BY <2>4 DEF Insert, Made, Creators, Is
  <2>5. ASSUME NEW r \in Requests, CompleteCreate(r) PROVE Step
    BY <2>5, CompletedRow DEF CompleteCreate
  <2>6. ASSUME NEW r \in Requests, FlushContact(r) PROVE Step
    BY <2>6, WriteKeeps DEF FlushContact
  <2>7. ASSUME NEW r \in Requests, FlushHandler(r) PROVE Step
    BY <2>7, WriteKeeps DEF FlushHandler
  <2>8. ASSUME NEW r \in Requests, InsertShipment(r) PROVE Step
    BY <2>8, ShippedRow
  <2>9. ASSUME NEW r \in Requests, FlushEdit(r) PROVE Step
    <3>1. /\ quote'.live = quote.live
          /\ \/ quote' = quote
             \/ quote'.status = quote.status
             \/ sent[r].status # "none" /\ quote'.status = sent[r].status
      BY <2>9, EditedRow
    <3>2. pc[r] = "flush" /\ Is(r, {"edit", "move"})
      BY <2>9 DEF FlushEdit, Is
    <3>3. QED
      BY <3>1, <3>2 DEF Moves, Transitions
  <2>10. ASSUME NEW r \in Requests, FlushMove(r) PROVE Step
    <3>1. /\ quote'.live = quote.live
          /\ \/ quote' = quote
             \/ quote'.status = quote.status
             \/ sent[r].status # "none" /\ quote'.status = sent[r].status
      BY <2>10, EditedRow
    <3>2. pc[r] = "flush" /\ Is(r, {"edit", "move"})
      BY <2>10 DEF FlushMove, Is
    <3>3. QED
      BY <3>1, <3>2 DEF Moves, Transitions
  <2>11. ASSUME NEW r \in Requests, FlushDelete(r) PROVE Step
    BY <2>11 DEF FlushDelete, NoQuote
  <2>12. ASSUME NEW r \in Requests, CheckFavourite(r) PROVE Step
    BY <2>12 DEF CheckFavourite
  <2>13. ASSUME NEW r \in Requests, InsertFavourite(r) PROVE Step
    BY <2>13 DEF InsertFavourite
  <2>14. ASSUME NEW r \in Requests, FindFavourite(r) PROVE Step
    BY <2>14 DEF FindFavourite
  <2>15. ASSUME NEW r \in Requests, RemoveFavourite(r) PROVE Step
    BY <2>15 DEF RemoveFavourite
  <2>16. ASSUME NEW r \in Requests, Interrupt(r) PROVE Step
    BY <2>16 DEF Interrupt
  <2>17. CASE UNCHANGED vars
    BY <2>17 DEF vars
  <2> HIDE DEF TypeOK
  <2>18. QED
    BY <2>1, <2>2, <2>3, <2>4, <2>5, <2>6, <2>7, <2>8, <2>9, <2>10, <2>11, <2>12,
       <2>13, <2>14, <2>15, <2>16, <2>17 DEF Next
<1>2. QED
  BY <1>1, TypeCorrect, MadeHolds, MovesHold, PTL DEF Spec, StatusFollowsTable


\* A creation holds what its kind requires at each of its flushes.
LEMMA BuildingHolds == Spec => []Building
<1> USE QuotesAssumption
<1>1. Init => Building
  <2> SUFFICES ASSUME Init PROVE Building
    OBVIOUS
  <2>1. quote.live => \A p \in Required(kind) : quote.by[p] # "none"
    BY RequiredParts DEF Init, NoQuote, Original
  <2>2. quote.live => quote.born = "origin"
    BY DEF Init, NoQuote, Original
  <2>3. QED
    BY <2>1, <2>2 DEF Init, Building, HalfMadeWasCutShort
<1>2. TypeOK /\ Made /\ Building /\ [Next]_vars => Building'
  <2> SUFFICES ASSUME TypeOK, Made, Building, [Next]_vars PROVE Building'
    OBVIOUS
  <2> USE RequiredParts DEF TypeOK, Building, HalfMadeWasCutShort, Is, Goto, Creators, Made, QuoteRow
  <2>1. ASSUME NEW r \in Requests, NEW s \in Sends, BeginCreate(r, s)
        PROVE Building'
    BY <2>1 DEF BeginCreate, CreateRefuses, Unshippable
  <2>2. ASSUME NEW r \in Requests, NEW s \in Sends, Load(r, s) PROVE Building'
    BY <2>2 DEF Load
  <2>3. ASSUME NEW r \in Requests, SaveEarly(r) PROVE Building'
    <3>1. CASE sent[r].status = "none"
      BY <2>3, <3>1 DEF SaveEarly
    <3>2. CASE sent[r].status # "none"
      <4>1. sent[r].status \in Status
        BY <3>2 DEF Sent
      <4> DEFINE parts == Built(kind, sent[r].parts) \ {"spotDetails"}
      <4>0. \A p \in Required(kind) : p # "spotDetails" => p \in parts /\ p \in Part
        BY <2>3, RequiredParts DEF SaveEarly
      <4>5. quote' = NewQuote(r, parts, sent[r].status)
        BY <2>3, <3>2 DEF SaveEarly
      <4> HIDE DEF parts
      <4>2. /\ quote'.live
            /\ quote'.born = r
            /\ \A p \in Required(kind) : p # "spotDetails" => quote'.by[p] # "none"
        BY <4>0, <4>1, <4>5, NewQuoteRow
      <4>3. pc' = [pc EXCEPT ![r] = "second"] /\ UNCHANGED <<kind, sent>> /\ pc[r] = "early"
        BY <2>3, <3>2 DEF SaveEarly
      <4>4. QED
        BY <4>2, <4>3
    <3>3. QED
      BY <3>1, <3>2
  <2>4. ASSUME NEW r \in Requests, Insert(r) PROVE Building'
    <3>1. Stated(r) \in Status /\ "CONVERTED_TO_SHIPMENT" \in Status
      BY DEF Stated, Sent, Status
    <3>2. /\ quote'.live
          /\ quote'.born = r
          /\ \A p \in Required(kind) : quote'.by[p] # "none"
      <4> DEFINE status == IF Is(r, {"direct"}) THEN "CONVERTED_TO_SHIPMENT" ELSE Stated(r)
      <4>1. status \in Status
        BY <3>1
      <4>2. quote' = NewQuote(r, Built(kind, sent[r].parts), status) /\ pc[r] = "insert"
        BY <2>4 DEF Insert
      <4> HIDE DEF status
      <4>3. /\ quote'.live /\ quote'.born = r
            /\ \A p \in Part : quote'.by[p] = IF p \in Built(kind, sent[r].parts) THEN r ELSE "none"
        BY <4>1, <4>2, NewQuoteRow
      <4>4. Required(kind) \subseteq Part /\ Required(kind) \subseteq Built(kind, sent[r].parts)
        <5>1. Required(kind) \subseteq sent[r].parts
          BY <4>2 DEF Building
        <5>2. kind \in Kind
          OBVIOUS
        <5>3. QED
          BY <5>1, <5>2, RequiredParts
      <4>5. QED
        BY <4>3, <4>4, QuotesAssumption
    <3>3. pc' = [pc EXCEPT ![r] = "done"] /\ UNCHANGED <<kind, sent>> /\ pc[r] = "insert"
      BY <2>4 DEF Insert
    <3>4. QED
      BY <3>2, <3>3
  <2>5. ASSUME NEW r \in Requests, CompleteCreate(r) PROVE Building'
    <3>4. quote'.live = quote.live /\ quote'.born = quote.born
      BY <2>5, CompletedRow
    <3>5. ASSUME quote' = quote
          PROVE quote'.live => \A p \in Required(kind) : quote'.by[p] # "none"
      BY <2>5, <3>5 DEF CompleteCreate
    <3>6. ASSUME quote.live, quote' = [quote EXCEPT !.by["spotDetails"] = r]
          PROVE \A p \in Required(kind) : quote'.by[p] # "none"
      BY <3>6
    <3>1. quote'.live => \A p \in Required(kind) : quote'.by[p] # "none"
      BY <2>5, <3>5, <3>6 DEF CompleteCreate
    <3>2. /\ \E label \in {"done", "told"} : pc' = [pc EXCEPT ![r] = label]
          /\ UNCHANGED <<kind, sent>>
      BY <2>5 DEF CompleteCreate
    <3>3. QED
      BY <3>1, <3>2, <3>4
  <2>6. ASSUME NEW r \in Requests, FlushContact(r) PROVE Building'
    <3>1. /\ quote'.born = quote.born
          /\ quote'.live = quote.live
          /\ \A p \in Part : quote.by[p] # "none" => quote'.by[p] # "none"
      BY <2>6, PartsStay
    <3>2. /\ kind' = kind
          /\ sent' = sent
          /\ pc[r] \in {"edit", "half", "flush"}
          /\ \E label \in {"half", "book", "told", "done"} : pc' = [pc EXCEPT ![r] = label]
      BY <2>6 DEF FlushContact, Goto
    <3>3. quote.live /\ quote.born \in Requests => pc[quote.born] = pc'[quote.born] \/ quote.born = r
      BY <3>2
    <3>4. QED
      BY <3>1, <3>2, <3>3, RequiredParts
  <2>7. ASSUME NEW r \in Requests, FlushHandler(r) PROVE Building'
    <3>1. /\ quote'.born = quote.born
          /\ quote'.live = quote.live
          /\ \A p \in Part : quote.by[p] # "none" => quote'.by[p] # "none"
      BY <2>7, PartsStay
    <3>2. /\ kind' = kind
          /\ sent' = sent
          /\ pc[r] \in {"edit", "half", "flush"}
          /\ \E label \in {"half", "book", "told", "done"} : pc' = [pc EXCEPT ![r] = label]
      BY <2>7 DEF FlushHandler, Goto
    <3>3. quote.live /\ quote.born \in Requests => pc[quote.born] = pc'[quote.born] \/ quote.born = r
      BY <3>2
    <3>4. QED
      BY <3>1, <3>2, <3>3, RequiredParts
  <2>8. ASSUME NEW r \in Requests, InsertShipment(r) PROVE Building'
    <3>1. quote'.by = quote.by /\ quote'.live = quote.live /\ quote'.born = quote.born
      BY <2>8, ShippedRow
    <3>2. /\ \E label \in {"done", "told"} : pc' = [pc EXCEPT ![r] = label]
          /\ UNCHANGED <<kind, sent>>
          /\ pc[r] = "book" \/ (pc[r] = "second" /\ Is(r, {"direct"}))
      BY <2>8 DEF InsertShipment
    <3>3. CASE pc[r] = "book"
      BY <3>1, <3>2, <3>3
    <3>4. CASE kind \notin SpotKind
      BY <3>1, <3>2, <3>4
    <3>5. QED
      BY <3>2, <3>3, <3>4
  <2>9. ASSUME NEW r \in Requests, FlushEdit(r) PROVE Building'
    <3>1. /\ quote'.born = quote.born
          /\ quote'.live = quote.live
          /\ \A p \in Part : quote.by[p] # "none" => quote'.by[p] # "none"
      BY <2>9, PartsStay
    <3>2. /\ kind' = kind
          /\ sent' = sent
          /\ pc[r] \in {"edit", "half", "flush"}
          /\ \E label \in {"half", "book", "told", "done"} : pc' = [pc EXCEPT ![r] = label]
      BY <2>9 DEF FlushEdit, Goto
    <3>3. quote.live /\ quote.born \in Requests => pc[quote.born] = pc'[quote.born] \/ quote.born = r
      BY <3>2
    <3>4. QED
      BY <3>1, <3>2, <3>3, RequiredParts
  <2>10. ASSUME NEW r \in Requests, FlushMove(r) PROVE Building'
    <3>1. /\ quote'.born = quote.born
          /\ quote'.live = quote.live
          /\ \A p \in Part : quote.by[p] # "none" => quote'.by[p] # "none"
      BY <2>10, PartsStay
    <3>2. /\ kind' = kind
          /\ sent' = sent
          /\ pc[r] \in {"edit", "half", "flush"}
          /\ \E label \in {"half", "book", "told", "done"} : pc' = [pc EXCEPT ![r] = label]
      BY <2>10 DEF FlushMove, Goto
    <3>3. quote.live /\ quote.born \in Requests => pc[quote.born] = pc'[quote.born] \/ quote.born = r
      BY <3>2
    <3>4. QED
      BY <3>1, <3>2, <3>3, RequiredParts
  <2>11. ASSUME NEW r \in Requests, FlushDelete(r) PROVE Building'
    BY <2>11 DEF FlushDelete, NoQuote
  <2>12. ASSUME NEW r \in Requests, CheckFavourite(r) PROVE Building'
    BY <2>12 DEF CheckFavourite
  <2>13. ASSUME NEW r \in Requests, InsertFavourite(r) PROVE Building'
    BY <2>13 DEF InsertFavourite
  <2>14. ASSUME NEW r \in Requests, FindFavourite(r) PROVE Building'
    BY <2>14 DEF FindFavourite
  <2>15. ASSUME NEW r \in Requests, RemoveFavourite(r) PROVE Building'
    BY <2>15 DEF RemoveFavourite
  <2>16. ASSUME NEW r \in Requests, Interrupt(r) PROVE Building'
    BY <2>16 DEF Interrupt, InFlight
  <2>17. CASE UNCHANGED vars
    BY <2>17 DEF vars
  <2> HIDE DEF TypeOK, Building, HalfMadeWasCutShort, Is, Goto, Creators, Made, QuoteRow
  <2>18. QED
    BY <2>1, <2>2, <2>3, <2>4, <2>5, <2>6, <2>7, <2>8, <2>9, <2>10, <2>11, <2>12,
       <2>13, <2>14, <2>15, <2>16, <2>17 DEF Next
<1>3. QED
  BY <1>1, <1>2, TypeCorrect, MadeHolds, PTL DEF Spec

\* A quote without a part its type requires was left by a creation between
\* its two flushes, and by nothing that happened to it afterwards.
THEOREM HalfMadeMeansCutShort == Spec => []HalfMadeWasCutShort
<1>1. Building => HalfMadeWasCutShort
  BY DEF Building
<1>2. QED
  BY <1>1, BuildingHolds, PTL

----------------------------------------------------------------------------
\* Where a handler must stand to have written a part.
Wrote(q, p) ==
    \/ pc[q] \in {"book", "told", "done", "interrupted"}
    \/ pc[q] = "second" /\ p # "spotDetails"
    \/ pc[q] = "half" /\ p \in Halfway(q)

\* Whether a part is there, or was for somebody who loaded it.
Known(q, p) == quote.by[p] = q \/ \E r \in Requests : copy[r].by[p] = q

\* A part that is there was written by a handler that is past it, and so was
\* what a handler has loaded: nobody writes a part twice, so that what a
\* handler has written is never what it, or anybody, had loaded before.
Whole ==
    /\ ~quote.live => \A p \in Part : quote.by[p] = "none"
    /\ \A q \in Requests : \A p \in Part : Known(q, p) => Wrote(q, p)
    /\ \A c \in Creators :
          /\ pc[c] # "absent" /\ quote.live => quote.born = c
          /\ pc[c] \in {"idle", "early", "insert"} =>
                \A r \in Requests : pc[r] \notin {"edit", "half"}
    /\ \A r \in Requests :
          pc[r] = "half" /\ quote.live => \A p \in Halfway(r) : quote.by[p] # copy[r].by[p]
    /\ EditsComeWhole

\* What a handler stores are parts.
LEMMA StoredParts ==
    ASSUME TypeOK, NEW r \in Requests
    PROVE Stored(r) \subseteq Part
<1>1. sent[r].parts \subseteq Part
  BY DEF TypeOK, Sent
<1>2. QED
  BY <1>1 DEF Stored, UpdateStores, HandlerStores

\* It is settled by what the handler was sent and has loaded.
LEMMA StoredStays ==
    ASSUME NEW r \in Requests, kind' = kind, sent'[r] = sent[r], copy'[r] = copy[r]
    PROVE Stored(r)' = Stored(r) /\ Halfway(r)' = Halfway(r)
<1>1. Stored(r)' = Stored(r)
  BY DEF Stored, Editable, Missing, Is
<1>2. QED
  BY <1>1 DEF Halfway

\* A step that leaves the parts of the row alone: a handler starts, or ends.
LEMMA WholeKept ==
    ASSUME TypeOK, Made, Whole, NEW r \in Requests, NEW label,
           pc' = [pc EXCEPT ![r] = label],
           kind' = kind,
           quote'.by = quote.by, quote'.live = quote.live, quote'.born = quote.born,
           pc[r] \notin {"absent"},
           \A q \in Requests \ {r} : sent'[q] = sent[q] /\ copy'[q] = copy[q],
           \/ /\ pc[r] = "idle"
              /\ label \in {"early", "insert", "edit", "flush", "told", "done"}
              /\ copy'[r] = copy[r] \/ copy'[r] = quote
              /\ label = "edit" => quote.live /\ r \notin Creators
           \/ /\ label \in {"book", "told", "done", "interrupted"}
              /\ sent' = sent /\ copy' = copy
    PROVE Whole'
<1> USE QuotesAssumption
<1>1. /\ pc'[r] = label
      /\ \A q \in Requests \ {r} : pc'[q] = pc[q]
      /\ label # "half" /\ label # "absent" /\ label # "idle"
  BY DEF TypeOK
<1>2. \A q \in Requests \ {r} : Stored(q)' = Stored(q) /\ Halfway(q)' = Halfway(q)
  BY StoredStays
<1>3. \A q \in Requests : \A p : Wrote(q, p) => Wrote(q, p)'
  <2> SUFFICES ASSUME NEW q \in Requests, NEW p, Wrote(q, p) PROVE Wrote(q, p)'
    OBVIOUS
  <2>1. CASE q # r
    BY <1>1, <1>2, <2>1 DEF Wrote
  <2>2. CASE q = r
    BY <1>1, <2>2 DEF Wrote
  <2>3. QED
    BY <2>1, <2>2
<1>4. \A q \in Requests : \A p \in Part : Known(q, p) => Wrote(q, p)
  BY DEF Whole
<1>5. \A q \in Requests : \A p \in Part : Known(q, p)' => Wrote(q, p)'
  <2>1. \A q \in Requests : copy'[q] = copy[q] \/ copy'[q] = quote
    OBVIOUS
  <2>2. \A q \in Requests : \A p \in Part : Known(q, p)' => Known(q, p)
    BY <2>1 DEF Known
  <2>3. QED
    BY <1>3, <1>4, <2>2
<1>6. \A c \in Creators :
          /\ pc'[c] # "absent" /\ quote'.live => quote'.born = c
          /\ pc'[c] \in {"idle", "early", "insert"} =>
                \A q \in Requests : pc'[q] \notin {"edit", "half"}
  <2> SUFFICES ASSUME NEW c \in Creators
               PROVE /\ pc'[c] # "absent" /\ quote'.live => quote'.born = c
                     /\ pc'[c] \in {"idle", "early", "insert"} =>
                           \A q \in Requests : pc'[q] \notin {"edit", "half"}
    OBVIOUS
  <2>0. c \in Requests
    BY DEF Creators
  <2>1. pc'[c] # "absent" => pc[c] # "absent"
    BY <1>1, <2>0
  <2>2. pc'[c] \in {"idle", "early", "insert"} => pc[c] \in {"idle", "early", "insert"}
    BY <1>1, <2>0
  <2>3. pc[c] \in {"idle", "early", "insert"} =>
            ~quote.live /\ \A q \in Requests : pc[q] \notin {"edit", "half"}
    BY DEF Made, Whole
  <2>4. pc[c] # "absent" /\ quote.live => quote.born = c
    BY DEF Whole
  <2>5. QED
    BY <1>1, <2>1, <2>2, <2>3, <2>4
<1>7. \A q \in Requests :
          pc'[q] = "half" /\ quote'.live => \A p \in Halfway(q)' : quote'.by[p] # copy'[q].by[p]
  <2> SUFFICES ASSUME NEW q \in Requests, pc'[q] = "half", quote'.live
               PROVE \A p \in Halfway(q)' : quote'.by[p] # copy'[q].by[p]
    OBVIOUS
  <2>1. q # r
    BY <1>1
  <2>2. \A p \in Halfway(q) : quote.by[p] # copy[q].by[p]
    BY <1>1, <2>1 DEF Whole
  <2>3. QED
    BY <1>2, <2>1, <2>2
<1>8. EditsComeWhole'
  <2> SUFFICES ASSUME NEW q \in Requests,
                      \E p \in Part \ Ends : quote'.by[p] = q /\ quote'.born # q
               PROVE \A p \in Stored(q)' : quote'.by[p] # copy'[q].by[p]
    BY DEF EditsComeWhole
  <2>1. CASE sent'[q] = sent[q] /\ copy'[q] = copy[q]
    <3>1. Stored(q)' = Stored(q)
      BY <2>1, StoredStays
    <3>2. \A p \in Stored(q) : quote.by[p] # copy[q].by[p]
      BY DEF Whole, EditsComeWhole
    <3>3. QED
      BY <2>1, <3>1, <3>2
  <2>2. CASE q = r /\ pc[r] = "idle"
    <3>1. PICK p \in Part : quote.by[p] = r
      BY <2>2
    <3>2. Wrote(r, p)
      BY <1>4, <3>1 DEF Known
    <3>3. QED
      BY <2>2, <3>2 DEF Wrote
  <2>3. QED
    BY <2>1, <2>2
<1>9. quote'.live = quote.live /\ (~quote'.live => \A p \in Part : quote'.by[p] = "none")
  BY DEF Whole
<1>10. QED
  BY <1>5, <1>6, <1>7, <1>8, <1>9 DEF Whole, Creators, Is

\* A step that writes parts its handler has not written before: a new contact
\* halfway, the rest at the end.
LEMMA WholeWritten ==
    ASSUME TypeOK, Made, Whole, NEW r \in Requests, NEW parts, NEW label,
           pc' = [pc EXCEPT ![r] = label],
           kind' = kind, sent' = sent, copy' = copy,
           quote.live, quote'.live, quote'.born = quote.born,
           \A p \in Part : quote'.by[p] = IF p \in parts THEN r ELSE quote.by[p],
           pc[r] \in {"edit", "half", "flush", "second"},
           \A p \in parts : ~Wrote(r, p),
           \/ /\ label = "half"
              /\ pc[r] = "edit"
              /\ parts = Halfway(r)
           \/ /\ label \in {"book", "done"}
              /\ \/ r \in Creators
                 \/ \A p \in Stored(r) : p \in parts \/ (pc[r] = "half" /\ p \in Halfway(r))
    PROVE Whole'
<1> USE QuotesAssumption
<1>1. /\ pc'[r] = label
      /\ \A q \in Requests \ {r} : pc'[q] = pc[q]
      /\ label \in {"half", "book", "done"}
  BY DEF TypeOK
<1>2. \A q \in Requests : Stored(q)' = Stored(q) /\ Halfway(q)' = Halfway(q)
  BY StoredStays
<1>3. \A q \in Requests : \A p : Wrote(q, p) => Wrote(q, p)'
  <2> SUFFICES ASSUME NEW q \in Requests, NEW p, Wrote(q, p) PROVE Wrote(q, p)'
    OBVIOUS
  <2>1. CASE q # r
    BY <1>1, <1>2, <2>1 DEF Wrote
  <2>2. CASE q = r
    BY <1>1, <2>2 DEF Wrote
  <2>3. QED
    BY <2>1, <2>2
<1>4. \A q \in Requests : \A p \in Part : Known(q, p) => Wrote(q, p)
  BY DEF Whole
<1>5. \A p \in parts : Wrote(r, p)'
  BY <1>1, <1>2 DEF Wrote
<1>6. \A p \in Part : p \in parts => \A q \in Requests : copy[q].by[p] # r
  BY <1>4 DEF Known
<1>7. \A q \in Requests : \A p \in Part : Known(q, p)' => Wrote(q, p)'
  <2>1. \A q \in Requests : \A p \in Part :
           Known(q, p)' => Known(q, p) \/ (q = r /\ p \in parts)
    BY DEF Known
  <2>2. QED
    BY <1>3, <1>4, <1>5, <2>1
<1>8. \A c \in Creators :
          /\ pc'[c] # "absent" /\ quote'.live => quote'.born = c
          /\ pc'[c] \in {"idle", "early", "insert"} =>
                \A q \in Requests : pc'[q] \notin {"edit", "half"}
  <2> SUFFICES ASSUME NEW c \in Creators
               PROVE /\ pc'[c] # "absent" => quote.born = c
                     /\ pc'[c] \notin {"idle", "early", "insert"}
    OBVIOUS
  <2>1. c \in Requests
    BY DEF Creators
  <2>2. pc'[c] # "absent" => pc[c] # "absent"
    BY <1>1, <2>1
  <2>3. pc'[c] \in {"idle", "early", "insert"} => pc[c] \in {"idle", "early", "insert"}
    BY <1>1, <2>1
  <2>4. pc[c] \notin {"idle", "early", "insert"}
    BY DEF Made
  <2>5. pc[c] # "absent" => quote.born = c
    BY DEF Whole
  <2>6. QED
    BY <2>2, <2>3, <2>4, <2>5
<1>9. \A q \in Requests : \A p \in Halfway(q) : p \in Part
  BY StoredParts DEF Halfway
<1>10. \A q \in Requests :
          pc'[q] = "half" => \A p \in Halfway(q) : quote'.by[p] # copy[q].by[p]
  <2> SUFFICES ASSUME NEW q \in Requests, pc'[q] = "half", NEW p \in Halfway(q)
               PROVE quote'.by[p] # copy[q].by[p]
    OBVIOUS
  <2>1. p \in Part
    BY <1>9
  <2>2. CASE p \in parts
    BY <1>6, <2>1, <2>2
  <2>3. CASE p \notin parts
    <3>1. q # r
      BY <1>1, <2>3
    <3>2. quote.by[p] # copy[q].by[p]
      BY <1>1, <3>1 DEF Whole
    <3>3. QED
      BY <2>1, <2>3, <3>2
  <2>4. QED
    BY <2>2, <2>3
<1>11. ASSUME NEW q \in Requests,
              \E p \in Part \ Ends : quote'.by[p] = q /\ quote'.born # q,
              NEW s \in Stored(q)
       PROVE quote'.by[s] # copy[q].by[s]
  <2>1. s \in Part
    BY StoredParts
  <2>2. CASE s \in parts
    BY <1>6, <2>1, <2>2
  <2>3. CASE s \notin parts /\ quote.by[s] # copy[q].by[s]
    BY <2>1, <2>3
  <2>4. PICK p \in Part \ Ends : quote'.by[p] = q /\ quote.born # q
    BY <1>11
  <2>5. CASE quote.by[p] = q
    <3>1. quote.by[s] # copy[q].by[s]
      BY <2>4, <2>5 DEF Whole, EditsComeWhole
    <3>2. QED
      BY <2>2, <2>3, <3>1
  <2>6. CASE q = r /\ p \in parts
    <3>1. r \notin Creators
      BY <2>4, <2>6 DEF Whole
    <3>2. label # "half"
      BY <2>4, <2>6 DEF Halfway, Ends
    <3>3. CASE s \in Halfway(r) /\ pc[r] = "half"
      <4>1. quote.by[s] # copy[r].by[s]
        BY <3>3 DEF Whole
      <4>2. QED
        BY <2>2, <2>3, <2>6, <4>1
    <3>4. QED
      BY <2>2, <2>6, <3>1, <3>2, <3>3
  <2>7. QED
    BY <2>4, <2>5, <2>6
<1>12. EditsComeWhole'
  BY <1>2, <1>11 DEF EditsComeWhole
<1>13. QED
  BY <1>2, <1>7, <1>8, <1>10, <1>12 DEF Whole, Creators, Is

\* A creator's first flush: nobody else holds the quote.
LEMMA WholeCreated ==
    ASSUME TypeOK, Made, Whole, NEW r \in Requests, NEW label,
           pc' = [pc EXCEPT ![r] = label],
           kind' = kind, sent' = sent, copy' = copy,
           pc[r] \in {"early", "insert"},
           quote'.live, quote'.born = r,
           \A p \in Part : quote'.by[p] \in {r, "none"},
           \/ label = "done"
           \/ label = "second" /\ quote'.by["spotDetails"] = "none"
    PROVE Whole'
<1> USE QuotesAssumption
<1>1. /\ pc'[r] = label
      /\ \A q \in Requests \ {r} : pc'[q] = pc[q]
      /\ label \in {"second", "done"}
  BY DEF TypeOK
<1>2. \A q \in Requests : Stored(q)' = Stored(q) /\ Halfway(q)' = Halfway(q)
  BY StoredStays
<1>3. r \in Creators /\ \A c \in Creators : pc[c] # "absent" => c = r
  BY DEF Made
<1>4. \A q \in Requests : pc'[q] \notin {"edit", "half"}
  BY <1>1, <1>3 DEF Whole
<1>5. \A q \in Requests : \A p : Wrote(q, p) => Wrote(q, p)'
  <2> SUFFICES ASSUME NEW q \in Requests, NEW p, Wrote(q, p) PROVE Wrote(q, p)'
    OBVIOUS
  <2>1. CASE q # r
    BY <1>1, <1>2, <2>1 DEF Wrote
  <2>2. CASE q = r
    BY <1>1, <2>2 DEF Wrote
  <2>3. QED
    BY <2>1, <2>2
<1>6. \A q \in Requests : \A p \in Part : Known(q, p) => Wrote(q, p)
  BY DEF Whole
<1>7. \A q \in Requests : \A p \in Part : Known(q, p)' => Wrote(q, p)'
  <2>1. \A q \in Requests : \A p \in Part :
           Known(q, p)' => Known(q, p) \/ (q = r /\ quote'.by[p] = r)
    BY DEF Known
  <2>2. \A p \in Part : quote'.by[p] = r => Wrote(r, p)'
    BY <1>1 DEF Wrote
  <2>3. QED
    BY <1>5, <1>6, <2>1, <2>2
<1>8. \A c \in Creators :
          /\ pc'[c] # "absent" /\ quote'.live => quote'.born = c
          /\ pc'[c] \in {"idle", "early", "insert"} =>
                \A q \in Requests : pc'[q] \notin {"edit", "half"}
  <2>1. \A c \in Creators : c \in Requests
    BY DEF Creators
  <2>2. QED
    BY <1>1, <1>3, <1>4, <2>1
<1>9. EditsComeWhole'
  BY DEF EditsComeWhole
<1>10. QED
  BY <1>4, <1>7, <1>8, <1>9 DEF Whole, Creators, Is

\* A flush of a contact or a deletion that leaves no row: nobody has parts.
LEMMA WholeGone ==
    ASSUME TypeOK, Made, Whole, NEW r \in Requests, NEW label,
           pc' = [pc EXCEPT ![r] = label],
           kind' = kind, sent' = sent, copy' = copy,
           ~quote'.live, \A p \in Part : quote'.by[p] = "none",
           \/ pc[r] = "flush" /\ label \in {"done", "told"}
           \/ pc[r] = "edit" /\ label = "half"
    PROVE Whole'
<1> USE QuotesAssumption
<1>1. /\ pc'[r] = label
      /\ \A q \in Requests \ {r} : pc'[q] = pc[q]
  BY DEF TypeOK
<1>2. \A q \in Requests : Halfway(q)' = Halfway(q)
  BY StoredStays
<1>3. \A q \in Requests : \A p : Wrote(q, p) => Wrote(q, p)'
  <2> SUFFICES ASSUME NEW q \in Requests, NEW p, Wrote(q, p) PROVE Wrote(q, p)'
    OBVIOUS
  <2>1. CASE q # r
    BY <1>1, <1>2, <2>1 DEF Wrote
  <2>2. CASE q = r
    BY <1>1, <2>2 DEF Wrote
  <2>3. QED
    BY <2>1, <2>2
<1>4. \A q \in Requests : \A p \in Part : Known(q, p) => Wrote(q, p)
  BY DEF Whole
<1>5. \A q \in Requests : \A p \in Part : Known(q, p)' => Wrote(q, p)'
  <2>1. \A q \in Requests : \A p \in Part : Known(q, p)' => Known(q, p)
    BY DEF Known
  <2>2. QED
    BY <1>3, <1>4, <2>1
<1>6. \A c \in Creators :
          pc'[c] \in {"idle", "early", "insert"} =>
             \A q \in Requests : pc'[q] \notin {"edit", "half"}
  <2>1. \A c \in Creators : c \in Requests
    BY DEF Creators
  <2>2. \A c \in Creators :
          pc[c] \in {"idle", "early", "insert"} =>
             /\ \A q \in Requests : pc[q] \notin {"edit", "half", "flush"}
    BY DEF Whole, Made
  <2>3. QED
    BY <1>1, <2>1, <2>2
<1>7. EditsComeWhole'
  BY DEF EditsComeWhole
<1>8. QED
  BY <1>5, <1>6, <1>7 DEF Whole, Creators, Is

\* A handler writes what it has not written before, wherever it is cut.
LEMMA WholeHolds == Spec => []Whole
<1> USE QuotesAssumption
<1>1. Init => Whole
  <2> SUFFICES ASSUME Init PROVE Whole
    OBVIOUS
  <2>1. \A p \in Part : quote.by[p] \in {"none", "origin"} /\ \A r \in Requests : copy[r].by[p] = "none"
    BY DEF Init, NoQuote, Original
  <2>2. \A r \in Requests : pc[r] \in {"idle", "absent"}
    BY DEF Init
  <2>3. \A c \in Creators : pc[c] # "absent" => ~quote.live
    BY DEF Init, NoQuote, Creators
  <2>4. ~quote.live => \A p \in Part : quote.by[p] = "none"
    BY DEF Init, NoQuote, Original
  <2>5. QED
    BY <2>1, <2>2, <2>3, <2>4 DEF Whole, Known, EditsComeWhole
<1>2. TypeOK /\ Made /\ Whole /\ [Next]_vars => Whole'
  <2> SUFFICES ASSUME TypeOK, Made, Whole, [Next]_vars PROVE Whole'
    OBVIOUS
  <2>1. ASSUME NEW r \in Requests, NEW s \in Sends, BeginCreate(r, s) PROVE Whole'
    <3>1. PICK label \in {"told", "early", "insert"} : pc' = [pc EXCEPT ![r] = label]
      BY <2>1 DEF BeginCreate, Goto
    <3>2. /\ pc[r] = "idle" /\ UNCHANGED <<kind, quote, copy>>
          /\ \A q \in Requests \ {r} : sent'[q] = sent[q]
      <4>1. sent' = [sent EXCEPT ![r] = s] /\ pc[r] = "idle" /\ UNCHANGED <<kind, quote, copy>>
        BY <2>1 DEF BeginCreate
      <4>2. QED
        BY <4>1 DEF TypeOK
    <3>3. QED
      BY <3>1, <3>2, WholeKept
  <2>2. ASSUME NEW r \in Requests, NEW s \in Sends, Load(r, s) PROVE Whole'
    <3>1. PICK label \in {"told", "edit", "flush"} :
             pc' = [pc EXCEPT ![r] = label] /\ (label = "edit" => quote.live)
      BY <2>2, LoadGoes
    <3>2. /\ pc[r] = "idle" /\ UNCHANGED <<kind, quote>>
          /\ \A q \in Requests \ {r} : sent'[q] = sent[q] /\ copy'[q] = copy[q]
          /\ copy'[r] = quote
          /\ r \notin Creators
      BY <2>2 DEF Load, TypeOK, Creators, Is
    <3>3. QED
      BY <3>1, <3>2, WholeKept
  <2>3. ASSUME NEW r \in Requests, SaveEarly(r) PROVE Whole'
    <3>1. /\ pc[r] = "early" /\ UNCHANGED <<kind, sent, copy>>
      BY <2>3 DEF SaveEarly
    <3>2. CASE quote' = quote /\ pc' = [pc EXCEPT ![r] = "told"]
      BY <3>1, <3>2, WholeKept
    <3>3. ASSUME NEW parts, "spotDetails" \notin parts, sent[r].status # "none",
                 quote' = NewQuote(r, parts, sent[r].status), pc' = [pc EXCEPT ![r] = "second"]
          PROVE Whole'
      <4>1. sent[r].status \in Status
        BY <3>3 DEF TypeOK, Sent
      <4>2. /\ quote'.live /\ quote'.born = r
            /\ \A p \in Part : quote'.by[p] = IF p \in parts THEN r ELSE "none"
        BY <3>3, <4>1, NewQuoteRow
      <4>3. quote'.by["spotDetails"] = "none" /\ \A p \in Part : quote'.by[p] \in {r, "none"}
        BY <3>3, <4>2 DEF Part
      <4>4. QED
        BY <3>1, <3>3, <4>2, <4>3, WholeCreated
    <3>4. "spotDetails" \notin Built(kind, sent[r].parts) \ {"spotDetails"}
      OBVIOUS
    <3>5. QED
      BY <2>3, <3>2, <3>3, <3>4 DEF SaveEarly, Goto
  <2>4. ASSUME NEW r \in Requests, Insert(r) PROVE Whole'
    <3>1. Stated(r) \in Status /\ "CONVERTED_TO_SHIPMENT" \in Status
      BY DEF Stated, TypeOK, Sent, Status
    <3>2. /\ pc[r] = "insert" /\ UNCHANGED <<kind, sent, copy>>
          /\ pc' = [pc EXCEPT ![r] = "done"]
      BY <2>4 DEF Insert, Goto
    <3>3. /\ quote'.live /\ quote'.born = r
          /\ \A p \in Part : quote'.by[p] \in {r, "none"}
      BY <2>4, <3>1, NewQuoteRow DEF Insert
    <3>4. QED
      BY <3>2, <3>3, WholeCreated
  <2>5. ASSUME NEW r \in Requests, CompleteCreate(r) PROVE Whole'
    <3>1. /\ pc[r] = "second" /\ UNCHANGED <<kind, sent, copy>> /\ r \in Creators
      BY <2>5 DEF CompleteCreate, Creators, Is
    <3>2. CASE quote' = quote
      <4>1. \E label \in {"done", "told"} : pc' = [pc EXCEPT ![r] = label]
        BY <2>5 DEF CompleteCreate, Goto
      <4>2. QED
        BY <3>1, <3>2, <4>1, WholeKept
    <3>3. CASE quote.live /\ quote' = [quote EXCEPT !.by["spotDetails"] = r]
                 /\ pc' = [pc EXCEPT ![r] = "done"]
      <4> DEFINE parts == {"spotDetails"}
      <4>1. \A p \in Part : quote'.by[p] = IF p \in parts THEN r ELSE quote.by[p]
        BY <3>3 DEF TypeOK, QuoteRow, Part
      <4>2. quote'.live = quote.live /\ quote'.born = quote.born
        BY <2>5, CompletedRow
      <4>3. \A p \in parts : ~Wrote(r, p)
        BY <3>1 DEF Wrote
      <4>4. quote.live /\ quote'.live
        BY <3>3, <4>2
      <4>5. pc[r] \in {"edit", "half", "flush", "second"} /\ "done" \in {"book", "done"}
        BY <3>1
      <4>6. kind' = kind /\ sent' = sent /\ copy' = copy /\ pc' = [pc EXCEPT ![r] = "done"]
        BY <3>1, <3>3
      <4> HIDE DEF parts
      <4>7. QED
        BY <3>1, <4>1, <4>2, <4>3, <4>4, <4>5, <4>6, WholeWritten
    <3>4. QED
      BY <2>5, <3>2, <3>3 DEF CompleteCreate, Goto
  <2>6. ASSUME NEW r \in Requests, FlushContact(r) PROVE Whole'
    <3>1. /\ pc[r] = "edit" /\ UNCHANGED <<kind, sent, copy>>
          /\ pc' = [pc EXCEPT ![r] = "half"]
      BY <2>6 DEF FlushContact, Goto
    <3>2. CASE quote.live /\ quote' = Written(r, Halfway(r))
      <4> DEFINE parts == Halfway(r)
      <4> DEFINE row == Written(r, parts)
      <4>0. /\ row.live = quote.live /\ row.born = quote.born
            /\ \A p \in Part : row.by[p] = IF p \in parts THEN r ELSE quote.by[p]
        BY WrittenRow
      <4>5. quote' = row
        BY <3>2
      <4> HIDE DEF row
      <4>1. /\ quote'.live = quote.live /\ quote'.born = quote.born
            /\ \A p \in Part : quote'.by[p] = IF p \in parts THEN r ELSE quote.by[p]
        BY <4>0, <4>5
      <4>2. \A p \in Halfway(r) : ~Wrote(r, p)
        BY <3>1 DEF Wrote
      <4>3. QED
        BY <3>1, <3>2, <4>1, <4>2, WholeWritten
    <3>3. CASE ~quote.live /\ quote' = quote
      <4>1. \A p \in Part : quote.by[p] = "none"
        BY <3>3 DEF Whole
      <4>2. QED
        BY <3>1, <3>3, <4>1, WholeGone
    <3>4. QED
      BY <2>6, <3>2, <3>3 DEF FlushContact, Write
  <2>7. ASSUME NEW r \in Requests, FlushHandler(r) PROVE Whole'
    <3> DEFINE parts == Stored(r) \ (IF pc[r] = "half" THEN Halfway(r) ELSE {})
    <3>1. /\ pc[r] \in {"edit", "half"} /\ UNCHANGED <<kind, sent, copy>>
      BY <2>7 DEF FlushHandler
    <3>2. PICK label \in {"told", "book", "done"} :
             /\ pc' = [pc EXCEPT ![r] = label]
             /\ \/ quote' = quote
                \/ quote.live /\ quote' = Written(r, parts) /\ label # "told"
      BY <2>7 DEF FlushHandler, Write, Goto
    <3>3. CASE quote' = quote
      BY <3>1, <3>2, <3>3, WholeKept
    <3>4. CASE quote.live /\ quote' = Written(r, parts) /\ label # "told"
      <4> DEFINE row == Written(r, parts)
      <4>0. /\ row.live = quote.live /\ row.born = quote.born
            /\ \A p \in Part : row.by[p] = IF p \in parts THEN r ELSE quote.by[p]
        BY WrittenRow
      <4>5. quote' = row
        BY <3>4
      <4> HIDE DEF row
      <4>1. /\ quote'.live = quote.live /\ quote'.born = quote.born
            /\ \A p \in Part : quote'.by[p] = IF p \in parts THEN r ELSE quote.by[p]
        BY <4>0, <4>5
      <4>2. /\ \A p \in parts : ~Wrote(r, p)
            /\ \A p \in Stored(r) : p \in parts \/ (pc[r] = "half" /\ p \in Halfway(r))
        BY <3>1 DEF Wrote
      <4> HIDE DEF parts
      <4>3. QED
        BY <3>1, <3>2, <3>4, <4>1, <4>2, WholeWritten
    <3>5. QED
      BY <3>2, <3>3, <3>4
  <2>8. ASSUME NEW r \in Requests, InsertShipment(r) PROVE Whole'
    <3>1. quote'.by = quote.by /\ quote'.live = quote.live /\ quote'.born = quote.born
      BY <2>8, ShippedRow
    <3>2. /\ \E label \in {"done", "told"} : pc' = [pc EXCEPT ![r] = label]
          /\ UNCHANGED <<kind, sent, copy>>
          /\ pc[r] \in {"book", "second"}
      BY <2>8 DEF InsertShipment, Goto
    <3>3. PICK label \in {"done", "told"} : pc' = [pc EXCEPT ![r] = label]
      BY <3>2
    <3>4. /\ kind' = kind /\ sent' = sent /\ copy' = copy
          /\ pc[r] \notin {"absent"}
          /\ label \in {"book", "told", "done", "interrupted"}
      BY <3>2
    <3>5. QED
      BY <3>1, <3>3, <3>4, WholeKept
  <2>9. ASSUME NEW r \in Requests, FlushEdit(r) PROVE Whole'
    <3>1. /\ pc[r] = "flush" /\ UNCHANGED <<kind, sent, copy>>
      BY <2>9 DEF FlushEdit
    <3>2. CASE quote' = quote
      <4>1. \E label \in {"done", "told"} : pc' = [pc EXCEPT ![r] = label]
        BY <2>9 DEF FlushEdit, Goto
      <4>2. QED
        BY <3>1, <3>2, <4>1, WholeKept
    <3>3. CASE /\ quote.live
               /\ quote' = Moved(Written(r, Stored(r)), r)
               /\ pc' = [pc EXCEPT ![r] = "done"]
      <4>1. Written(r, Stored(r)) \in QuoteRow
        BY WrittenRow
      <4>2. /\ quote'.born = Written(r, Stored(r)).born
            /\ quote'.live = Written(r, Stored(r)).live
            /\ quote'.by = Written(r, Stored(r)).by
        BY <3>3, <4>1, MovedRow
      <4>3. /\ quote'.live = quote.live /\ quote'.born = quote.born
            /\ \A p \in Part : quote'.by[p] = IF p \in Stored(r) THEN r ELSE quote.by[p]
        BY <4>2, WrittenRow
      <4>4. \A p \in Stored(r) : ~Wrote(r, p)
        BY <3>1 DEF Wrote
      <4>5. QED
        BY <3>1, <3>3, <4>3, <4>4, WholeWritten
    <3>4. QED
      BY <2>9, <3>2, <3>3 DEF FlushEdit, Goto
  <2>10. ASSUME NEW r \in Requests, FlushMove(r) PROVE Whole'
    <3>1. quote'.by = quote.by /\ quote'.live = quote.live /\ quote'.born = quote.born
      BY <2>10, MovedRow DEF FlushMove, TypeOK
    <3>2. /\ pc' = [pc EXCEPT ![r] = "done"] /\ pc[r] = "flush"
          /\ UNCHANGED <<kind, sent, copy>>
      BY <2>10 DEF FlushMove, Goto
    <3>3. QED
      BY <3>1, <3>2, WholeKept
  <2>11. ASSUME NEW r \in Requests, FlushDelete(r) PROVE Whole'
    <3>1. /\ \E label \in {"done", "told"} : pc' = [pc EXCEPT ![r] = label]
          /\ pc[r] = "flush" /\ UNCHANGED <<kind, sent, copy>>
      BY <2>11 DEF FlushDelete, Goto
    <3>2. CASE quote' = quote
      BY <3>1, <3>2, WholeKept
    <3>3. CASE quote.live /\ quote' = NoQuote
      <4>1. ~quote'.live /\ \A p \in Part : quote'.by[p] = "none"
        BY <3>3 DEF NoQuote
      <4>2. QED
        BY <3>1, <4>1, WholeGone
    <3>4. QED
      BY <2>11, <3>2, <3>3 DEF FlushDelete
  <2>12. ASSUME NEW r \in Requests, CheckFavourite(r) PROVE Whole'
    <3>1. /\ \E label \in {"flush", "told"} : pc' = [pc EXCEPT ![r] = label]
          /\ pc[r] = "idle" /\ UNCHANGED <<kind, quote, sent, copy>>
      BY <2>12 DEF CheckFavourite, Goto
    <3>2. QED
      BY <3>1, WholeKept
  <2>13. ASSUME NEW r \in Requests, InsertFavourite(r) PROVE Whole'
    <3>1. /\ \E label \in {"done", "told"} : pc' = [pc EXCEPT ![r] = label]
          /\ pc[r] = "flush" /\ UNCHANGED <<kind, quote, sent, copy>>
      BY <2>13 DEF InsertFavourite, Goto
    <3>2. QED
      BY <3>1, WholeKept
  <2>14. ASSUME NEW r \in Requests, FindFavourite(r) PROVE Whole'
    <3>1. /\ \E label \in {"flush", "told"} : pc' = [pc EXCEPT ![r] = label]
          /\ pc[r] = "idle" /\ UNCHANGED <<kind, quote, sent, copy>>
      BY <2>14 DEF FindFavourite, Goto
    <3>2. QED
      BY <3>1, WholeKept
  <2>15. ASSUME NEW r \in Requests, RemoveFavourite(r) PROVE Whole'
    <3>1. /\ pc' = [pc EXCEPT ![r] = "done"]
          /\ pc[r] = "flush" /\ UNCHANGED <<kind, quote, sent, copy>>
      BY <2>15 DEF RemoveFavourite, Goto
    <3>2. QED
      BY <3>1, WholeKept
  <2>16. ASSUME NEW r \in Requests, Interrupt(r) PROVE Whole'
    <3>1. /\ pc' = [pc EXCEPT ![r] = "interrupted"]
          /\ pc[r] # "absent" /\ UNCHANGED <<kind, quote, sent, copy>>
      BY <2>16 DEF Interrupt, InFlight, Goto
    <3>2. QED
      BY <3>1, WholeKept
  <2>17. CASE UNCHANGED vars
    BY <2>17 DEF vars, Whole, Known, Wrote, Halfway, Stored, Editable, Missing, EditsComeWhole, Creators, Is
  <2>18. QED
    BY <2>1, <2>2, <2>3, <2>4, <2>5, <2>6, <2>7, <2>8, <2>9, <2>10, <2>11, <2>12,
       <2>13, <2>14, <2>15, <2>16, <2>17 DEF Next
<1>3. QED
  BY <1>1, <1>2, TypeCorrect, MadeHolds, PTL DEF Spec

\* EditsComeWhole: a part that is not an address comes with everything else
\* its edit stores, whichever edits were flushed in between.
THEOREM EditsAlwaysWhole == Spec => []EditsComeWhole
<1>1. Whole => EditsComeWhole
  BY DEF Whole
<1>2. QED
  BY <1>1, WholeHolds, PTL

----------------------------------------------------------------------------
\* A handler that has loaded the quote and will write addresses.
Editing(r) == pc[r] \in {"edit", "half"} \/ (pc[r] = "flush" /\ Is(r, {"edit"}))

\* Edits of the quote, and of the shipment made of it, run one at a time.
\* (Neither QuoteService.update nor ShipmentService.update ensures it.)
EditsInTurn == \A r, q \in Requests : Editing(r) /\ Editing(q) => r = q

\* An address of the quote is an entry of the address book or written out,
\* not both and not neither.
OneSort == quote.live => \A e \in Ends : e \in quote.book <=> e \notin quote.own

\* The addresses that r has still to write.
Untouched(r) == IF pc[r] = "half" THEN Ends \ Halfway(r) ELSE Ends

\* They are in the row as r has loaded them.
FreshEdits ==
    /\ ~crossed
    /\ \A r \in Requests : Editing(r) /\ quote.live =>
          \A e \in Untouched(r) : /\ e \in quote.book <=> e \in copy[r].book
                                  /\ e \in quote.own <=> e \in copy[r].own

\* A step that leaves the addresses, and what is known of them, alone.
AddressesStay ==
    /\ crossed' = crossed
    /\ kind' = kind
    /\ quote'.live => quote.live /\ quote'.book = quote.book /\ quote'.own = quote.own
    /\ \A q \in Requests : Editing(q)' =>
          \/ /\ Editing(q) /\ pc'[q] = pc[q]
             /\ sent'[q] = sent[q] /\ copy'[q] = copy[q]
          \/ pc'[q] # "half" /\ copy'[q] = quote

\* Such a step keeps edits fresh, ...
LEMMA FreshStays == ASSUME FreshEdits, AddressesStay PROVE FreshEdits'
<1> SUFFICES ASSUME NEW q \in Requests, Editing(q)', quote'.live, NEW e \in Untouched(q)'
             PROVE  /\ e \in quote'.book <=> e \in copy'[q].book
                    /\ e \in quote'.own <=> e \in copy'[q].own
  BY DEF FreshEdits, AddressesStay
<1>1. quote.live /\ quote'.book = quote.book /\ quote'.own = quote.own
  BY DEF AddressesStay
<1>2. CASE Editing(q) /\ pc'[q] = pc[q] /\ sent'[q] = sent[q] /\ copy'[q] = copy[q]
  <2>1. Halfway(q)' = Halfway(q)
    BY <1>2, StoredStays DEF AddressesStay
  <2>2. Untouched(q)' = Untouched(q)
    BY <1>2, <2>1 DEF Untouched
  <2>3. QED
    BY <1>1, <1>2, <2>2 DEF FreshEdits
<1>3. CASE copy'[q] = quote
  BY <1>1, <1>3
<1>4. QED
  BY <1>2, <1>3 DEF AddressesStay

\* ... and so does one that nobody is left to be overtaken by.
LEMMA FreshEnds ==
    ASSUME FreshEdits, ~crossed', \A q \in Requests : ~Editing(q)'
    PROVE  FreshEdits'
BY DEF FreshEdits

\* The only handler that edits writes over what it has loaded.
LEMMA NothingCrossed ==
    ASSUME TypeOK, FreshEdits, NEW r \in Requests, Editing(r), quote.live,
           NEW parts, Ends \cap parts \subseteq Untouched(r)
    PROVE  ~Crosses(r, parts)
BY DEF FreshEdits, Crosses

\* What is not written stays as it is.
LEMMA WrittenEnds ==
    ASSUME TypeOK, NEW r \in Requests, NEW parts
    PROVE  \A e \in Ends \ parts : /\ e \in Written(r, parts).book <=> e \in quote.book
                                   /\ e \in Written(r, parts).own <=> e \in quote.own
<1> DEFINE toBook == {e \in Ends \cap parts : sent[r].how[e] \in {"book", "new"}}
<1> DEFINE toOwn == {e \in Ends \cap parts : sent[r].how[e] = "own"}
<1> DEFINE by == [p \in Part |-> IF p \in parts THEN r ELSE quote.by[p]]
<1> DEFINE book == (quote.book \cup toBook) \ (toOwn \cap copy[r].book)
<1> DEFINE own == (quote.own \cup (toOwn \ copy[r].own)) \ (toBook \cap copy[r].own)
<1>1. Written(r, parts) = [quote EXCEPT !.by = by, !.book = book, !.own = own]
  BY DEF Written
<1>2. \A e \in Ends \ parts : /\ e \in book <=> e \in quote.book
                              /\ e \in own <=> e \in quote.own
  OBVIOUS
<1>3. quote \in QuoteRow
  BY DEF TypeOK
<1> HIDE DEF by, book, own
<1>4. Written(r, parts).book = book /\ Written(r, parts).own = own
  BY <1>1, <1>3 DEF QuoteRow
<1>5. QED
  BY <1>2, <1>4

\* A request that moves on to where it edits nothing leaves the others alone.
LEMMA MovesOn ==
    ASSUME TypeOK, NEW r \in Requests, NEW label, pc' = [pc EXCEPT ![r] = label],
           label \notin {"edit", "half", "flush"} \/ (label = "flush" /\ ~Is(r, {"edit"})),
           UNCHANGED <<crossed, kind, sent, copy>>,
           quote'.live => quote.live /\ quote'.book = quote.book /\ quote'.own = quote.own
    PROVE  AddressesStay
<1>1. ASSUME NEW q \in Requests, Editing(q)'
      PROVE  Editing(q) /\ pc'[q] = pc[q] /\ sent'[q] = sent[q] /\ copy'[q] = copy[q]
  BY <1>1 DEF TypeOK, Editing, Is
<1>2. QED
  BY <1>1 DEF AddressesStay

\* Edits in turn are fresh: between the load and the last flush of one, only
\* moves, shipments and favourites touch the quote, or it is deleted.
LEMMA FreshEditsHold == Spec /\ []EditsInTurn => []FreshEdits
<1> USE QuotesAssumption
<1>1. Init => FreshEdits
  <2>1. Init => ~crossed /\ \A r \in Requests : pc[r] \in {"idle", "absent"}
    BY DEF Init
  <2>2. QED
    BY <2>1 DEF FreshEdits, Editing
<1>2. TypeOK /\ Made /\ Whole /\ EditsInTurn /\ FreshEdits /\ [Next]_vars => FreshEdits'
  <2> SUFFICES ASSUME TypeOK, Made, Whole, EditsInTurn, FreshEdits, [Next]_vars
               PROVE  FreshEdits'
    OBVIOUS
  <2>0. ~crossed
    BY DEF FreshEdits
  <2>1. ASSUME NEW r \in Requests, NEW s \in Sends, BeginCreate(r, s) PROVE FreshEdits'
    <3>1. UNCHANGED <<crossed, kind, quote, copy>> /\ sent' = [sent EXCEPT ![r] = s]
      BY <2>1 DEF BeginCreate
    <3>2. \E label \in {"told", "early", "insert"} : pc' = [pc EXCEPT ![r] = label]
      BY <2>1 DEF BeginCreate, Goto
    <3>3. \A q \in Requests : Editing(q)' => q # r /\ Editing(q) /\ pc'[q] = pc[q]
      BY <3>2 DEF Editing, Is, TypeOK
    <3>4. \A q \in Requests \ {r} : sent'[q] = sent[q]
      BY <3>1 DEF TypeOK
    <3>5. AddressesStay
      BY <3>1, <3>3, <3>4 DEF AddressesStay
    <3>6. QED
      BY <3>5, FreshStays
  <2>2. ASSUME NEW r \in Requests, NEW s \in Sends, Load(r, s) PROVE FreshEdits'
    <3>1. /\ UNCHANGED <<crossed, kind, quote>>
          /\ copy' = [copy EXCEPT ![r] = quote]
          /\ sent' = [sent EXCEPT ![r] = s]
      BY <2>2 DEF Load
    <3>2. \E label \in {"told", "edit", "flush"} : pc' = [pc EXCEPT ![r] = label]
      BY <2>2, LoadGoes
    <3>3. \A q \in Requests : q # r /\ Editing(q)' =>
             /\ Editing(q) /\ pc'[q] = pc[q]
             /\ sent'[q] = sent[q] /\ copy'[q] = copy[q]
      BY <3>1, <3>2 DEF Editing, Is, TypeOK
    <3>4. pc'[r] # "half" /\ copy'[r] = quote
      BY <3>1, <3>2 DEF TypeOK
    <3>5. AddressesStay
      BY <3>1, <3>3, <3>4 DEF AddressesStay
    <3>6. QED
      BY <3>5, FreshStays
  <2>3. ASSUME NEW r \in Requests, SaveEarly(r) \/ Insert(r) PROVE FreshEdits'
    <3>1. /\ pc[r] \in {"early", "insert"} /\ UNCHANGED crossed
          /\ \E label \in {"told", "second", "done"} : pc' = [pc EXCEPT ![r] = label]
      BY <2>3 DEF SaveEarly, Insert, Goto
    <3>2. r \in Creators
      BY <3>1 DEF Made
    <3>3. \A q \in Requests : pc[q] \notin {"edit", "half", "flush"}
      BY <3>1, <3>2 DEF Made, Whole
    <3>4. \A q \in Requests : ~Editing(q)'
      BY <3>1, <3>3 DEF Editing, Is, TypeOK
    <3>5. QED
      BY <2>0, <3>1, <3>4, FreshEnds
  <2>4. ASSUME NEW r \in Requests, CompleteCreate(r) \/ InsertShipment(r) PROVE FreshEdits'
    <3>1. UNCHANGED <<crossed, kind, sent, copy>>
      BY <2>4 DEF CompleteCreate, InsertShipment
    <3>2. PICK label \in {"book", "told", "done"} : pc' = [pc EXCEPT ![r] = label]
      BY <2>4, GoesOn
    <3>3. quote'.live = quote.live /\ quote'.book = quote.book /\ quote'.own = quote.own
      BY <2>4, CompletedRow, ShippedRow
    <3>4. AddressesStay
      BY <3>1, <3>2, <3>3, MovesOn
    <3>5. QED
      BY <3>4, FreshStays
  <2>5. ASSUME NEW r \in Requests, Editing(r), NEW parts, Ends \cap parts \subseteq Untouched(r),
               \/ UNCHANGED <<quote, crossed>>
               \/ quote.live /\ crossed' = (crossed \/ Crosses(r, parts))
        PROVE  ~crossed'
    BY <2>0, <2>5, NothingCrossed
  <2>6. ASSUME NEW r \in Requests, Editing(r), NEW label, label \notin {"edit", "half", "flush"},
               pc' = [pc EXCEPT ![r] = label]
        PROVE  \A q \in Requests : ~Editing(q)'
    BY <2>6 DEF EditsInTurn, Editing, Is, TypeOK
  <2>7. ASSUME NEW r \in Requests, FlushContact(r) PROVE FreshEdits'
    <3>1. /\ pc[r] = "edit" /\ Write(r, Halfway(r)) /\ UNCHANGED <<kind, sent, copy>>
          /\ pc' = [pc EXCEPT ![r] = "half"]
      BY <2>7 DEF FlushContact, Goto
    <3>2. Editing(r) /\ Untouched(r) = Ends
      BY <3>1 DEF Editing, Untouched
    <3>3. ~crossed'
      BY <2>5, <3>1, <3>2 DEF Write
    <3>4. pc'[r] = "half" /\ \A q \in Requests : Editing(q)' => q = r
      BY <3>1, <3>2 DEF EditsInTurn, Editing, Is, TypeOK
    <3>5. Untouched(r)' = Ends \ Halfway(r)
      BY <3>1, <3>4, StoredStays DEF Untouched
    <3>6. quote'.live => quote.live
      BY <3>1 DEF Write
    <3>7. \A p \in Ends \ Halfway(r) : /\ p \in quote'.book <=> p \in quote.book
                                       /\ p \in quote'.own <=> p \in quote.own
      <4>1. CASE quote' = quote
        BY <4>1
      <4>2. CASE quote' = Written(r, Halfway(r))
        <5> DEFINE parts == Halfway(r)
        <5>1. quote' = Written(r, parts)
          BY <4>2
        <5> HIDE DEF parts
        <5>2. \A p \in Ends \ parts : /\ p \in quote'.book <=> p \in quote.book
                                      /\ p \in quote'.own <=> p \in quote.own
          BY <5>1, WrittenEnds
        <5>3. QED
          BY <5>2 DEF parts
      <4>3. QED
        BY <3>1, <4>1, <4>2 DEF Write
    <3>8. ASSUME NEW q \in Requests, Editing(q)', quote'.live, NEW e \in Untouched(q)'
          PROVE  /\ e \in quote'.book <=> e \in copy'[q].book
                 /\ e \in quote'.own <=> e \in copy'[q].own
      <4>1. q = r /\ copy'[r] = copy[r]
        BY <3>1, <3>4, <3>8
      <4>2. e \in Ends \ Halfway(r)
        BY <3>5, <3>8, <4>1
      <4>3. /\ e \in quote.book <=> e \in copy[r].book
            /\ e \in quote.own <=> e \in copy[r].own
        BY <3>2, <3>6, <3>8, <4>2 DEF FreshEdits
      <4>4. /\ e \in quote'.book <=> e \in quote.book
            /\ e \in quote'.own <=> e \in quote.own
        BY <3>7, <4>2
      <4>5. copy'[q] = copy[r]
        BY <4>1
      <4>6. QED
        BY <4>3, <4>4, <4>5
    <3>9. QED
      BY <3>3, <3>8 DEF FreshEdits
  <2>8. ASSUME NEW r \in Requests, FlushHandler(r) PROVE FreshEdits'
    <3>1. pc[r] \in {"edit", "half"}
          /\ \E label \in {"book", "told", "done"} : pc' = [pc EXCEPT ![r] = label]
      BY <2>8 DEF FlushHandler, Goto
    <3> DEFINE parts == Stored(r) \ (IF pc[r] = "half" THEN Halfway(r) ELSE {})
    <3>2. UNCHANGED <<quote, crossed>> \/ Write(r, parts)
      BY <2>8 DEF FlushHandler
    <3>3. Editing(r) /\ Ends \cap parts \subseteq Untouched(r)
      BY <3>1 DEF Editing, Untouched
    <3> HIDE DEF parts
    <3>4. ~crossed'
      BY <2>5, <3>2, <3>3 DEF Write
    <3>5. \A q \in Requests : ~Editing(q)'
      BY <2>6, <3>1, <3>3
    <3>6. QED
      BY <3>4, <3>5, FreshEnds
  <2>9. ASSUME NEW r \in Requests, FlushEdit(r) PROVE FreshEdits'
    <3> DEFINE parts == Stored(r)
    <3>1. /\ pc[r] = "flush" /\ Is(r, {"edit"})
          /\ \E label \in {"told", "done"} : pc' = [pc EXCEPT ![r] = label]
          /\ \/ UNCHANGED <<quote, crossed>>
             \/ quote.live /\ crossed' = (crossed \/ Crosses(r, parts))
      BY <2>9 DEF FlushEdit, Goto
    <3>2. Editing(r) /\ Ends \cap parts \subseteq Untouched(r)
      BY <3>1 DEF Editing, Untouched
    <3> HIDE DEF parts
    <3>3. ~crossed'
      BY <2>5, <3>1, <3>2
    <3>4. \A q \in Requests : ~Editing(q)'
      BY <2>6, <3>1, <3>2
    <3>5. QED
      BY <3>3, <3>4, FreshEnds
  <2>10. ASSUME NEW r \in Requests, FlushMove(r) PROVE FreshEdits'
    <3>1. UNCHANGED <<crossed, kind, sent, copy>> /\ pc' = [pc EXCEPT ![r] = "done"]
      BY <2>10 DEF FlushMove, Goto
    <3>2. quote'.live = quote.live /\ quote'.book = quote.book /\ quote'.own = quote.own
      BY <2>10, MovedRow DEF FlushMove, TypeOK
    <3>3. AddressesStay
      BY <3>1, <3>2, MovesOn
    <3>4. QED
      BY <3>3, FreshStays
  <2>11. ASSUME NEW r \in Requests, FlushDelete(r) PROVE FreshEdits'
    <3>1. UNCHANGED <<crossed, kind, sent, copy>> /\ (quote' = NoQuote \/ quote' = quote)
      BY <2>11 DEF FlushDelete
    <3>2. PICK label \in {"told", "done"} : pc' = [pc EXCEPT ![r] = label]
      BY <2>11 DEF FlushDelete, Goto
    <3>3. quote'.live => quote.live /\ quote'.book = quote.book /\ quote'.own = quote.own
      BY <3>1 DEF NoQuote
    <3>4. AddressesStay
      BY <3>1, <3>2, <3>3, MovesOn
    <3>5. QED
      BY <3>4, FreshStays
  <2>12. ASSUME NEW r \in Requests,
                \/ CheckFavourite(r) \/ InsertFavourite(r) \/ FindFavourite(r)
                \/ RemoveFavourite(r) \/ Interrupt(r)
         PROVE  FreshEdits'
    <3>1. UNCHANGED <<crossed, kind, quote, sent, copy>>
      BY <2>12 DEF CheckFavourite, InsertFavourite, FindFavourite, RemoveFavourite, Interrupt
    <3>2. PICK label \in {"told", "done", "interrupted", "flush"} :
             /\ pc' = [pc EXCEPT ![r] = label]
             /\ label = "flush" => ~Is(r, {"edit"})
      BY <2>12 DEF CheckFavourite, InsertFavourite, FindFavourite, RemoveFavourite, Interrupt, Goto, Is
    <3>3. AddressesStay
      BY <3>1, <3>2, MovesOn
    <3>4. QED
      BY <3>3, FreshStays
  <2>13. CASE UNCHANGED vars
    <3>1. AddressesStay
      BY <2>13 DEF vars, AddressesStay, Editing, Is
    <3>2. QED
      BY <3>1, FreshStays
  <2>14. QED
    BY <2>1, <2>2, <2>3, <2>4, <2>7, <2>8, <2>9, <2>10, <2>11, <2>12, <2>13 DEF Next
<1>3. QED
  BY <1>1, <1>2, TypeCorrect, MadeHolds, WholeHolds, PTL DEF Spec

\* When edits of a quote run one at a time, no address ever has two rows or
\* none, whatever is converted, moved, favoured or deleted meanwhile: it takes
\* two edits that overlap to leave one (QuoteService.update, the handlers of
\* ShipmentService).
THEOREM EditsInTurnKeepAddresses == Spec /\ []EditsInTurn => []OneSort
<1>1. FreshEdits /\ OneAddress => OneSort
  BY DEF FreshEdits, OneAddress, OneSort
<1>2. QED
  BY <1>1, FreshEditsHold, OneAddressAlways, PTL
=============================================================================
