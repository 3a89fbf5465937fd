------------------------------- MODULE Quotes -------------------------------
(***************************************************************************)
(* One quote row and what overlapping requests do to it: QuoteService      *)
(* creates, updates, moves, deletes and favours it, ShipmentService makes  *)
(* it a shipment and edits it afterwards.                                  *)
(*                                                                         *)
(* A handler is cut at its awaits.  A handler edits the copy it has loaded *)
(* and a flush writes the columns in which the copy has changed, so that   *)
(* two handlers mix their columns and nobody is told.                      *)
(***************************************************************************)
EXTENDS QuoteRules, Integers, FiniteSets

CONSTANTS
    Requests,
    RoleOf,         \* what each request asks for
    UserOf,         \* who asks
    Kinds,          \* the shipment types the quote may have
    Starts,         \* statuses of a quote that is there from the start
    Sends,          \* what the requests may send
    Together,       \* bound: the sets of requests that arrive in one behaviour
    MaxFaults       \* bound on interruptions

Role == {"create", "direct", "convert", "reship", "edit", "move", "delete", "mark", "unmark"}

\* odd: what is odd about the parts; as: the shipment type the request names;
\* status: the status, if any
Sent == [parts : SUBSET Part, odd : SUBSET Odd, how : [Ends -> How], as : Kind,
         status : Status \cup {"none"}]

ASSUME QuotesAssumption ==
    /\ RoleOf \in [Requests -> Role]
    /\ Kinds \subseteq Kind
    /\ Starts \subseteq Status
    /\ Sends \subseteq Sent
    /\ Together \subseteq SUBSET Requests
    /\ \A T \in Together : \A r, q \in T : \* a second creator makes another quote
          {RoleOf[r], RoleOf[q]} \subseteq {"create", "direct"} => r = q
    /\ "none" \notin Requests
    /\ "origin" \notin Requests
    /\ MaxFaults \in Nat

VARIABLES
    kind,           \* the shipment type, which never changes
    quote,          \* the row and its parts
    shipment,       \* the request that made the shipment row, or "none"
    favourites,     \* the requests whose favourite rows stand
    pc,             \* pc[r]: where the handler of r stands
    sent,           \* sent[r]: what r sent
    copy,           \* copy[r]: the quote as r loaded it
    found,          \* found[r]: the favourite r is about to remove
    crossed,        \* history: an address was written over one changed since
    faults          \* bound: interruptions left

vars == <<kind, quote, shipment, favourites, pc, sent, copy, found, crossed, faults>>

Writer == Requests \cup {"origin", "none"}

\* by: who wrote each part, "none" for a part that is not there; book, own:
\* the addresses that refer to the address book, that have a row of their own
QuoteRow == [live : BOOLEAN, born : Writer, status : Status, by : [Part -> Writer],
             book : SUBSET Ends, own : SUBSET Ends]

NoQuote == [live |-> FALSE, born |-> "none", status |-> "DRAFT",
            by |-> [p \in Part |-> "none"], book |-> {}, own |-> {}]

Pc == {"absent", "idle", "early", "insert", "second", "edit", "half", "book", "flush",
       "told", "done", "interrupted"}

InFlight(r) == pc[r] \notin {"absent", "idle", "told", "done", "interrupted"}

Creators == {r \in Requests : RoleOf[r] \in {"create", "direct"}}

NothingSent == [parts |-> {}, odd |-> {}, how |-> [e \in Ends |-> "own"], as |-> "PACKAGE",
                status |-> "none"]

TypeOK ==
    /\ kind \in Kind
    /\ quote \in QuoteRow
    /\ shipment \in Requests \cup {"none"}
    /\ favourites \subseteq Requests
    /\ pc \in [Requests -> Pc]
    /\ sent \in [Requests -> Sent]
    /\ copy \in [Requests -> QuoteRow]
    /\ found \in [Requests -> Requests \cup {"none"}]
    /\ crossed \in BOOLEAN
    /\ faults \in Nat

\* A quote that was created without optional parts, and all its addresses
\* written out, or none when a creator is among the requests.
Original(status) ==
    [live |-> TRUE, born |-> "origin", status |-> status,
     by |-> [p \in Part |-> IF p \in Required(kind) THEN "origin" ELSE "none"],
     book |-> {}, own |-> Ends]

Init ==
    /\ kind \in Kinds
    /\ \E arriving \in Together, status \in Starts :
          /\ pc = [r \in Requests |-> IF r \in arriving THEN "idle" ELSE "absent"]
          /\ quote = IF arriving \cap Creators # {} THEN NoQuote ELSE Original(status)
    /\ shipment = "none"
    /\ favourites = {}
    /\ sent = [r \in Requests |-> NothingSent]
    /\ copy = [r \in Requests |-> NoQuote]
    /\ found = [r \in Requests |-> "none"]
    /\ crossed = FALSE
    /\ faults = MaxFaults

Goto(r, label) == pc' = [pc EXCEPT ![r] = label]

Is(r, roles) == RoleOf[r] \in roles

----------------------------------------------------------------------------
(* QuoteService.create, and ShipmentService.create without a quote id      *)

\* buildQuote of ShipmentService.
Unshippable(r) == Is(r, {"direct"}) /\ kind \in SpotKind

BeginCreate(r, s) ==
    /\ Is(r, {"create", "direct"})
    /\ pc[r] = "idle"
    /\ ~quote.live
    /\ sent' = [sent EXCEPT ![r] = s]
    /\ Goto(r, IF Unshippable(r) \/ CreateRefuses(kind, s.parts, s.odd) THEN "told"
               ELSE IF SavesEarly(kind, s.parts) THEN "early" ELSE "insert")
    /\ UNCHANGED <<kind, quote, shipment, favourites, copy, found, crossed, faults>>

\* The row as build() and the caller make it.
NewQuote(r, parts, status) ==
    LET book == {e \in Ends : InBook(kind, sent[r].how[e], Is(r, {"direct"}))} IN
    [live |-> TRUE, born |-> r, status |-> status,
     by |-> [p \in Part |-> IF p \in parts THEN r ELSE "none"],
     book |-> book, own |-> Ends \ book]

\* The flush inside buildServices: a row without a status is refused.
SaveEarly(r) ==
    /\ pc[r] = "early"
    /\ IF sent[r].status = "none"
          THEN Goto(r, "told") /\ UNCHANGED quote
          ELSE /\ quote' = NewQuote(r, Built(kind, sent[r].parts) \ {"spotDetails"}, sent[r].status)
               /\ Goto(r, "second")
    /\ UNCHANGED <<kind, shipment, favourites, sent, copy, found, crossed, faults>>

\* A bug that forgets the default.
StatedMutant(r) == sent[r].status

Stated(r) == IF sent[r].status = "none" THEN "DRAFT" ELSE sent[r].status

\* The flush of the caller, when it is the first one.
Insert(r) ==
    /\ pc[r] = "insert"
    /\ quote' = NewQuote(r, Built(kind, sent[r].parts),
                         IF Is(r, {"direct"}) THEN "CONVERTED_TO_SHIPMENT" ELSE Stated(r))
    /\ shipment' = IF Is(r, {"direct"}) THEN r ELSE shipment
    /\ Goto(r, "done")
    /\ UNCHANGED <<kind, favourites, sent, copy, found, crossed, faults>>

\* The flush of QuoteService.create after an early one: spot details are
\* still to be written, and need a row that has none.
CompleteCreate(r) ==
    /\ pc[r] = "second"
    /\ Is(r, {"create"})
    /\ IF kind \notin SpotKind
          THEN Goto(r, "done") /\ UNCHANGED quote
       ELSE IF quote.live /\ quote.by["spotDetails"] = "none"
          THEN Goto(r, "done") /\ quote' = [quote EXCEPT !.by["spotDetails"] = r]
       ELSE Goto(r, "told") /\ UNCHANGED quote
    /\ UNCHANGED <<kind, shipment, favourites, sent, copy, found, crossed, faults>>

----------------------------------------------------------------------------
(* Handlers that load the quote                                            *)

\* A bug that lets any status be set.
MayMoveMutant(r, s) == TRUE

\* validateUpdateQuote and updateStatus look the transition up.
MayMove(r, s) == s.status \in Transitions(quote.status)

\* A shipment is made of, or edited through, the handler of the type the
\* request names, which need not be the quote's.
Handles(r, s) ==
    /\ kind \notin SpotKind
    /\ s.as \notin SpotKind
    /\ Is(r, {"reship"}) => shipment # "none"
    /\ ~HandlerRefuses(s.as, Is(r, {"convert"}), s.parts, s.odd)

Load(r, s) ==
    /\ Is(r, {"convert", "reship", "edit", "move", "delete"})
    /\ pc[r] = "idle"
    /\ sent' = [sent EXCEPT ![r] = s]
    /\ copy' = [copy EXCEPT ![r] = quote]
    /\ Goto(r, IF ~quote.live THEN "told"
               ELSE CASE Is(r, {"convert", "reship"}) ->
                           IF Handles(r, s) THEN "edit" ELSE "told"
                      [] Is(r, {"edit"}) ->
                           IF /\ s.status = "none" \/ MayMove(r, s)
                              /\ ~UpdateRefuses(kind, s.parts, s.odd)
                           THEN "flush" ELSE "told"
                      [] Is(r, {"move"}) -> IF MayMove(r, s) THEN "flush" ELSE "told"
                      [] OTHER -> "flush")
    /\ UNCHANGED <<kind, quote, shipment, favourites, found, crossed, faults>>

\* The addresses QuoteService.update knows how to change: those with an
\* entry or a row of their own, not both and not neither.
Editable(r) ==
    {e \in Ends : /\ e \in copy[r].book <=> e \notin copy[r].own
                  /\ sent[r].how[e] \in {"book", "own"}}

\* What a handler passes over in silence: a line item the quote has not, and
\* changes to an entry that is not in use.
Missing(r) ==
    {p \in {"lineItem"} : copy[r].by[p] = "none"}
        \cup {e \in Ends : sent[r].how[e] = "patch" /\ e \notin copy[r].book}

\* The parts r ends up writing.
Stored(r) ==
    IF Is(r, {"edit"})
    THEN UpdateStores(kind, sent[r].parts) \ (Ends \ Editable(r))
    ELSE HandlerStores(sent[r].as, Is(r, {"convert"}), sent[r].parts) \ Missing(r)

\* A bug that leaves the entry in place when an address is written out.
WrittenMutant(r, parts) ==
    LET toBook == {e \in Ends \cap parts : sent[r].how[e] \in {"book", "new"}}
        toOwn == {e \in Ends \cap parts : sent[r].how[e] = "own"} IN
    [quote EXCEPT !.by = [p \in Part |-> IF p \in parts THEN r ELSE @[p]],
                  !.book = @ \cup toBook,
                  !.own = (@ \cup (toOwn \ copy[r].own)) \ (toBook \cap copy[r].own)]

\* The row after a flush of these parts: a column is written when r's copy
\* of it has changed.
Written(r, parts) ==
    LET toBook == {e \in Ends \cap parts : sent[r].how[e] \in {"book", "new"}}
        toOwn == {e \in Ends \cap parts : sent[r].how[e] = "own"} IN
    [quote EXCEPT !.by = [p \in Part |-> IF p \in parts THEN r ELSE @[p]],
                  !.book = (@ \cup toBook) \ (toOwn \cap copy[r].book),
                  !.own = (@ \cup (toOwn \ copy[r].own)) \ (toBook \cap copy[r].own)]

Crosses(r, parts) ==
    \E e \in Ends \cap parts : \/ e \in quote.book <=> e \notin copy[r].book
                               \/ e \in quote.own <=> e \notin copy[r].own

Write(r, parts) ==
    IF quote.live
    THEN quote' = Written(r, parts) /\ crossed' = (crossed \/ Crosses(r, parts))
    ELSE UNCHANGED <<quote, crossed>>

----------------------------------------------------------------------------
(* ShipmentService.create with a quote id, and ShipmentService.update      *)

\* A bug that flushes after the line item as well.
HalfwayMutant(r) == Stored(r) \cap {"FROM", "lineItem"}

\* What has been changed when a new contact of the other end is flushed.
Halfway(r) == Stored(r) \cap {"FROM"}

NewContactLast(r) == "TO" \in Stored(r) /\ sent[r].how["TO"] = "new"

FlushContact(r) ==
    /\ pc[r] = "edit"
    /\ NewContactLast(r)
    /\ Write(r, Halfway(r))
    /\ Goto(r, "half")
    /\ UNCHANGED <<kind, shipment, favourites, sent, copy, found, faults>>

Throws(r) ==
    HandlerThrows({p \in Part : copy[r].by[p] # "none"} \ (IF sent[r].as = kind THEN {} ELSE {"services"}),
                  sent[r].as, sent[r].parts)

\* The flush at the end of the handler's update().
FlushHandler(r) ==
    /\ pc[r] \in {"edit", "half"}
    /\ pc[r] = "edit" => ~NewContactLast(r)
    /\ IF Throws(r)
          THEN Goto(r, "told") /\ UNCHANGED <<quote, crossed>>
          ELSE /\ Write(r, Stored(r) \ (IF pc[r] = "half" THEN Halfway(r) ELSE {}))
               /\ Goto(r, IF Is(r, {"convert"}) THEN "book" ELSE "done")
    /\ UNCHANGED <<kind, shipment, favourites, sent, copy, found, faults>>

\* The quote of a shipment is unique.
Taken == shipment # "none"

\* The shipment row and the status, in one transaction.
InsertShipment(r) ==
    /\ \/ pc[r] = "book"
       \/ pc[r] = "second" /\ Is(r, {"direct"})
    /\ IF quote.live /\ ~Taken
          THEN /\ shipment' = r
               /\ quote' = [quote EXCEPT !.status = "CONVERTED_TO_SHIPMENT"]
               /\ Goto(r, "done")
          ELSE Goto(r, "told") /\ UNCHANGED <<quote, shipment>>
    /\ UNCHANGED <<kind, favourites, sent, copy, found, crossed, faults>>

----------------------------------------------------------------------------
(* The flushes of QuoteService                                             *)

\* Parts an update inserts as new rows, which refer to the quote; services
\* always are.
NewRows(r) ==
    {p \in Stored(r) : p = "services" \/ (p \notin Ends /\ copy[r].by[p] = "none")}

\* A quote has one row of a kind: another request has put its own in.
Clashes(r) ==
    \E p \in NewRows(r) : /\ quote.by[p] # copy[r].by[p]
                          /\ Is(quote.by[p], {"create", "edit"})

\* The status of a row is written only when one was sent.
Moved(row, r) == IF sent[r].status = "none" THEN row ELSE [row EXCEPT !.status = sent[r].status]

\* A quote deleted meanwhile is missed only when rows are to refer to it.
FlushEdit(r) ==
    /\ pc[r] = "flush"
    /\ Is(r, {"edit"})
    /\ IF quote.live /\ ~Clashes(r)
          THEN /\ quote' = Moved(Written(r, Stored(r)), r)
               /\ crossed' = (crossed \/ Crosses(r, Stored(r)))
               /\ Goto(r, "done")
          ELSE /\ Goto(r, IF NewRows(r) # {} THEN "told" ELSE "done")
               /\ UNCHANGED <<quote, crossed>>
    /\ UNCHANGED <<kind, shipment, favourites, sent, copy, found, faults>>

FlushMove(r) ==
    /\ pc[r] = "flush"
    /\ Is(r, {"move"})
    /\ quote' = IF quote.live THEN Moved(quote, r) ELSE quote
    /\ Goto(r, "done")
    /\ UNCHANGED <<kind, shipment, favourites, sent, copy, found, crossed, faults>>

\* A bug that takes what refers to a quote for part of it.
ReferredToMutant(r) == favourites # {}

\* Rows the deletion does not take along: a shipment, favourites, and pallet
\* services an edit has put in since.
ReferredTo(r) ==
    \/ shipment # "none"
    \/ favourites # {}
    \/ /\ kind \in {"PALLET", "SPOT_LTL"}
       /\ quote.by["services"] # copy[r].by["services"]
       /\ Is(quote.by["services"], {"edit"})

FlushDelete(r) ==
    /\ pc[r] = "flush"
    /\ Is(r, {"delete"})
    /\ quote' = IF quote.live /\ ~ReferredTo(r) THEN NoQuote ELSE quote
    /\ Goto(r, IF quote.live /\ ReferredTo(r) THEN "told" ELSE "done")
    /\ UNCHANGED <<kind, shipment, favourites, sent, copy, found, crossed, faults>>

----------------------------------------------------------------------------
(* Favourites                                                              *)

\* One favourite of anyone in the company is enough to refuse another.
CheckFavourite(r) ==
    /\ Is(r, {"mark"})
    /\ pc[r] = "idle"
    /\ Goto(r, IF quote.live /\ favourites = {} THEN "flush" ELSE "told")
    /\ UNCHANGED <<kind, quote, shipment, favourites, sent, copy, found, crossed, faults>>

InsertFavourite(r) ==
    /\ Is(r, {"mark"})
    /\ pc[r] = "flush"
    /\ favourites' = IF quote.live THEN favourites \cup {r} ELSE favourites
    /\ Goto(r, IF quote.live THEN "done" ELSE "told")
    /\ UNCHANGED <<kind, quote, shipment, sent, copy, found, crossed, faults>>

\* Only a favourite of the same user is found.
FindFavourite(r) ==
    /\ Is(r, {"unmark"})
    /\ pc[r] = "idle"
    /\ LET mine == {f \in favourites : UserOf[f] = UserOf[r]} IN
          IF quote.live /\ mine # {}
          THEN /\ \E f \in mine : found' = [found EXCEPT ![r] = f]
               /\ Goto(r, "flush")
          ELSE Goto(r, "told") /\ UNCHANGED found
    /\ UNCHANGED <<kind, quote, shipment, favourites, sent, copy, crossed, faults>>

RemoveFavourite(r) ==
    /\ Is(r, {"unmark"})
    /\ pc[r] = "flush"
    /\ favourites' = favourites \ {found[r]}
    /\ Goto(r, "done")
    /\ UNCHANGED <<kind, quote, shipment, sent, copy, found, crossed, faults>>

----------------------------------------------------------------------------
\* The process dies, or a statement is refused.
Interrupt(r) ==
    /\ InFlight(r)
    /\ faults > 0
    /\ faults' = faults - 1
    /\ Goto(r, "interrupted")
    /\ UNCHANGED <<kind, quote, shipment, favourites, sent, copy, found, crossed>>

Next ==
    \E r \in Requests :
        \/ \E s \in Sends : BeginCreate(r, s) \/ Load(r, s)
        \/ SaveEarly(r) \/ Insert(r) \/ CompleteCreate(r)
        \/ FlushContact(r) \/ FlushHandler(r) \/ InsertShipment(r)
        \/ FlushEdit(r) \/ FlushMove(r) \/ FlushDelete(r)
        \/ CheckFavourite(r) \/ InsertFavourite(r)
        \/ FindFavourite(r) \/ RemoveFavourite(r)
        \/ Interrupt(r)

Spec == Init /\ [][Next]_vars

----------------------------------------------------------------------------
(* Properties                                                              *)

\* The status moves by the table, and past it only where a shipment is made:
\* ShipmentService.create converts archived and submitted quotes, too.
StatusFollowsTable ==
    [][quote.live /\ quote'.live /\ quote'.status # quote.status =>
          \/ quote'.status \in Transitions(quote.status)
          \/ shipment' # shipment /\ quote'.status = "CONVERTED_TO_SHIPMENT"]_vars

\* A quote is deleted only without shipment and favourites and gets neither
\* once it is gone, and a shipment's quote says that it is one, in whatever
\* order the checks and the flushes of edits, moves and deletions fall.
ReferencesStand ==
    /\ favourites # {} => quote.live
    /\ shipment # "none" => quote.live /\ quote.status = "CONVERTED_TO_SHIPMENT"

\* An address is an entry of the address book or written out, not both and
\* not neither, unless one edit was flushed over another it had not seen.
OneAddress ==
    quote.live /\ ~crossed =>
        \A e \in Ends : e \in quote.book <=> e \notin quote.own

\* An edit of a shipment's quote that fails halfway leaves addresses behind,
\* never its line item, services or insurance without the rest of it.
EditsComeWhole ==
    \A r \in Requests :
        (\E p \in Part \ Ends : quote.by[p] = r /\ quote.born # r) =>
            \A p \in Stored(r) : quote.by[p] # copy[r].by[p]

\* A quote that misses a part its type requires is what an interrupted
\* creation left, after buildServices had flushed.
HalfMadeWasCutShort ==
    quote.live /\ (\E p \in Required(kind) : quote.by[p] = "none") =>
        /\ quote.born \in Requests
        /\ pc[quote.born] \in {"second", "interrupted"}
        /\ SavesEarly(kind, sent[quote.born].parts)
=============================================================================
