------------------------------- MODULE Numbers -------------------------------
(***************************************************************************)
(* The two counters of a tenant, both in the collection shipmentmetadata.  *)
(* Quotes take the next number with an atomic $inc, after making sure that *)
(* the counter is there. Shipments read theirs, and store what they used,  *)
(* in the transaction that creates the shipment; MongoDB aborts a          *)
(* transaction that writes a document which changed since its snapshot.    *)
(*                                                                         *)
(* An order id is two location codes and the number with at least four     *)
(* digits. When an address is edited the id is written anew, with the      *)
(* codes of the day and the last four digits of the old id.                *)
(***************************************************************************)
EXTENDS Naturals, FiniteSets

CONSTANTS
    Requests,     \* requests and listeners in flight
    Shipments,    \* ids of shipments
    Codes,        \* the location codes of a shipment, the unknown one XX included
    Unknown,      \* codes with an XX among them
    None,         \* no counter yet, no shipment
    Digits,       \* how many numbers four digits tell apart
    MaxNumber     \* bound on the numbers handed out

ASSUME ConstantsAssumption ==
    /\ Unknown \subseteq Codes /\ Codes # {}
    /\ Digits \in Nat \ {0} /\ MaxNumber \in Nat \ {0}
    /\ None \notin Shipments \cup Nat

VARIABLES
    quoteCounter,   \* lastQuoteNumber, None before the first quote
    quotes,         \* the numbers of the quotes that are stored
    taken,          \* the numbers handed out for quotes
    refused,        \* has a quote been refused by a unique index?
    orderCounter,   \* lastOrderNumber, None before the first shipment
    shipments,      \* the shipments stored
    stuck,          \* has an order id been refused by its unique index?
    requests        \* what every request is doing

vars == <<quoteCounter, quotes, taken, refused, orderCounter, shipments, stuck, requests>>

Numbered == 0 .. MaxNumber

\* A shipment: its codes, the number its id shows and the number it was given.
OrderId  == [codes : Codes, shown : Numbered]
Shipment == [id : OrderId, given : Numbered]
Unused   == [id |-> [codes |-> CHOOSE c \in Codes : TRUE, shown |-> 0], given |-> 0]

Idle    == [at |-> "idle", number |-> 0, snapshot |-> 0, shipment |-> None]
Request ==
    [at : {"idle", "insert", "increment", "save", "order", "finalize", "commit"}, number : Numbered,
     snapshot : Numbered \cup {None}, shipment : Shipments \cup {None}]

Stored    == {s \in Shipments : shipments[s] # Unused}
Finish(r) == requests' = [requests EXCEPT ![r] = Idle]
Quotes    == <<quoteCounter, quotes, taken, refused>>
Orders    == <<orderCounter, shipments, stuck>>

Init ==
    /\ quoteCounter = None /\ quotes = {} /\ taken = {} /\ refused = FALSE
    /\ orderCounter = None
    /\ shipments = [s \in Shipments |-> Unused] /\ stuck = FALSE
    /\ requests = [r \in Requests |-> Idle]

-----------------------------------------------------------------------------
\* generateRequestId, and the save of the quote.

QuoteLook(r) ==
    /\ requests[r] = Idle
    /\ requests' = [requests EXCEPT ![r].at = IF quoteCounter = None THEN "insert" ELSE "increment"]
    /\ UNCHANGED Quotes /\ UNCHANGED Orders

\* Only one of those that found no counter inserts it; the others fail.
QuoteInsert(r) ==
    /\ requests[r].at = "insert"
    /\ IF quoteCounter = None
       THEN /\ quoteCounter' = 0
            /\ requests' = [requests EXCEPT ![r].at = "increment"]
       ELSE Finish(r) /\ UNCHANGED quoteCounter
    /\ UNCHANGED <<quotes, taken, refused>> /\ UNCHANGED Orders

\* Mutant: the number is one more than there are quotes.
NextNumberCounted(r) == 1 + Cardinality(quotes)

NextNumber(r)      == quoteCounter + 1

QuoteIncrement(r) ==
    /\ requests[r].at = "increment"
    /\ quoteCounter < MaxNumber
    /\ quoteCounter' = NextNumber(r)
    /\ taken' = taken \cup {NextNumber(r)}
    /\ requests' = [requests EXCEPT ![r].at = "save", ![r].number = NextNumber(r)]
    /\ UNCHANGED <<quotes, refused>> /\ UNCHANGED Orders

QuoteSave(r) ==
    /\ requests[r].at = "save"
    /\ refused' = (refused \/ requests[r].number \in quotes)
    /\ quotes' = quotes \cup {requests[r].number}
    /\ Finish(r)
    /\ UNCHANGED <<quoteCounter, taken>> /\ UNCHANGED Orders

-----------------------------------------------------------------------------
\* The number of a new shipment, in the transaction of findOrCreateShipment.

OrderRead(r) ==
    /\ requests[r] = Idle
    /\ requests' = [requests EXCEPT ![r].at = "order", ![r].snapshot = orderCounter]
    /\ UNCHANGED Quotes /\ UNCHANGED Orders

InitialNumber(r) == IF requests[r].snapshot = None THEN 0 ELSE requests[r].snapshot

\* generateOrderId and the insert of the shipment. The unique index refuses an id
\* that a stored shipment shows.
OrderCreate(r) ==
    /\ requests[r].at = "order" /\ InitialNumber(r) < MaxNumber
    /\ \E s \in Shipments \ Stored :
          /\ \A q \in Requests : requests[q].shipment # s
          /\ requests' = [requests EXCEPT ![r].at = "finalize", ![r].shipment = s,
                                          ![r].number = InitialNumber(r) + 1]
    /\ UNCHANGED Quotes /\ UNCHANGED Orders

\* MongoDB lets a transaction write the counter only if nobody has written it since
\* its snapshot, and nobody else is about to.
SnapshotHolds(r) ==
    /\ orderCounter = requests[r].snapshot
    /\ \A q \in Requests : requests[q].at # "commit"

OrderFinalize(r) ==
    /\ requests[r].at = "finalize"
    /\ IF SnapshotHolds(r) THEN requests' = [requests EXCEPT ![r].at = "commit"] ELSE Finish(r)
    /\ UNCHANGED Quotes /\ UNCHANGED Orders

OrderCommit(r) ==
    /\ requests[r].at = "commit"
    /\ \E codes \in Codes :
          LET id == [codes |-> codes, shown |-> requests[r].number] IN
          IF \E s \in Stored : shipments[s].id = id
          THEN stuck' = TRUE /\ UNCHANGED <<orderCounter, shipments>>
          ELSE /\ shipments' = [shipments EXCEPT
                      ![requests[r].shipment] = [id |-> id, given |-> requests[r].number]]
               /\ orderCounter' = requests[r].number
               /\ UNCHANGED stuck
    /\ Finish(r)
    /\ UNCHANGED Quotes

LastDigits(number)        == number % Digits

\* updateShipmentStatusOnAddressComplete: an address of the shipment was edited.
Renumber(s, codes) ==
    /\ s \in Stored /\ codes \notin Unknown
    /\ LET id == [codes |-> codes, shown |-> LastDigits(shipments[s].id.shown)] IN
       IF \E q \in Stored \ {s} : shipments[q].id = id
       THEN stuck' = TRUE /\ UNCHANGED shipments
       ELSE shipments' = [shipments EXCEPT ![s].id = id] /\ UNCHANGED stuck
    /\ UNCHANGED Quotes /\ UNCHANGED <<orderCounter, requests>>

\* A process dies, or a transaction is given up.
Crash(r) ==
    /\ requests[r] # Idle
    /\ Finish(r)
    /\ UNCHANGED Quotes /\ UNCHANGED Orders

Next ==
    \/ \E r \in Requests :
          \/ QuoteLook(r) \/ QuoteInsert(r) \/ QuoteIncrement(r) \/ QuoteSave(r)
          \/ OrderRead(r) \/ OrderCreate(r) \/ OrderFinalize(r) \/ OrderCommit(r)
          \/ Crash(r)
    \/ \E s \in Shipments, codes \in Codes : Renumber(s, codes)

Spec == Init /\ [][Next]_vars

-----------------------------------------------------------------------------
\* Properties.

\* Every variable keeps its shape.
TypeOK ==
    /\ quoteCounter \in Numbered \cup {None} /\ orderCounter \in Numbered \cup {None}
    /\ quotes \subseteq Numbered /\ taken \subseteq Numbered
    /\ refused \in BOOLEAN /\ stuck \in BOOLEAN
    /\ shipments \in [Shipments -> Shipment]
    /\ requests \in [Requests -> Request]

\* No number is handed out to two quotes, whatever overlaps or dies: a number in
\* hand is stored nowhere and in no other hand, so that no quote is ever refused.
QuoteNumbersUnique ==
    /\ ~refused
    /\ \A r, q \in Requests : requests[r].at = "save" =>
          /\ requests[r].number \notin quotes
          /\ r # q /\ requests[q].at = "save" => requests[r].number # requests[q].number

\* The counter is the number of numbers handed out: a gap is left only by a quote
\* that died with its number.
CounterExact ==
    quoteCounter # None => taken = 1 .. quoteCounter

\* No two shipments are given the same number, and the counter is never behind.
OrderNumbersUnique ==
    /\ \A s, t \in Stored : shipments[s].given = shipments[t].given => s = t
    /\ \A s \in Stored : orderCounter # None /\ shipments[s].given <= orderCounter

\* A shipment shows the number it was given, however often its id is rewritten,
\* unless the number has more than four digits.
NumberSurvives ==
    \A s \in Stored : shipments[s].given < Digits => shipments[s].id.shown = shipments[s].given

\* As long as four digits suffice, no id is ever refused by the unique index.
NeverStuck ==
    orderCounter # None /\ orderCounter < Digits => ~stuck

\* Quotes and shipments are told apart by their numbers, however requests overlap,
\* die, or rewrite an id after an address was edited.
NumbersTell ==
    TypeOK /\ QuoteNumbersUnique /\ CounterExact /\ OrderNumbersUnique /\ NumberSurvives /\ NeverStuck

=============================================================================
