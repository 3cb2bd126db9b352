----------------------------- MODULE Desk_proofs -----------------------------
(***************************************************************************)
(* What holds of the three parts of MCDesk for any number of requests,     *)
(* shipments, digits, quotes, images, teams and members: Numbers first,    *)
(* then the images of quotes, then the teams.                              *)
(***************************************************************************)
EXTENDS MCDesk, FiniteSetTheorems, TLAPS

-----------------------------------------------------------------------------
\* Numbers: the inductive invariant.

\* A quote with a number in hand got it from the counter, and nobody else did.
QuotesInHand ==
    /\ quoteCounter = None => taken = {}
    /\ quotes \subseteq taken
    /\ \A r \in Requests :
          /\ requests[r].at \in {"increment", "save"} => quoteCounter # None
          /\ requests[r].at = "save" => requests[r].number \in taken

\* A transaction that has a shipment in hand has one that is not stored, for itself,
\* with the number after that of its snapshot.
Holds(r)  == requests[r].at \in {"finalize", "commit"}
OrdersInHand ==
    \A r \in Requests : Holds(r) =>
        /\ requests[r].shipment \in Shipments \ Stored
        /\ requests[r].number = InitialNumber(r) + 1
        /\ \A q \in Requests \ {r} : requests[q].shipment # requests[r].shipment

\* One transaction at most is past its look at the counter, and the counter is still
\* what its snapshot has.
OneCommits ==
    \A r \in Requests : requests[r].at = "commit" =>
        /\ orderCounter = requests[r].snapshot
        /\ \A q \in Requests \ {r} : requests[q].at # "commit"

\* No shipment is given the number 0, which is that of one that is not stored.
GivenSomething == \A s \in Stored : shipments[s].given # 0

\* An id is refused only after the numbers have become too long.
StuckLate == stuck => orderCounter # None /\ orderCounter >= Digits

IInv ==
    /\ TypeOK
    /\ QuotesInHand /\ QuoteNumbersUnique /\ CounterExact
    /\ OrdersInHand /\ OneCommits /\ GivenSomething
    /\ OrderNumbersUnique /\ NumberSurvives /\ StuckLate

-----------------------------------------------------------------------------
\* Types.

LEMMA UnusedType == Unused \in Shipment /\ Unused.given = 0
<1>1. (CHOOSE c \in Codes : TRUE) \in Codes  BY ConstantsAssumption
<1>2. 0 \in Numbered  BY ConstantsAssumption DEF Numbered
<1> QED  BY <1>1, <1>2 DEF Unused, Shipment, OrderId

LEMMA IdleType == Idle \in Request
<1>1. 0 \in Numbered  BY ConstantsAssumption DEF Numbered
<1> QED  BY <1>1 DEF Idle, Request

LEMMA InitIInv == Init => IInv
<1> SUFFICES ASSUME Init PROVE IInv  OBVIOUS
<1>1. TypeOK
  BY UnusedType, IdleType DEF Init, TypeOK
<1>2. Stored = {}
  BY DEF Init, Stored
<1>3. \A r \in Requests : requests[r].at = "idle" /\ requests[r].shipment = None
  BY DEF Init, Idle
<1> QED
  BY <1>1, <1>2, <1>3 DEF Init, IInv, QuotesInHand, QuoteNumbersUnique, CounterExact, OrdersInHand,
     OneCommits, GivenSomething, OrderNumbersUnique, NumberSurvives, StuckLate, Holds

-----------------------------------------------------------------------------
\* Steps that concern quotes.

\* What the invariant says of orders stays when they stand still and no request
\* takes a shipment in hand.
OrderPart == OrdersInHand /\ OneCommits /\ GivenSomething /\ OrderNumbersUnique /\ NumberSurvives /\ StuckLate
QuotePart == QuotesInHand /\ QuoteNumbersUnique /\ CounterExact

LEMMA OrdersStandStill ==
    ASSUME OrderPart, UNCHANGED Orders, NEW r \in Requests,
           requests \in [Requests -> Request], requests' \in [Requests -> Request],
           \A q \in Requests \ {r} : requests'[q] = requests[q],
           requests'[r].at \notin {"finalize", "commit"},
           requests'[r].shipment \in {None, requests[r].shipment}
    PROVE  OrderPart'
<1>1. Stored' = Stored /\ shipments' = shipments /\ orderCounter' = orderCounter /\ stuck' = stuck
  BY DEF Stored, Orders
<1>2. OrdersInHand'
  <2> SUFFICES ASSUME NEW q \in Requests, Holds(q)'
               PROVE  /\ requests'[q].shipment \in Shipments \ Stored
                      /\ requests'[q].number = InitialNumber(q)' + 1
                      /\ \A x \in Requests \ {q} : requests'[x].shipment # requests'[q].shipment
    BY <1>1 DEF OrdersInHand
  <2>1. q # r /\ requests'[q] = requests[q] /\ Holds(q)
    BY DEF Holds
  <2>2. /\ requests[q].shipment \in Shipments \ Stored
        /\ requests[q].number = InitialNumber(q) + 1
        /\ \A x \in Requests \ {q} : requests[x].shipment # requests[q].shipment
    BY <2>1 DEF OrderPart, OrdersInHand
  <2>3. requests[q].shipment # None
    BY <2>2, ConstantsAssumption
  <2> QED  BY <2>1, <2>2, <2>3 DEF InitialNumber
<1>3. OneCommits'
  BY <1>1 DEF OrderPart, OneCommits
<1> QED
  BY <1>1, <1>2, <1>3 DEF OrderPart, GivenSomething, OrderNumbersUnique, NumberSurvives, StuckLate

LEMMA QuotesStandStill ==
    ASSUME QuotePart, UNCHANGED Quotes, NEW r \in Requests,
           requests \in [Requests -> Request], requests' \in [Requests -> Request],
           \A q \in Requests \ {r} : requests'[q] = requests[q],
           requests'[r].at \notin {"increment", "save"}
    PROVE  QuotePart'
<1>1. /\ quoteCounter' = quoteCounter /\ quotes' = quotes /\ taken' = taken /\ refused' = refused
  BY DEF Quotes
<1>2. \A q \in Requests : requests'[q].at \in {"increment", "save"} => requests'[q] = requests[q]
  OBVIOUS
<1>3. QuotesInHand'
  BY <1>1, <1>2 DEF QuotePart, QuotesInHand
<1>4. QuoteNumbersUnique'
  BY <1>1, <1>2 DEF QuotePart, QuoteNumbersUnique
<1> QED  BY <1>1, <1>3, <1>4 DEF QuotePart, CounterExact

LEMMA QuoteLookSafe == ASSUME IInv, NEW r \in Requests, QuoteLook(r) PROVE IInv'
<1>1. /\ requests \in [Requests -> Request] /\ requests[r] = Idle
      /\ requests' = [requests EXCEPT ![r].at = IF quoteCounter = None THEN "insert" ELSE "increment"]
  BY DEF IInv, TypeOK, QuoteLook
<1>2. requests' \in [Requests -> Request]
  BY <1>1 DEF Request
<1>3. TypeOK'
  BY <1>2 DEF IInv, TypeOK, QuoteLook, Quotes, Orders
<1>4. /\ \A q \in Requests \ {r} : requests'[q] = requests[q]
      /\ requests'[r].at = IF quoteCounter = None THEN "insert" ELSE "increment"
      /\ requests'[r].shipment = None
  BY <1>1 DEF Request, Idle
<1>5. OrderPart'
  <2>1. OrderPart  BY DEF IInv, OrderPart
  <2>2. UNCHANGED Orders  BY DEF QuoteLook
  <2> QED  BY <1>1, <1>2, <1>4, <2>1, <2>2, OrdersStandStill
<1>6. /\ quoteCounter' = quoteCounter /\ quotes' = quotes /\ taken' = taken /\ refused' = refused
  BY DEF QuoteLook, Quotes
<1>7. QuotesInHand'
  BY <1>4, <1>6 DEF IInv, QuotesInHand
<1>8. QuoteNumbersUnique'
  BY <1>4, <1>6 DEF IInv, QuoteNumbersUnique
<1>9. CounterExact'
  BY <1>6 DEF IInv, CounterExact
<1> QED  BY <1>3, <1>5, <1>7, <1>8, <1>9 DEF IInv, OrderPart

LEMMA QuoteInsertSafe == ASSUME IInv, NEW r \in Requests, QuoteInsert(r) PROVE IInv'
<1>1. /\ requests \in [Requests -> Request] /\ requests[r].at = "insert"
      /\ UNCHANGED Orders /\ quotes' = quotes /\ taken' = taken /\ refused' = refused
  BY DEF IInv, TypeOK, QuoteInsert
<1>2. OrderPart /\ QuotePart
  BY DEF IInv, OrderPart, QuotePart
<1>3. CASE quoteCounter = None
  <2>1. quoteCounter' = 0 /\ requests' = [requests EXCEPT ![r].at = "increment"]
    BY <1>3 DEF QuoteInsert
  <2>2. /\ requests' \in [Requests -> Request]
        /\ \A q \in Requests \ {r} : requests'[q] = requests[q]
        /\ requests'[r].at = "increment" /\ requests'[r].shipment = requests[r].shipment
    BY <1>1, <2>1 DEF Request
  <2>3. 0 \in Numbered /\ 0 # None /\ 1 .. 0 = {}
    BY ConstantsAssumption DEF Numbered
  <2>4. TypeOK'
    BY <1>1, <2>1, <2>2, <2>3 DEF IInv, TypeOK, Orders
  <2>5. OrderPart'
    BY <1>1, <1>2, <2>2, OrdersStandStill
  <2>6. QuotesInHand'
    BY <1>1, <1>3, <2>1, <2>2, <2>3 DEF IInv, QuotesInHand
  <2>7. QuoteNumbersUnique'
    BY <1>1, <2>2 DEF IInv, QuoteNumbersUnique
  <2>8. CounterExact'
    BY <1>1, <1>3, <2>1, <2>3 DEF IInv, QuotesInHand, CounterExact
  <2> QED  BY <2>4, <2>5, <2>6, <2>7, <2>8 DEF IInv, OrderPart
<1>4. CASE quoteCounter # None
  <2>1. quoteCounter' = quoteCounter /\ requests' = [requests EXCEPT ![r] = Idle]
    BY <1>4 DEF QuoteInsert, Finish
  <2>2. /\ requests' \in [Requests -> Request]
        /\ \A q \in Requests \ {r} : requests'[q] = requests[q]
        /\ requests'[r].at = "idle" /\ requests'[r].shipment = None
    BY <1>1, <2>1, IdleType DEF Idle
  <2>3. UNCHANGED Quotes
    BY <1>1, <2>1 DEF Quotes
  <2>4. TypeOK'
    BY <1>1, <2>1, <2>2 DEF IInv, TypeOK, Orders
  <2>5. OrderPart'
    BY <1>1, <1>2, <2>2, OrdersStandStill
  <2>6. QuotePart'
    BY <1>1, <1>2, <2>2, <2>3, QuotesStandStill
  <2> QED  BY <2>4, <2>5, <2>6 DEF IInv, OrderPart, QuotePart
<1> QED  BY <1>3, <1>4

LEMMA QuoteIncrementSafe == ASSUME IInv, NEW r \in Requests, QuoteIncrement(r) PROVE IInv'
<1> DEFINE n == quoteCounter + 1
<1>1. /\ requests \in [Requests -> Request] /\ requests[r].at = "increment" /\ quoteCounter < MaxNumber
      /\ quoteCounter' = n /\ taken' = taken \cup {n} /\ quotes' = quotes /\ refused' = refused
      /\ requests' = [requests EXCEPT ![r].at = "save", ![r].number = n]
      /\ UNCHANGED Orders
  BY DEF IInv, TypeOK, QuoteIncrement, NextNumber
<1>2. OrderPart
  BY DEF IInv, OrderPart
<1>3. /\ quoteCounter # None /\ quoteCounter \in Nat /\ n \in Numbered /\ n # None
      /\ taken = 1 .. quoteCounter
  BY <1>1, ConstantsAssumption DEF IInv, TypeOK, QuotesInHand, CounterExact, Numbered
<1>4. n \notin taken /\ taken \cup {n} = 1 .. n
  BY <1>3
<1>5. /\ requests' \in [Requests -> Request]
      /\ \A q \in Requests \ {r} : requests'[q] = requests[q]
      /\ requests'[r].at = "save" /\ requests'[r].number = n
      /\ requests'[r].shipment = requests[r].shipment
  BY <1>1, <1>3 DEF Request
<1>6. TypeOK'
  BY <1>1, <1>3, <1>5 DEF IInv, TypeOK, Orders
<1>7. OrderPart'
  BY <1>1, <1>2, <1>5, OrdersStandStill
<1>8. QuotesInHand'
  BY <1>1, <1>3, <1>5 DEF IInv, QuotesInHand
<1>9. QuoteNumbersUnique'
  BY <1>1, <1>4, <1>5 DEF IInv, QuoteNumbersUnique, QuotesInHand
<1>10. CounterExact'
  BY <1>1, <1>4 DEF CounterExact
<1> QED  BY <1>6, <1>7, <1>8, <1>9, <1>10 DEF IInv, OrderPart

LEMMA QuoteSaveSafe == ASSUME IInv, NEW r \in Requests, QuoteSave(r) PROVE IInv'
<1>1. /\ requests \in [Requests -> Request] /\ requests[r].at = "save"
      /\ quoteCounter' = quoteCounter /\ taken' = taken
      /\ quotes' = quotes \cup {requests[r].number}
      /\ refused' = (refused \/ requests[r].number \in quotes)
      /\ requests' = [requests EXCEPT ![r] = Idle]
      /\ UNCHANGED Orders
  BY DEF IInv, TypeOK, QuoteSave, Finish
<1>2. OrderPart
  BY DEF IInv, OrderPart
<1>3. ~refused /\ requests[r].number \notin quotes /\ requests[r].number \in taken
  BY <1>1 DEF IInv, QuoteNumbersUnique, QuotesInHand
<1>4. /\ requests' \in [Requests -> Request]
      /\ \A q \in Requests \ {r} : requests'[q] = requests[q]
      /\ requests'[r].at = "idle" /\ requests'[r].shipment = None
  BY <1>1, IdleType DEF Idle
<1>5. TypeOK'
  BY <1>1, <1>3, <1>4 DEF IInv, TypeOK, Orders
<1>6. OrderPart'
  BY <1>1, <1>2, <1>4, OrdersStandStill
<1>7. QuotesInHand'
  BY <1>1, <1>3, <1>4 DEF IInv, QuotesInHand
<1>8. QuoteNumbersUnique'
  BY <1>1, <1>3, <1>4 DEF IInv, QuoteNumbersUnique
<1>9. CounterExact'
  BY <1>1 DEF IInv, CounterExact
<1> QED  BY <1>5, <1>6, <1>7, <1>8, <1>9 DEF IInv, OrderPart

-----------------------------------------------------------------------------
\* Steps that concern orders.

LEMMA OrderReadSafe == ASSUME IInv, NEW r \in Requests, OrderRead(r) PROVE IInv'
<1>1. /\ requests \in [Requests -> Request] /\ requests[r] = Idle
      /\ requests' = [requests EXCEPT ![r].at = "order", ![r].snapshot = orderCounter]
      /\ UNCHANGED Quotes /\ UNCHANGED Orders /\ OrderPart /\ QuotePart
  BY DEF IInv, TypeOK, OrderRead, OrderPart, QuotePart
<1>2. /\ requests' \in [Requests -> Request]
      /\ \A q \in Requests \ {r} : requests'[q] = requests[q]
      /\ requests'[r].at = "order" /\ requests'[r].shipment = None
  <2>1. orderCounter \in Numbered \cup {None} /\ requests[r] \in Request
    BY <1>1 DEF IInv, TypeOK
  <2>2. [requests[r] EXCEPT !.at = "order", !.snapshot = orderCounter] \in Request
    BY <2>1 DEF Request
  <2> QED  BY <1>1, <2>2 DEF Idle
<1>3. TypeOK'
  BY <1>1, <1>2 DEF IInv, TypeOK, Quotes, Orders
<1>4. OrderPart'
  BY <1>1, <1>2, OrdersStandStill
<1>5. QuotePart'
  BY <1>1, <1>2, QuotesStandStill
<1> QED  BY <1>3, <1>4, <1>5 DEF IInv, OrderPart, QuotePart

LEMMA CrashSafe == ASSUME IInv, NEW r \in Requests, Crash(r) PROVE IInv'
<1>1. /\ requests \in [Requests -> Request]
      /\ requests' = [requests EXCEPT ![r] = Idle]
      /\ UNCHANGED Quotes /\ UNCHANGED Orders /\ OrderPart /\ QuotePart
  BY DEF IInv, TypeOK, Crash, Finish, OrderPart, QuotePart
<1>2. /\ requests' \in [Requests -> Request]
      /\ \A q \in Requests \ {r} : requests'[q] = requests[q]
      /\ requests'[r].at = "idle" /\ requests'[r].shipment = None
  BY <1>1, IdleType DEF Idle
<1>3. TypeOK'
  BY <1>1, <1>2 DEF IInv, TypeOK, Quotes, Orders
<1>4. OrderPart'
  BY <1>1, <1>2, OrdersStandStill
<1>5. QuotePart'
  BY <1>1, <1>2, QuotesStandStill
<1> QED  BY <1>3, <1>4, <1>5 DEF IInv, OrderPart, QuotePart

LEMMA InitialNumberType ==
    ASSUME IInv, NEW r \in Requests
    PROVE  InitialNumber(r) \in Nat
<1>1. requests[r].snapshot \in Numbered \cup {None}
  BY DEF IInv, TypeOK, Request
<1> QED  BY <1>1 DEF InitialNumber, Numbered

LEMMA OrderCreateSafe == ASSUME IInv, NEW r \in Requests, OrderCreate(r) PROVE IInv'
<1>1. PICK s \in Shipments \ Stored :
        /\ \A q \in Requests : requests[q].shipment # s
        /\ requests' = [requests EXCEPT ![r].at = "finalize", ![r].shipment = s,
                                        ![r].number = InitialNumber(r) + 1]
  BY DEF OrderCreate
<1>2. /\ requests \in [Requests -> Request] /\ requests[r].at = "order"
      /\ InitialNumber(r) < MaxNumber
      /\ UNCHANGED Quotes /\ UNCHANGED Orders /\ OrderPart /\ QuotePart
  BY DEF IInv, TypeOK, OrderCreate, OrderPart, QuotePart
<1>3. InitialNumber(r) + 1 \in Numbered
  BY <1>2, InitialNumberType, ConstantsAssumption DEF Numbered
<1>4. /\ requests' \in [Requests -> Request]
      /\ \A q \in Requests \ {r} : requests'[q] = requests[q]
      /\ requests'[r].at = "finalize" /\ requests'[r].shipment = s
      /\ requests'[r].number = InitialNumber(r) + 1 /\ requests'[r].snapshot = requests[r].snapshot
  BY <1>1, <1>2, <1>3 DEF Request
<1>5. TypeOK'
  BY <1>2, <1>4 DEF IInv, TypeOK, Quotes, Orders
<1>6. QuotePart'
  BY <1>2, <1>4, QuotesStandStill
<1>7. Stored' = Stored /\ shipments' = shipments /\ orderCounter' = orderCounter /\ stuck' = stuck
  BY <1>2 DEF Stored, Orders
<1>8. OrdersInHand'
  <2> SUFFICES ASSUME NEW q \in Requests, Holds(q)'
               PROVE  /\ requests'[q].shipment \in Shipments \ Stored
                      /\ requests'[q].number = InitialNumber(q)' + 1
                      /\ \A x \in Requests \ {q} : requests'[x].shipment # requests'[q].shipment
    BY <1>7 DEF OrdersInHand
  <2>1. InitialNumber(q)' = InitialNumber(q)
    BY <1>4 DEF InitialNumber
  <2>2. CASE q = r
    BY <1>1, <1>4, <2>1, <2>2
  <2>3. CASE q # r
    <3>1. Holds(q) /\ requests'[q] = requests[q]
      BY <1>4, <2>3 DEF Holds
    <3> QED  BY <1>1, <1>2, <1>4, <2>1, <2>3, <3>1 DEF OrderPart, OrdersInHand
  <2> QED  BY <2>2, <2>3
<1>9. OneCommits'
  BY <1>4, <1>7 DEF IInv, OneCommits
<1> QED
  BY <1>5, <1>6, <1>7, <1>8, <1>9
  DEF IInv, QuotePart, GivenSomething, OrderNumbersUnique, NumberSurvives, StuckLate

LEMMA OrderFinalizeSafe == ASSUME IInv, NEW r \in Requests, OrderFinalize(r) PROVE IInv'
<1>1. /\ requests \in [Requests -> Request] /\ requests[r].at = "finalize"
      /\ UNCHANGED Quotes /\ UNCHANGED Orders /\ OrderPart /\ QuotePart
  BY DEF IInv, TypeOK, OrderFinalize, OrderPart, QuotePart
<1>2. CASE ~SnapshotHolds(r)
  <2>1. requests' = [requests EXCEPT ![r] = Idle]
    BY <1>2 DEF OrderFinalize, Finish
  <2>2. Crash(r)
    BY <1>1, <2>1 DEF Crash, Finish, Idle
  <2> QED  BY <2>2, CrashSafe
<1>3. CASE SnapshotHolds(r)
  <2>1. /\ requests' = [requests EXCEPT ![r].at = "commit"]
        /\ orderCounter = requests[r].snapshot
        /\ \A q \in Requests : requests[q].at # "commit"
    BY <1>3 DEF OrderFinalize, SnapshotHolds
  <2>2. /\ requests' \in [Requests -> Request]
        /\ \A q \in Requests \ {r} : requests'[q] = requests[q]
        /\ requests'[r].at = "commit" /\ requests'[r].snapshot = requests[r].snapshot
        /\ requests'[r].shipment = requests[r].shipment /\ requests'[r].number = requests[r].number
    BY <1>1, <2>1 DEF Request
  <2>3. TypeOK'
    BY <1>1, <2>2 DEF IInv, TypeOK, Quotes, Orders
  <2>4. QuotePart'
    BY <1>1, <2>2, QuotesStandStill
  <2>5. Stored' = Stored /\ shipments' = shipments /\ orderCounter' = orderCounter /\ stuck' = stuck
    BY <1>1 DEF Stored, Orders
  <2>6. \A q \in Requests : /\ Holds(q)' = Holds(q) /\ requests'[q].shipment = requests[q].shipment
                            /\ requests'[q].number = requests[q].number
                            /\ InitialNumber(q)' = InitialNumber(q)
    BY <1>1, <2>2 DEF Holds, InitialNumber
  <2>7. OrdersInHand'
    BY <2>5, <2>6 DEF IInv, OrdersInHand
  <2>8. OneCommits'
    BY <2>1, <2>2, <2>5 DEF OneCommits
  <2> QED
    BY <2>3, <2>4, <2>5, <2>7, <2>8
    DEF IInv, QuotePart, GivenSomething, OrderNumbersUnique, NumberSurvives, StuckLate
<1> QED  BY <1>2, <1>3

LEMMA Remainder ==
    ASSUME NEW n \in Nat
    PROVE  LastDigits(n) \in Nat /\ LastDigits(n) <= n /\ (n < Digits => LastDigits(n) = n)
BY ConstantsAssumption DEF LastDigits

LEMMA OrderCommitSafe == ASSUME IInv, NEW r \in Requests, OrderCommit(r) PROVE IInv'
<1> DEFINE n == requests[r].number
           own == requests[r].shipment
<1>1. PICK codes \in Codes :
        LET id == [codes |-> codes, shown |-> n] IN
        IF \E s \in Stored : shipments[s].id = id
        THEN stuck' = TRUE /\ UNCHANGED <<orderCounter, shipments>>
        ELSE /\ shipments' = [shipments EXCEPT ![own] = [id |-> id, given |-> n]]
             /\ orderCounter' = n
             /\ UNCHANGED stuck
  BY DEF OrderCommit
<1>2. /\ requests \in [Requests -> Request] /\ requests[r].at = "commit"
      /\ requests' = [requests EXCEPT ![r] = Idle]
      /\ UNCHANGED Quotes /\ QuotePart
  BY DEF IInv, TypeOK, OrderCommit, Finish, QuotePart
<1>3. /\ requests' \in [Requests -> Request]
      /\ \A q \in Requests \ {r} : requests'[q] = requests[q]
      /\ requests'[r].at = "idle" /\ requests'[r].shipment = None
  BY <1>2, IdleType DEF Idle
<1>4. QuotePart'
  BY <1>2, <1>3, QuotesStandStill
<1>5. /\ own \in Shipments \ Stored /\ n = InitialNumber(r) + 1 /\ n \in Numbered
      /\ \A q \in Requests \ {r} : requests[q].shipment # own
      /\ orderCounter = requests[r].snapshot
      /\ \A q \in Requests \ {r} : requests[q].at # "commit"
  BY <1>2 DEF IInv, TypeOK, Request, OrdersInHand, OneCommits, Holds
<1>6. orderCounter # None => orderCounter \in Nat /\ n = orderCounter + 1
  BY <1>5 DEF InitialNumber, IInv, TypeOK, Numbered
<1>7. n \in Nat /\ n # 0
  BY <1>5, InitialNumberType
<1>8. \A s \in Stored : /\ shipments[s].given \in Nat /\ shipments[s].given # 0
                        /\ shipments[s].given < n
                        /\ orderCounter # None /\ shipments[s].given <= orderCounter
  BY <1>6, <1>7 DEF IInv, TypeOK, GivenSomething, OrderNumbersUnique, Shipment, Stored, Numbered
<1>9. \A q \in Requests : Holds(q)' => q # r /\ Holds(q) /\ requests'[q] = requests[q]
  BY <1>3 DEF Holds
<1>10. \A q \in Requests : Holds(q)' =>
         /\ requests'[q].shipment \in Shipments \ Stored /\ requests'[q].shipment # own
         /\ requests'[q].number = InitialNumber(q)' + 1
         /\ \A x \in Requests \ {q} : requests'[x].shipment # requests'[q].shipment
  <2> SUFFICES ASSUME NEW q \in Requests, Holds(q)'
               PROVE  /\ requests'[q].shipment \in Shipments \ Stored /\ requests'[q].shipment # own
                      /\ requests'[q].number = InitialNumber(q)' + 1
                      /\ \A x \in Requests \ {q} : requests'[x].shipment # requests'[q].shipment
    OBVIOUS
  <2>1. q # r /\ Holds(q) /\ requests'[q] = requests[q]
    BY <1>9
  <2>2. /\ requests[q].shipment \in Shipments \ Stored
        /\ requests[q].number = InitialNumber(q) + 1
        /\ \A x \in Requests \ {q} : requests[x].shipment # requests[q].shipment
    BY <2>1 DEF IInv, OrdersInHand
  <2>3. requests[q].shipment # None
    BY <2>2, ConstantsAssumption
  <2> QED  BY <1>3, <1>5, <2>1, <2>2, <2>3 DEF InitialNumber
<1>11. OneCommits'
  BY <1>3, <1>5 DEF OneCommits
<1>12. CASE \E s \in Stored : shipments[s].id = [codes |-> codes, shown |-> n]
  <2>1. /\ stuck' = TRUE /\ orderCounter' = orderCounter /\ shipments' = shipments
        /\ Stored' = Stored
    BY <1>1, <1>12 DEF Stored
  <2>2. PICK s \in Stored : shipments[s].id.shown = n
    BY <1>12
  <2>3. orderCounter # None /\ orderCounter >= Digits
    <3>1. shipments[s].given >= Digits
      BY <1>8, <2>2, ConstantsAssumption DEF IInv, NumberSurvives
    <3> QED  BY <1>6, <1>8, <3>1, ConstantsAssumption
  <2>4. TypeOK'
    BY <1>2, <1>3, <2>1 DEF IInv, TypeOK, Quotes
  <2>5. OrdersInHand'
    BY <1>10, <2>1 DEF OrdersInHand
  <2> QED
    BY <1>4, <1>11, <2>1, <2>3, <2>4, <2>5
    DEF IInv, QuotePart, GivenSomething, OrderNumbersUnique, NumberSurvives, StuckLate
<1>13. CASE ~\E s \in Stored : shipments[s].id = [codes |-> codes, shown |-> n]
  <2> DEFINE new == [id |-> [codes |-> codes, shown |-> n], given |-> n]
  <2>1. /\ shipments' = [shipments EXCEPT ![own] = new]
        /\ orderCounter' = n /\ stuck' = stuck
    BY <1>1, <1>13
  <2>2. new \in Shipment /\ new # Unused
    BY <1>5, <1>7, UnusedType DEF Shipment, OrderId
  <2>3. /\ shipments' \in [Shipments -> Shipment]
        /\ shipments'[own] = new
        /\ \A s \in Shipments \ {own} : shipments'[s] = shipments[s]
    BY <1>5, <2>1, <2>2 DEF IInv, TypeOK
  <2>4. Stored' = Stored \cup {own}
    BY <1>5, <2>2, <2>3 DEF Stored
  <2>5. \A s \in Stored : shipments'[s] = shipments[s]
    BY <1>5, <2>3 DEF Stored
  <2>6. TypeOK'
    BY <1>2, <1>3, <1>5, <2>1, <2>3 DEF IInv, TypeOK, Quotes
  <2>7. OrdersInHand'
    BY <1>10, <2>4 DEF OrdersInHand
  <2>8. GivenSomething'
    BY <1>7, <2>3, <2>4, <2>5 DEF IInv, GivenSomething
  <2>9. OrderNumbersUnique'
    <3>1. \A s \in Stored' : orderCounter' # None /\ shipments'[s].given <= orderCounter'
      BY <1>7, <1>8, <2>1, <2>3, <2>4, <2>5, ConstantsAssumption
    <3>2. \A s, t \in Stored' : shipments'[s].given = shipments'[t].given => s = t
      BY <1>7, <1>8, <2>3, <2>4, <2>5 DEF IInv, OrderNumbersUnique
    <3> QED  BY <3>1, <3>2 DEF OrderNumbersUnique
  <2>10. NumberSurvives'
    BY <2>3, <2>4, <2>5 DEF IInv, NumberSurvives
  <2>11. StuckLate'
    BY <1>6, <1>7, <2>1, ConstantsAssumption DEF IInv, StuckLate
  <2> QED
    BY <1>4, <1>11, <2>6, <2>7, <2>8, <2>9, <2>10, <2>11 DEF IInv, QuotePart
<1> QED  BY <1>12, <1>13

LEMMA RenumberSafe ==
    ASSUME IInv, NEW s \in Shipments, NEW codes \in Codes, Renumber(s, codes) PROVE IInv'
<1> DEFINE shown == LastDigits(shipments[s].id.shown)
           id == [codes |-> codes, shown |-> shown]
<1>1. /\ s \in Stored /\ UNCHANGED Quotes
      /\ orderCounter' = orderCounter /\ requests' = requests
      /\ IF \E q \in Stored \ {s} : shipments[q].id = id
         THEN stuck' = TRUE /\ UNCHANGED shipments
         ELSE shipments' = [shipments EXCEPT ![s].id = id] /\ UNCHANGED stuck
  BY DEF Renumber
<1>2. QuotePart'
  BY <1>1 DEF IInv, QuotePart, QuotesInHand, QuoteNumbersUnique, CounterExact, Quotes
<1>3. OneCommits'
  BY <1>1 DEF IInv, OneCommits
<1>4. shipments \in [Shipments -> Shipment] /\ shipments[s] \in Shipment
  BY DEF IInv, TypeOK
<1>5. /\ shipments[s].id.shown \in Nat /\ shipments[s].id.shown <= MaxNumber
      /\ shown \in Nat /\ shown \in Numbered
      /\ (shipments[s].id.shown < Digits => shown = shipments[s].id.shown)
  BY <1>4, Remainder, ConstantsAssumption DEF Shipment, OrderId, Numbered
<1>6. CASE \E q \in Stored \ {s} : shipments[q].id = id
  <2>1. stuck' = TRUE /\ shipments' = shipments /\ Stored' = Stored
    BY <1>1, <1>6 DEF Stored
  <2>2. PICK q \in Stored \ {s} : shipments[q].id.shown = shown
    BY <1>6
  <2>3. /\ orderCounter # None /\ orderCounter \in Nat
        /\ shipments[s].given \in Nat /\ shipments[s].given <= orderCounter
        /\ shipments[q].given \in Nat /\ shipments[q].given <= orderCounter
        /\ shipments[s].given # shipments[q].given
    BY <1>1, <1>4 DEF IInv, TypeOK, OrderNumbersUnique, Shipment, Numbered, Stored
  <2>4. orderCounter >= Digits
    <3>1. CASE orderCounter < Digits
      <4>1. /\ shipments[s].given < Digits /\ shipments[q].given < Digits
        BY <2>3, <3>1, ConstantsAssumption
      <4>2. /\ shipments[s].id.shown = shipments[s].given
            /\ shipments[q].id.shown = shipments[q].given
        BY <1>1, <4>1 DEF IInv, NumberSurvives
      <4> QED  BY <1>5, <2>2, <2>3, <4>1, <4>2
    <3> QED  BY <2>3, <3>1, ConstantsAssumption
  <2>5. TypeOK'
    BY <1>1, <2>1 DEF IInv, TypeOK, Quotes
  <2>6. OrdersInHand'
    BY <1>1, <2>1 DEF IInv, OrdersInHand, Holds, InitialNumber
  <2> QED
    BY <1>1, <1>2, <1>3, <2>1, <2>3, <2>4, <2>5, <2>6
    DEF IInv, QuotePart, GivenSomething, OrderNumbersUnique, NumberSurvives, StuckLate
<1>7. CASE ~\E q \in Stored \ {s} : shipments[q].id = id
  <2>1. shipments' = [shipments EXCEPT ![s].id = id] /\ stuck' = stuck
    BY <1>1, <1>7
  <2>2. [shipments[s] EXCEPT !.id = id] \in Shipment
    BY <1>4, <1>5 DEF Shipment, OrderId
  <2>3. /\ shipments' \in [Shipments -> Shipment]
        /\ shipments'[s].id.shown = shown /\ shipments'[s].given = shipments[s].given
        /\ \A q \in Shipments \ {s} : shipments'[q] = shipments[q]
    BY <1>4, <2>1, <2>2 DEF Shipment
  <2>4. Stored' = Stored
    <3>1. shipments[s].given # 0  BY <1>1 DEF IInv, GivenSomething
    <3>2. shipments'[s] # Unused  BY <2>3, <3>1, UnusedType
    <3> QED  BY <1>1, <2>3, <3>2 DEF Stored
  <2>5. \A q \in Stored : shipments'[q].given = shipments[q].given
    BY <2>3 DEF Stored
  <2>6. TypeOK'
    BY <1>1, <2>1, <2>3 DEF IInv, TypeOK, Quotes
  <2>7. OrdersInHand'
    BY <1>1, <2>4 DEF IInv, OrdersInHand, Holds, InitialNumber
  <2>8. NumberSurvives'
    <3> SUFFICES ASSUME NEW q \in Stored, shipments[q].given < Digits
                 PROVE  shipments'[q].id.shown = shipments[q].given
      BY <2>4, <2>5 DEF NumberSurvives
    <3>1. shipments[q].id.shown = shipments[q].given
      BY DEF IInv, NumberSurvives
    <3>2. CASE q = s
      BY <1>5, <2>3, <3>1, <3>2
    <3>3. CASE q # s
      BY <2>3, <3>1, <3>3 DEF Stored
    <3> QED  BY <3>2, <3>3
  <2> QED
    BY <1>1, <1>2, <1>3, <2>1, <2>4, <2>5, <2>6, <2>7, <2>8
    DEF IInv, QuotePart, GivenSomething, OrderNumbersUnique, StuckLate
<1> QED  BY <1>6, <1>7

-----------------------------------------------------------------------------
\* The theorem.

LEMMA StepIInv == IInv /\ [Next]_vars => IInv'
<1> SUFFICES ASSUME IInv, [Next]_vars PROVE IInv'  OBVIOUS
<1>1. ASSUME NEW r \in Requests,
             \/ QuoteLook(r) \/ QuoteInsert(r) \/ QuoteIncrement(r) \/ QuoteSave(r)
             \/ OrderRead(r) \/ OrderCreate(r) \/ OrderFinalize(r) \/ OrderCommit(r)
             \/ Crash(r)
      PROVE  IInv'
  BY <1>1, QuoteLookSafe, QuoteInsertSafe, QuoteIncrementSafe, QuoteSaveSafe, OrderReadSafe,
     OrderCreateSafe, OrderFinalizeSafe, OrderCommitSafe, CrashSafe
<1>2. ASSUME NEW s \in Shipments, NEW codes \in Codes, Renumber(s, codes) PROVE IInv'
  BY <1>2, RenumberSafe
<1>3. CASE UNCHANGED vars
  <2>1. UNCHANGED Orders /\ UNCHANGED Quotes /\ requests' = requests /\ Stored' = Stored
    BY <1>3 DEF vars, Orders, Quotes, Stored
  <2> QED
    BY <2>1 DEF IInv, TypeOK, QuotesInHand, QuoteNumbersUnique, CounterExact, OrdersInHand,
       OneCommits, GivenSomething, OrderNumbersUnique, NumberSurvives, StuckLate, Orders, Quotes,
       Holds, InitialNumber
<1> QED  BY <1>1, <1>2, <1>3 DEF Next

\* Quotes and shipments are told apart by their numbers, whatever the requests of
\* generateRequestId, findOrCreateShipment and the address listener do at the same
\* time, and wherever they die: no quote is ever refused its number, no two shipments
\* are given the same one, a rewritten id keeps it, and while four digits suffice the
\* unique index refuses no id.
THEOREM NumbersAlwaysTell == Spec => []NumbersTell
<1>1. IInv => NumbersTell
  BY ConstantsAssumption DEF IInv, NumbersTell, NeverStuck, StuckLate, TypeOK, Numbered
<1> QED  BY <1>1, InitIInv, StepIInv, PTL DEF Spec

-----------------------------------------------------------------------------
\* Quotes and their images: the inductive invariant. An image has one owner at most, a
\* quote, a request that has uploaded it, or nobody any more, and only images of quotes
\* are ever deleted.

\* What a request has uploaded and not yet handed over.
Hand(c) == (c.first \cup c.second \cup {c.image}) \ {None}
Mine(c) == IF c.at = "destroy" THEN {} ELSE Hand(c)

Few(S) == IsFiniteSet(S) /\ Cardinality(S) <= MaxAttachments

\* An upload fills the first service and then the second.
Uploading(c) ==
    /\ c.first \cap c.second = {} /\ IsFiniteSet(c.first) /\ IsFiniteSet(c.second)
    /\ c.files \in 1 .. MaxAttachments /\ c.services \in {1, 2}
    /\ Cardinality(c.first) <= c.files /\ Cardinality(c.second) < c.files
    /\ Cardinality(c.first) < c.files => c.second = {}
    /\ c.services = 1 => Cardinality(c.first) < c.files

CallFits(c) ==
    /\ c.at = "idle" => c = Img!Idle
    /\ c.at \notin {"upload", "save"} => c.first = {} /\ c.second = {}
    /\ c.at \notin {"push", "destroy"} => c.image = None
    /\ c.at \in {"push", "destroy", "cancel"} => c.quote \in Img!Stored
    /\ c.at \in {"push", "destroy"} => c.image \in Images
    /\ c.at = "destroy" => c.image \in removed
    /\ c.at = "cancel" => c.quote \in cancelling
    /\ c.at = "upload" => Uploading(c)
    /\ c.at = "save" => c.first \cap c.second = {} /\ Few(c.first) /\ Few(c.second)

CallsFit == \A r \in Callers : CallFits(calls[r])

QuoteFits(q) ==
    /\ documents[q].first \cap documents[q].second = {}
    /\ Few(documents[q].first) /\ Few(documents[q].second)
    /\ q \notin Img!Stored => documents[q].first = {} /\ documents[q].second = {}

QuotesFit == \A q \in QuoteIds : QuoteFits(q)

\* One owner at most, whom it has known since it was uploaded.
Apart ==
    /\ \A p, q \in QuoteIds : p # q => Img!Refs(p) \cap Img!Refs(q) = {}
    /\ \A r, s \in Callers : r # s => Mine(calls[r]) \cap Mine(calls[s]) = {}
    /\ \A r \in Callers, q \in QuoteIds : Mine(calls[r]) \cap Img!Refs(q) = {}
    /\ \A q \in QuoteIds : stray \cap Img!Refs(q) = {}
    /\ \A r \in Callers : stray \cap Mine(calls[r]) = {}
Known ==
    /\ cloud \subseteq uploaded /\ stray \subseteq uploaded
    /\ \A q \in QuoteIds : Img!Refs(q) \subseteq uploaded
    /\ \A r \in Callers : Mine(calls[r]) \subseteq cloud

\* What may be deleted is in the first service of a quote: what a request was asked to
\* delete, and the images of a quote that is being cancelled.
InFirst(i) == \E q \in QuoteIds : i \in documents[q].first
Cancelled(i) == \E q \in cancelling : i \in documents[q].first
ToDelete ==
    /\ \A i \in removed : InFirst(i)
    /\ cancelling \subseteq Img!Stored
    /\ \A t \in tasks : t.quote \in cancelling /\ t.left \subseteq documents[t.quote].first

Owned(i) == (\E q \in QuoteIds : i \in Img!Refs(q)) \/ (\E r \in Callers : i \in Mine(calls[r])) \/ i \in stray
AllOwned == \A i \in cloud : Owned(i)

ImagesInv == Img!TypeOK /\ CallsFit /\ QuotesFit /\ Apart /\ Known /\ ToDelete /\ Img!ImagesStay /\ AllOwned

-----------------------------------------------------------------------------
\* Finite sets.

LEMMA ImgCardinality == \A S : Img!Cardinality(S) = Cardinality(S)
BY DEF Img!Cardinality, Cardinality

LEMMA AddOne ==
    ASSUME NEW S, IsFiniteSet(S), NEW x, x \notin S
    PROVE  /\ IsFiniteSet(S \cup {x}) /\ Cardinality(S) \in Nat
           /\ Cardinality(S \cup {x}) = Cardinality(S) + 1
BY FS_AddElement, FS_CardinalityType

-----------------------------------------------------------------------------
\* What every step but the one that stores a quote does to quotes, requests, images and
\* what is to be deleted.

QuotesKept ==
    /\ documents' \in [QuoteIds -> Img!Quote]
    /\ \A q \in QuoteIds :
          /\ documents'[q].first = documents[q].first /\ documents'[q].second = documents[q].second
          /\ documents'[q].status = "unused" <=> documents[q].status = "unused"

New == uploaded' \ uploaded
Handed ==
    /\ calls' \in [Callers -> Img!Call] /\ CallsFit'
    /\ \A r \in Callers : Mine(calls'[r]) \subseteq Mine(calls[r]) \cup New
    /\ \A r, s \in Callers : r # s => Mine(calls'[r]) \cap Mine(calls'[s]) \cap New = {}

Clouded ==
    /\ uploaded \subseteq uploaded' /\ uploaded' \subseteq Images
    /\ cloud' \subseteq cloud \cup New /\ New \subseteq cloud'
    /\ \A i \in New : \E r \in Callers : i \in Mine(calls'[r])
    /\ \A i \in cloud \ cloud' : i \in removed \/ Cancelled(i)

Strayed ==
    /\ stray \subseteq stray'
    /\ \A i \in stray' \ stray : (\E r \in Callers : i \in Mine(calls[r])) /\ \A r \in Callers : i \notin Mine(calls'[r])
    /\ \A r \in Callers : Mine(calls[r]) \subseteq Mine(calls'[r]) \cup stray'

AskedFor ==
    /\ removed \subseteq removed' /\ \A i \in removed' : InFirst(i)
    /\ cancelling \subseteq cancelling' /\ cancelling' \subseteq Img!Stored
    /\ tasks' \subseteq Img!Task
    /\ \A t \in tasks' : t.quote \in cancelling' /\ t.left \subseteq documents[t.quote].first

LEMMA FrameImages ==
    ASSUME ImagesInv, QuotesKept, Handed, Clouded, Strayed, AskedFor, failed' \in BOOLEAN
    PROVE  ImagesInv'
<1> USE DEF ImagesInv
<1>1. \A q \in QuoteIds : Img!Refs(q)' = Img!Refs(q)
  BY DEF QuotesKept, Img!Refs
<1>2. Img!Stored' = Img!Stored
  BY DEF QuotesKept, Img!Stored
<1>3. \A q \in QuoteIds : documents[q].first \subseteq Img!Refs(q) /\ documents[q].second \subseteq Img!Refs(q)
  BY DEF Img!Refs
<1>4. removed' \subseteq Images
  <2>1. uploaded \subseteq Images /\ \A q \in QuoteIds : Img!Refs(q) \subseteq uploaded
    BY DEF Known, Img!TypeOK
  <2> QED  BY <1>3, <2>1 DEF AskedFor, InFirst
<1>6. stray' \subseteq uploaded
  BY DEF Strayed, Known
<1>7. Img!TypeOK'
  <2>1. uploaded' \subseteq Images /\ stray' \subseteq Images /\ cloud' \subseteq Images
    BY <1>6 DEF Clouded, Known, New
  <2>2. documents' \in [QuoteIds -> Img!Quote] /\ calls' \in [Callers -> Img!Call] /\ tasks' \subseteq Img!Task
    BY DEF QuotesKept, Handed, AskedFor
  <2>3. cancelling' \subseteq QuoteIds
    BY DEF AskedFor, Img!Stored
  <2> QED  BY <1>4, <2>1, <2>2, <2>3 DEF Img!TypeOK
<1>8. QuotesFit'
  BY <1>2 DEF QuotesFit, QuoteFits, QuotesKept
<1>9. Apart'
  <2>1. \A p, q \in QuoteIds : p # q => Img!Refs(p)' \cap Img!Refs(q)' = {}
    BY <1>1 DEF Apart
  <2>2. \A r, s \in Callers : r # s => Mine(calls'[r]) \cap Mine(calls'[s]) = {}
    BY DEF Apart, Known, Handed, New
  <2>3. \A r \in Callers, q \in QuoteIds : Mine(calls'[r]) \cap Img!Refs(q)' = {}
    BY <1>1 DEF Apart, Known, Handed, New
  <2>4. \A q \in QuoteIds : stray' \cap Img!Refs(q)' = {}
    BY <1>1 DEF Apart, Strayed
  <2>5. \A r \in Callers : stray' \cap Mine(calls'[r]) = {}
    BY <1>6 DEF Apart, Strayed, Handed, New
  <2> QED  BY <2>1, <2>2, <2>3, <2>4, <2>5 DEF Apart, Mine, Hand
<1>10. Known'
  <2>1. \A r \in Callers : Mine(calls'[r]) \subseteq cloud'
    <3> SUFFICES ASSUME NEW r \in Callers, NEW i \in Mine(calls'[r]), i \in Mine(calls[r]) PROVE i \in cloud'
      BY DEF Handed, Clouded
    <3>1. i \in cloud /\ \A q \in QuoteIds : i \notin documents[q].first
      BY <1>3 DEF Known, Apart, QuotesKept
    <3>2. i \notin removed /\ ~Cancelled(i)
      BY <3>1 DEF ToDelete, InFirst, Cancelled, Img!Stored
    <3> QED  BY <3>1, <3>2 DEF Clouded
  <2> QED  BY <1>1, <1>6, <2>1 DEF Known, Clouded, New, Mine, Hand
<1>11. ToDelete'
  BY <1>2 DEF ToDelete, AskedFor, QuotesKept, InFirst, Img!Stored
<1>12. Img!ImagesStay'
  <2> SUFFICES ASSUME NEW q \in Img!Stored
               PROVE  /\ q \notin cancelling' => documents'[q].first \ removed' \subseteq cloud'
                      /\ documents'[q].second \subseteq cloud'
    BY <1>2 DEF Img!ImagesStay
  <2>0. q \in QuoteIds
    BY DEF Img!Stored
  <2>1. ASSUME NEW i \in Img!Refs(q), NEW p \in QuoteIds, i \in documents[p].first
        PROVE  p = q /\ i \in documents[q].first /\ i \notin documents[q].second
    BY <2>0, <2>1 DEF Apart, Img!Refs, QuotesFit, QuoteFits
  <2>2. ASSUME q \notin cancelling', NEW i \in documents[q].first \ removed' PROVE i \in cloud'
    <3>1. i \in cloud /\ i \notin removed /\ q \notin cancelling
      BY <2>2 DEF Img!ImagesStay, AskedFor
    <3>2. ~Cancelled(i)
      <4>1. i \in Img!Refs(q)
        BY DEF Img!Refs
      <4>2. \A p \in cancelling : p \in QuoteIds
        BY DEF ToDelete, Img!Stored
      <4> QED  BY <2>1, <3>1, <4>1, <4>2 DEF Cancelled
    <3> QED  BY <3>1, <3>2 DEF Clouded
  <2>3. ASSUME NEW i \in documents[q].second PROVE i \in cloud'
    <3>1. i \in cloud
      BY DEF Img!ImagesStay
    <3>2. \A p \in QuoteIds : i \notin documents[p].first
      BY <2>1 DEF Img!Refs
    <3>3. i \notin removed /\ ~Cancelled(i)
      BY <3>2 DEF ToDelete, InFirst, Cancelled, Img!Stored
    <3> QED  BY <3>1, <3>3 DEF Clouded
  <2> QED  BY <2>0, <2>2, <2>3 DEF QuotesKept
<1>13. AllOwned'
  <2> SUFFICES ASSUME NEW i \in cloud' PROVE Owned(i)'
    BY DEF AllOwned
  <2>1. CASE i \in New
    <3>1. \E r \in Callers : i \in Mine(calls'[r])
      BY <2>1 DEF Clouded
    <3> QED  BY <3>1 DEF Owned, Mine, Hand
  <2>2. CASE i \notin New
    <3>1. Owned(i)
      BY <2>2 DEF Clouded, AllOwned
    <3>2. (\E q \in QuoteIds : i \in Img!Refs(q)') \/ (\E r \in Callers : i \in Mine(calls'[r])) \/ i \in stray'
      BY <1>1, <3>1 DEF Owned, Strayed
    <3> QED  BY <3>2 DEF Owned, Mine, Hand
  <2> QED  BY <2>1, <2>2
<1> QED  BY <1>7, <1>8, <1>9, <1>10, <1>11, <1>12, <1>13 DEF Handed

\* What a request has in hand, when one of them has a new value.
LEMMA IdleFits ==
    ASSUME ImagesInv
    PROVE  /\ Img!Idle \in Img!Call /\ Img!Idle.at = "idle" /\ Mine(Img!Idle) = {}
           /\ CallFits(Img!Idle)
BY DeskConstants DEF Img!Idle, Img!Call, Mine, Hand, CallFits

LEMMA PutCall ==
    ASSUME ImagesInv, QuotesKept, removed \subseteq removed', cancelling \subseteq cancelling',
           NEW r \in Callers, NEW c \in Img!Call, calls' = [calls EXCEPT ![r] = c], CallFits(c)',
           Mine(c) \subseteq Mine(calls[r]) \cup New
    PROVE  /\ Handed /\ calls'[r] = c
           /\ \A q \in Callers \ {r} : calls'[q] = calls[q]
<1> USE DEF ImagesInv
<1>1. calls \in [Callers -> Img!Call]
  BY DEF Img!TypeOK
<1>2. calls' \in [Callers -> Img!Call] /\ calls'[r] = c /\ \A q \in Callers \ {r} : calls'[q] = calls[q]
  BY <1>1
<1>3. Img!Stored' = Img!Stored
  BY DEF QuotesKept, Img!Stored
<1>4. ASSUME NEW q \in Callers PROVE CallFits(calls[q])'
  <2>1. PICK d : d = calls'[q]
    OBVIOUS
  <2>2. CASE q = r
    BY <1>2, <2>2
  <2>3. CASE q # r
    <3>1. CallFits(d) /\ d = calls'[q]
      BY <1>2, <2>1, <2>3 DEF CallsFit
    <3>2. CallFits(d)'
      BY <1>3, <3>1 DEF CallFits, Uploading, Few
    <3> QED  BY <2>1, <3>2 DEF CallFits, Uploading, Few
  <2> QED  BY <2>2, <2>3
<1>5. \A q \in Callers : Mine(calls[q]) \cap New = {}
  BY DEF Known, New
<1> QED  BY <1>2, <1>4, <1>5 DEF Handed, CallsFit

LEMMA SameCalls ==
    ASSUME ImagesInv, QuotesKept, removed \subseteq removed', cancelling \subseteq cancelling', UNCHANGED calls
    PROVE  Handed
<1> USE DEF ImagesInv
<1>1. calls' \in [Callers -> Img!Call]
  BY DEF Img!TypeOK
<1>2. Img!Stored' = Img!Stored
  BY DEF QuotesKept, Img!Stored
<1>3. CallsFit'
  BY <1>2 DEF CallsFit, CallFits, Uploading, Few
<1>4. \A q \in Callers : Mine(calls[q]) \cap New = {}
  BY DEF Known, New
<1> QED  BY <1>1, <1>3, <1>4 DEF Handed

LEMMA SameQuotes == ImagesInv /\ UNCHANGED documents => QuotesKept
BY DEF ImagesInv, QuotesKept, Img!TypeOK

\* Nothing is uploaded or deleted, and nothing astray.
LEMMA SameClouds ==
    ASSUME ImagesInv, UNCHANGED <<cloud, uploaded>>
    PROVE  Clouded
BY DEF ImagesInv, Img!TypeOK, Clouded, New

LEMMA SameAsked ==
    ASSUME ImagesInv, UNCHANGED <<tasks, removed, cancelling>>
    PROVE  AskedFor
BY DEF ImagesInv, Img!TypeOK, AskedFor, ToDelete

\* A request without images takes up something else without images.
LEMMA HandEmpty ==
    ASSUME UNCHANGED stray, NEW r \in Callers, Mine(calls[r]) = {} \/ Mine(calls[r]) = Mine(calls'[r]),
           \A q \in Callers \ {r} : calls'[q] = calls[q]
    PROVE  Strayed
BY DEF Strayed

-----------------------------------------------------------------------------
\* The actions.

LEMMA InitImages == Img!Init => ImagesInv
<1> SUFFICES ASSUME Img!Init PROVE ImagesInv
  OBVIOUS
<1> USE DEF Img!Init
<1>1. Img!Idle \in Img!Call /\ Img!Idle.at = "idle" /\ Mine(Img!Idle) = {}
  BY DeskConstants DEF Img!Idle, Img!Call, Mine, Hand
<1>2. /\ Img!Unused \in Img!Quote /\ Img!Unused.status = "unused"
      /\ Img!Unused.first = {} /\ Img!Unused.second = {}
  BY DeskConstants DEF Img!Unused, Img!Quote
<1>3. Img!Stored = {} /\ \A q \in QuoteIds : Img!Refs(q) = {}
  BY <1>2 DEF Img!Stored, Img!Refs
<1>4. Img!TypeOK
  BY <1>1, <1>2 DEF Img!TypeOK
<1>5. CallsFit
  BY <1>1 DEF CallsFit, CallFits, Img!Idle
<1>6. QuotesFit
  BY <1>2, FS_EmptySet, DeskConstants DEF QuotesFit, QuoteFits, Few
<1>7. Apart /\ Known
  BY <1>1, <1>3 DEF Apart, Known
<1> QED  BY <1>3, <1>4, <1>5, <1>6, <1>7 DEF ImagesInv, ToDelete, Img!ImagesStay, AllOwned

LEMMA CreateImages == \A r \in Callers : ImagesInv /\ Img!Create(r) => ImagesInv'
<1> SUFFICES ASSUME ImagesInv, NEW r \in Callers, Img!Create(r) PROVE ImagesInv'
  OBVIOUS
<1>1. /\ calls[r] = Img!Idle
      /\ UNCHANGED <<documents, cloud, tasks, uploaded, stray, removed, cancelling, failed>>
  BY DEF Img!Create, Img!Starting
<1>2. PICK services \in 0 .. MaxServices, files \in 0 .. MaxAttachments + 1 :
        /\ services > 0 => files <= MaxAttachments
        /\ calls' = [calls EXCEPT ![r] =
              IF services = 0 \/ files = 0 THEN [Img!Idle EXCEPT !.at = "save", !.services = services]
              ELSE [Img!Idle EXCEPT !.at = "upload", !.services = services, !.files = files]]
  BY DEF Img!Create, Img!Accepted, Img!Do
<1>3. PICK c : c = IF services = 0 \/ files = 0 THEN [Img!Idle EXCEPT !.at = "save", !.services = services]
                   ELSE [Img!Idle EXCEPT !.at = "upload", !.services = services, !.files = files]
  OBVIOUS
<1>4. /\ c \in Img!Call /\ c.image = None /\ c.first = {} /\ c.second = {} /\ c.services = services
      /\ \/ c.at = "save"
         \/ c.at = "upload" /\ c.files = files /\ services # 0 /\ files # 0
  <2>1. CASE services = 0 \/ files = 0
    <3>1. c = [Img!Idle EXCEPT !.at = "save", !.services = services]
      BY <1>3, <2>1
    <3>2. /\ Img!Idle \in Img!Call /\ Img!Idle.image = None
          /\ Img!Idle.first = {} /\ Img!Idle.second = {}
      BY IdleFits DEF Img!Idle
    <3>3. c.at = "save" /\ c.services = services /\ c.image = None /\ c.first = {} /\ c.second = {}
      BY <3>1, <3>2 DEF Img!Call
    <3>4. c \in Img!Call
      BY <3>1, <3>2 DEF Img!Call
    <3> QED  BY <3>3, <3>4
  <2>2. CASE ~(services = 0 \/ files = 0)
    BY <1>3, <2>2, DeskConstants DEF Img!Idle, Img!Call
  <2> QED  BY <2>1, <2>2
<1>5. CallFits(c)'
  <2>1. IsFiniteSet({}) /\ Cardinality({}) = 0
    BY FS_EmptySet
  <2>2. c.at = "upload" => Uploading(c)
    BY <1>2, <1>4, <2>1, DeskConstants DEF Uploading
  <2> QED  BY <1>4, <2>1, <2>2, DeskConstants DEF CallFits, Few, Uploading
<1>6. Mine(c) = {} /\ Mine(calls[r]) = {}
  BY <1>1, <1>4, IdleFits DEF Mine, Hand
<1>7. QuotesKept /\ Clouded /\ AskedFor /\ failed' \in BOOLEAN
  BY <1>1, SameQuotes, SameClouds, SameAsked DEF ImagesInv, Img!TypeOK
<1>8. Handed /\ calls'[r] = c /\ \A q \in Callers \ {r} : calls'[q] = calls[q]
  <2>1. calls' = [calls EXCEPT ![r] = c] /\ Mine(c) \subseteq Mine(calls[r]) \cup New
    BY <1>2, <1>3, <1>6
  <2> QED  BY <1>1, <1>4, <1>5, <1>7, <2>1, PutCall
<1>9. Strayed
  BY <1>1, <1>6, <1>8, HandEmpty
<1> QED  BY <1>7, <1>8, <1>9, FrameImages

\* One more image, for the first service and then for the second.
LEMMA UploadImages == \A r \in Callers : ImagesInv /\ Img!Upload(r) => ImagesInv'
<1> SUFFICES ASSUME ImagesInv, NEW r \in Callers, Img!Upload(r) PROVE ImagesInv'
  OBVIOUS
<1> DEFINE b == calls[r]
           i == Img!NewImage
<1>1. b.at = "upload" /\ UNCHANGED <<documents, tasks, stray, removed, cancelling, failed>>
      /\ cloud' = cloud \cup {i} /\ uploaded' = uploaded \cup {i}
  BY DEF Img!Upload
<1>2. i \in Images \ uploaded
  BY DEF Img!Upload, Img!NewImage, Img!Fresh
<1>3. b \in Img!Call /\ Uploading(b) /\ b.image = None /\ CallFits(b)
  BY <1>1 DEF ImagesInv, CallsFit, CallFits, Img!TypeOK
<1>4. i \notin b.first /\ i \notin b.second
  <2>1. Mine(b) \subseteq uploaded /\ i # None
    BY <1>2, DeskConstants DEF ImagesInv, Known
  <2> QED  BY <1>1, <1>2, <2>1 DEF Mine, Hand
<1>5. PICK m : m = IF Cardinality(b.first) < b.files THEN [b EXCEPT !.first = @ \cup {i}]
                   ELSE [b EXCEPT !.second = @ \cup {i}]
  OBVIOUS
<1>6. PICK c : c = IF Cardinality(m.first) + Cardinality(m.second) = b.files * b.services
                   THEN [m EXCEPT !.at = "save", !.files = 0] ELSE m
  OBVIOUS
<1>7. calls' = [calls EXCEPT ![r] = c]
  BY <1>5, <1>6, ImgCardinality DEF Img!Upload, Img!Do
<1> HIDE DEF b, i
<1>8. /\ m \in Img!Call /\ m.at = "upload" /\ m.image = None /\ m.quote = b.quote
      /\ m.files = b.files /\ m.services = b.services
      /\ \/ Cardinality(b.first) < b.files /\ m.first = b.first \cup {i} /\ m.second = b.second
         \/ ~(Cardinality(b.first) < b.files) /\ m.first = b.first /\ m.second = b.second \cup {i}
  <2>0. b.at = "upload"
    BY <1>1
  <2>1. CASE Cardinality(b.first) < b.files
    BY <1>2, <1>3, <1>5, <2>0, <2>1 DEF Img!Call
  <2>2. CASE ~(Cardinality(b.first) < b.files)
    BY <1>2, <1>3, <1>5, <2>0, <2>2 DEF Img!Call
  <2> QED  BY <2>1, <2>2
<1>9. /\ m.first \cap m.second = {} /\ IsFiniteSet(m.first) /\ IsFiniteSet(m.second)
      /\ Cardinality(m.first) \in Nat /\ Cardinality(m.second) \in Nat
      /\ Cardinality(m.first) <= m.files /\ Cardinality(m.second) <= m.files
      /\ \/ Uploading(m)
         \/ Cardinality(m.first) + Cardinality(m.second) = m.files * m.services
  <2>1. /\ IsFiniteSet(b.first) /\ IsFiniteSet(b.second) /\ b.files \in Nat /\ b.files <= MaxAttachments
        /\ Cardinality(b.first) \in Nat /\ Cardinality(b.second) \in Nat
    BY <1>3, FS_CardinalityType, DeskConstants DEF Uploading
  <2>2. b.services = 1 => b.files * b.services = b.files
    BY <2>1
  <2>3. b.services = 2 => b.files * b.services = b.files + b.files
    BY <2>1
  <2>4. CASE Cardinality(b.first) < b.files
    <3>1. b.second = {} /\ Cardinality(b.second) = 0
      BY <1>3, <2>4, FS_EmptySet DEF Uploading
    <3>2. IsFiniteSet(m.first) /\ Cardinality(m.first) = Cardinality(b.first) + 1 /\ m.second = {}
      BY <1>4, <1>8, <2>1, <2>4, <3>1, AddOne
    <3> QED  BY <1>3, <1>8, <2>1, <2>2, <2>3, <2>4, <3>1, <3>2, FS_EmptySet DEF Uploading
  <2>5. CASE ~(Cardinality(b.first) < b.files)
    <3>1. m.first = b.first /\ Cardinality(b.first) = b.files /\ b.services = 2
      BY <1>3, <1>8, <2>1, <2>5 DEF Uploading
    <3>2. IsFiniteSet(m.second) /\ Cardinality(m.second) = Cardinality(b.second) + 1
          /\ m.second = b.second \cup {i}
      BY <1>4, <1>8, <2>1, <2>5, AddOne
    <3> QED  BY <1>3, <1>4, <1>8, <2>1, <2>3, <2>5, <3>1, <3>2 DEF Uploading
  <2> QED  BY <2>4, <2>5
<1>10. /\ c \in Img!Call /\ c.image = None /\ c.first = m.first /\ c.second = m.second
       /\ c.at \in {"save", "upload"} /\ c.quote = b.quote
       /\ c.at = "upload" => c = m /\ Uploading(m)
  <2>1. CASE Cardinality(m.first) + Cardinality(m.second) = b.files * b.services
    <3>1. c = [m EXCEPT !.at = "save", !.files = 0]
      BY <1>6, <2>1
    <3>2. c.at = "save" /\ c.image = m.image /\ c.first = m.first /\ c.second = m.second /\ c.quote = m.quote
      BY <1>8, <3>1 DEF Img!Call
    <3>3. 0 \in 0 .. MaxAttachments + 1
      BY DeskConstants
    <3>4. c \in Img!Call
      BY <1>8, <3>1, <3>3 DEF Img!Call
    <3> QED  BY <1>8, <3>2, <3>4
  <2>2. CASE ~(Cardinality(m.first) + Cardinality(m.second) = b.files * b.services)
    BY <1>6, <1>8, <1>9, <2>2
  <2> QED  BY <2>1, <2>2
<1>11. CallFits(c)'
  <2>1. Few(c.first) /\ Few(c.second) /\ c.first \cap c.second = {}
    BY <1>3, <1>8, <1>9, <1>10, DeskConstants DEF Few, Uploading
  <2> QED  BY <1>10, <2>1 DEF CallFits, Few, Uploading
<1>12. Mine(c) = Mine(b) \cup {i} /\ New = {i}
  BY <1>1, <1>2, <1>3, <1>8, <1>10, DeskConstants DEF Mine, Hand, New
<1>13. QuotesKept /\ AskedFor /\ failed' \in BOOLEAN
  BY <1>1, SameQuotes, SameAsked DEF ImagesInv, Img!TypeOK
<1>14. Handed /\ calls'[r] = c /\ \A q \in Callers \ {r} : calls'[q] = calls[q]
  <2>1. Mine(c) \subseteq Mine(calls[r]) \cup New
    BY <1>12 DEF b
  <2> QED  BY <1>1, <1>7, <1>10, <1>11, <1>13, <2>1, PutCall
<1>15. Clouded
  BY <1>1, <1>2, <1>12, <1>14 DEF Clouded, ImagesInv, Img!TypeOK
<1>16. Strayed
  BY <1>1, <1>12, <1>14 DEF Strayed, b
<1> QED  BY <1>13, <1>14, <1>15, <1>16, FrameImages

\* A request that has a single image, or none, in hand.
LEMMA OneImage ==
    ASSUME NEW c, c.first = {}, c.second = {}, c.image \in Images
    PROVE  Mine(c) = IF c.at = "destroy" THEN {} ELSE {c.image}
BY DeskConstants DEF Mine, Hand

\* A request that is through has nothing in hand.
LEMMA EndCall ==
    ASSUME ImagesInv, QuotesKept, removed \subseteq removed', cancelling \subseteq cancelling',
           NEW r \in Callers, Img!Finish(r)
    PROVE  /\ Handed /\ calls'[r] = Img!Idle /\ Mine(calls'[r]) = {}
           /\ \A q \in Callers \ {r} : calls'[q] = calls[q]
<1>1. Img!Idle \in Img!Call /\ Mine(Img!Idle) = {}
  BY IdleFits
<1>2. CallFits(Img!Idle)'
  BY DEF CallFits, Img!Idle
<1>3. PICK c : c = Img!Idle
  OBVIOUS
<1>4. calls' = [calls EXCEPT ![r] = c]
  BY <1>3 DEF Img!Finish, Img!Do
<1>5. c \in Img!Call /\ CallFits(c)' /\ Mine(c) = {}
  BY <1>1, <1>2, <1>3 DEF CallFits, Img!Idle
<1>6. Handed /\ calls'[r] = c /\ \A q \in Callers \ {r} : calls'[q] = calls[q]
  BY <1>4, <1>5, PutCall
<1> QED  BY <1>3, <1>5, <1>6

LEMMA AttachImages == \A r \in Callers : ImagesInv /\ Img!AttachUpload(r) => ImagesInv'
<1> SUFFICES ASSUME ImagesInv, NEW r \in Callers, Img!AttachUpload(r) PROVE ImagesInv'
  OBVIOUS
<1> DEFINE i == Img!NewImage
<1>1. PICK q \in Img!Stored : /\ cloud' = cloud \cup {i} /\ uploaded' = uploaded \cup {i}
                              /\ calls' = [calls EXCEPT ![r] = [Img!Idle EXCEPT !.at = "push", !.quote = q, !.image = i]]
  BY DEF Img!AttachUpload, Img!Do
<1>2. calls[r] = Img!Idle /\ UNCHANGED <<documents, tasks, stray, removed, cancelling, failed>>
  BY DEF Img!AttachUpload, Img!Starting
<1>3. i \in Images \ uploaded
  BY DEF Img!AttachUpload, Img!NewImage, Img!Fresh
<1>4. PICK c : c = [Img!Idle EXCEPT !.at = "push", !.quote = q, !.image = i]
  OBVIOUS
<1> HIDE DEF i
<1>5. c.at = "push" /\ c.image = i /\ c.quote = q /\ c.first = {} /\ c.second = {}
  BY <1>4 DEF Img!Idle
<1>6. c \in Img!Call
  <2>1. q \in QuoteIds
    BY DEF Img!Stored
  <2> QED  BY <1>3, <1>4, <2>1, IdleFits DEF Img!Call
<1>7. QuotesKept /\ AskedFor /\ failed' \in BOOLEAN
  BY <1>2, SameQuotes, SameAsked DEF ImagesInv, Img!TypeOK
<1>8. CallFits(c)'
  BY <1>2, <1>3, <1>5 DEF CallFits, Img!Stored
<1>9. Mine(c) = {i} /\ Mine(calls[r]) = {} /\ New = {i}
  BY <1>1, <1>2, <1>3, <1>5, IdleFits, OneImage DEF New
<1>10. Handed /\ calls'[r] = c /\ \A p \in Callers \ {r} : calls'[p] = calls[p]
  <2>1. calls' = [calls EXCEPT ![r] = c] /\ Mine(c) \subseteq Mine(calls[r]) \cup New
    BY <1>1, <1>4, <1>9 DEF i
  <2> QED  BY <1>2, <1>6, <1>7, <1>8, <2>1, PutCall
<1>11. Clouded
  <2>1. cloud' = cloud \cup {i} /\ uploaded' = uploaded \cup {i}
    BY <1>1 DEF i
  <2> QED  BY <1>3, <1>9, <1>10, <2>1 DEF Clouded, ImagesInv, Img!TypeOK
<1>12. Strayed
  BY <1>2, <1>9, <1>10, HandEmpty
<1> QED  BY <1>7, <1>10, <1>11, <1>12, FrameImages

\* What is pushed into the quote is not stored.
LEMMA PushImages == \A r \in Callers : ImagesInv /\ Img!Push(r) => ImagesInv'
<1> SUFFICES ASSUME ImagesInv, NEW r \in Callers, Img!Push(r) PROVE ImagesInv'
  OBVIOUS
<1>1. /\ calls[r].at = "push" /\ stray' = stray \cup {calls[r].image}
      /\ documents' = [documents EXCEPT ![calls[r].quote] = documents[calls[r].quote]]
      /\ UNCHANGED <<cloud, tasks, uploaded, removed, cancelling, failed>> /\ Img!Finish(r)
  BY DEF Img!Push, Img!Pushed
<1>2. documents' = documents
  BY <1>1 DEF ImagesInv, Img!TypeOK
<1>3. Mine(calls[r]) = {calls[r].image}
  BY <1>1, OneImage DEF ImagesInv, CallsFit, CallFits
<1>4. QuotesKept /\ Clouded /\ AskedFor /\ failed' \in BOOLEAN
  BY <1>1, <1>2, SameQuotes, SameClouds, SameAsked DEF ImagesInv, Img!TypeOK
<1>5. /\ Handed /\ calls'[r] = Img!Idle /\ Mine(calls'[r]) = {}
      /\ \A q \in Callers \ {r} : calls'[q] = calls[q]
  BY <1>1, <1>4, EndCall
<1>6. Strayed
  BY <1>1, <1>3, <1>5 DEF Strayed, ImagesInv, Apart
<1> QED  BY <1>4, <1>5, <1>6, FrameImages

LEMMA RemoveImages == \A r \in Callers : ImagesInv /\ Img!Remove(r) => ImagesInv'
<1> SUFFICES ASSUME ImagesInv, NEW r \in Callers, Img!Remove(r) PROVE ImagesInv'
  OBVIOUS
<1>0. PICK q \in Img!Stored : \E i \in documents[q].first :
        /\ calls' = [calls EXCEPT ![r] = [Img!Idle EXCEPT !.at = "destroy", !.quote = q, !.image = i]]
        /\ removed' = removed \cup {i}
  BY DEF Img!Remove, Img!Do
<1>1. PICK i \in documents[q].first :
        /\ calls' = [calls EXCEPT ![r] = [Img!Idle EXCEPT !.at = "destroy", !.quote = q, !.image = i]]
        /\ removed' = removed \cup {i}
  BY <1>0
<1>2. calls[r] = Img!Idle /\ UNCHANGED <<documents, cloud, tasks, uploaded, stray, cancelling, failed>>
  BY DEF Img!Remove, Img!Starting
<1>3. q \in QuoteIds /\ i \in Images
  BY DEF Img!Stored, ImagesInv, Img!TypeOK, Img!Quote
<1>4. PICK c : c = [Img!Idle EXCEPT !.at = "destroy", !.quote = q, !.image = i]
  OBVIOUS
<1>5. c.at = "destroy" /\ c.image = i /\ c.quote = q /\ c.first = {} /\ c.second = {}
  BY <1>4 DEF Img!Idle
<1>6. c \in Img!Call
  BY <1>3, <1>4, IdleFits DEF Img!Call
<1>7. QuotesKept /\ Clouded /\ failed' \in BOOLEAN
  BY <1>2, SameQuotes, SameClouds DEF ImagesInv, Img!TypeOK
<1>8. CallFits(c)'
  BY <1>1, <1>2, <1>3, <1>5 DEF CallFits, Img!Stored
<1>9. Mine(c) = {} /\ Mine(calls[r]) = {}
  BY <1>2, <1>5, IdleFits DEF Mine
<1>10. Handed /\ calls'[r] = c /\ \A p \in Callers \ {r} : calls'[p] = calls[p]
  <2>1. calls' = [calls EXCEPT ![r] = c] /\ Mine(c) \subseteq Mine(calls[r]) \cup New /\ removed \subseteq removed'
    BY <1>1, <1>4, <1>9
  <2> QED  BY <1>2, <1>6, <1>7, <1>8, <2>1, PutCall
<1>11. AskedFor
  BY <1>1, <1>2, <1>3 DEF AskedFor, ImagesInv, Img!TypeOK, ToDelete, InFirst
<1>12. Strayed
  BY <1>2, <1>9, <1>10, HandEmpty
<1> QED  BY <1>7, <1>10, <1>11, <1>12, FrameImages

LEMMA DestroyImages == \A r \in Callers : ImagesInv /\ Img!Destroy(r) => ImagesInv'
<1> SUFFICES ASSUME ImagesInv, NEW r \in Callers, Img!Destroy(r) PROVE ImagesInv'
  OBVIOUS
<1>1. /\ calls[r].at = "destroy" /\ cloud' = cloud \ {calls[r].image} /\ Img!Finish(r)
      /\ UNCHANGED <<documents, tasks, uploaded, stray, removed, cancelling, failed>>
  BY DEF Img!Destroy
<1>2. calls[r].image \in removed /\ Mine(calls[r]) = {}
  BY <1>1 DEF ImagesInv, CallsFit, CallFits, Mine
<1>3. QuotesKept /\ AskedFor /\ failed' \in BOOLEAN
  BY <1>1, SameQuotes, SameAsked DEF ImagesInv, Img!TypeOK
<1>4. /\ Handed /\ Mine(calls'[r]) = {}
      /\ \A q \in Callers \ {r} : calls'[q] = calls[q]
  BY <1>1, <1>3, EndCall
<1>5. Clouded
  BY <1>1, <1>2 DEF Clouded, New, ImagesInv, Img!TypeOK
<1>6. Strayed
  BY <1>1, <1>2, <1>4, HandEmpty
<1> QED  BY <1>3, <1>4, <1>5, <1>6, FrameImages

LEMMA CancelImages == \A r \in Callers : ImagesInv /\ Img!Cancel(r) => ImagesInv'
<1> SUFFICES ASSUME ImagesInv, NEW r \in Callers, Img!Cancel(r) PROVE ImagesInv'
  OBVIOUS
<1>1. PICK q \in Img!Stored :
        /\ calls' = [calls EXCEPT ![r] = [Img!Idle EXCEPT !.at = "cancel", !.quote = q]]
        /\ tasks' = tasks \cup {[kind |-> "look", quote |-> q, left |-> {}]}
        /\ cancelling' = cancelling \cup {q}
  BY DEF Img!Cancel, Img!Do
<1>2. calls[r] = Img!Idle /\ UNCHANGED <<documents, cloud, uploaded, stray, removed, failed>>
  BY DEF Img!Cancel, Img!Starting
<1>3. q \in QuoteIds
  BY DEF Img!Stored
<1>4. PICK c : c = [Img!Idle EXCEPT !.at = "cancel", !.quote = q]
  OBVIOUS
<1>5. c.at = "cancel" /\ c.image = None /\ c.quote = q /\ c.first = {} /\ c.second = {}
  BY <1>4 DEF Img!Idle
<1>6. c \in Img!Call
  BY <1>3, <1>4, IdleFits DEF Img!Call
<1>7. QuotesKept /\ Clouded /\ failed' \in BOOLEAN
  BY <1>2, SameQuotes, SameClouds DEF ImagesInv, Img!TypeOK
<1>8. CallFits(c)'
  BY <1>1, <1>2, <1>5 DEF CallFits, Img!Stored
<1>9. Mine(c) = {} /\ Mine(calls[r]) = {}
  BY <1>2, <1>5, IdleFits DEF Mine, Hand
<1>10. Handed /\ calls'[r] = c /\ \A p \in Callers \ {r} : calls'[p] = calls[p]
  <2>1. calls' = [calls EXCEPT ![r] = c] /\ Mine(c) \subseteq Mine(calls[r]) \cup New
        /\ cancelling \subseteq cancelling'
    BY <1>1, <1>4, <1>9
  <2> QED  BY <1>2, <1>6, <1>7, <1>8, <2>1, PutCall
<1>11. AskedFor
  <2>1. [kind |-> "look", quote |-> q, left |-> {}] \in Img!Task
    BY <1>3 DEF Img!Task
  <2>2. \A t \in tasks' : t \in tasks \/ (t.quote = q /\ t.left = {})
    BY <1>1
  <2> QED  BY <1>1, <1>2, <1>3, <2>1, <2>2 DEF AskedFor, ImagesInv, Img!TypeOK, ToDelete
<1>12. Strayed
  BY <1>2, <1>9, <1>10, HandEmpty
<1> QED  BY <1>7, <1>10, <1>11, <1>12, FrameImages

\* The status of a quote, or its mark of deletion, is written.
LEMMA Marked ==
    ASSUME ImagesInv, NEW q \in Img!Stored,
           \/ documents' = [documents EXCEPT ![q].status = "Cancelled"]
           \/ documents' = [documents EXCEPT ![q].isDeleted = TRUE]
    PROVE  QuotesKept
<1>1. q \in QuoteIds /\ documents \in [QuoteIds -> Img!Quote] /\ documents[q] \in Img!Quote
      /\ documents[q].status # "unused"
  BY DEF Img!Stored, ImagesInv, Img!TypeOK
<1>2. /\ [documents[q] EXCEPT !.status = "Cancelled"] \in Img!Quote
      /\ [documents[q] EXCEPT !.isDeleted = TRUE] \in Img!Quote
  BY <1>1 DEF Img!Quote
<1>3. PICK d \in Img!Quote : /\ documents' = [documents EXCEPT ![q] = d] /\ d.status # "unused"
                             /\ d.first = documents[q].first /\ d.second = documents[q].second
  <2>1. CASE documents' = [documents EXCEPT ![q].status = "Cancelled"]
    <3>1. documents' = [documents EXCEPT ![q] = [documents[q] EXCEPT !.status = "Cancelled"]]
      BY <2>1
    <3>2. /\ [documents[q] EXCEPT !.status = "Cancelled"].status # "unused"
          /\ [documents[q] EXCEPT !.status = "Cancelled"].first = documents[q].first
          /\ [documents[q] EXCEPT !.status = "Cancelled"].second = documents[q].second
      BY <1>1 DEF Img!Quote
    <3> QED  BY <1>2, <3>1, <3>2
  <2>2. CASE documents' = [documents EXCEPT ![q].isDeleted = TRUE]
    <3>1. documents' = [documents EXCEPT ![q] = [documents[q] EXCEPT !.isDeleted = TRUE]]
      BY <2>2
    <3>2. /\ [documents[q] EXCEPT !.isDeleted = TRUE].status # "unused"
          /\ [documents[q] EXCEPT !.isDeleted = TRUE].first = documents[q].first
          /\ [documents[q] EXCEPT !.isDeleted = TRUE].second = documents[q].second
      BY <1>1 DEF Img!Quote
    <3> QED  BY <1>2, <3>1, <3>2
  <2> QED  BY <2>1, <2>2
<1> QED  BY <1>1, <1>3 DEF QuotesKept

LEMMA CancelledImages == \A r \in Callers : ImagesInv /\ Img!CancelWrite(r) => ImagesInv'
<1> SUFFICES ASSUME ImagesInv, NEW r \in Callers, Img!CancelWrite(r) PROVE ImagesInv'
  OBVIOUS
<1>1. /\ calls[r].at = "cancel" /\ documents' = [documents EXCEPT ![calls[r].quote].status = "Cancelled"]
      /\ Img!Finish(r) /\ UNCHANGED <<cloud, tasks, uploaded, stray, removed, cancelling, failed>>
  BY DEF Img!CancelWrite
<1>2. calls[r].quote \in Img!Stored /\ Mine(calls[r]) = {}
  BY <1>1 DEF ImagesInv, CallsFit, CallFits, Mine, Hand
<1>3. QuotesKept /\ Clouded /\ AskedFor /\ failed' \in BOOLEAN
  BY <1>1, <1>2, Marked, SameClouds, SameAsked DEF ImagesInv, Img!TypeOK
<1>4. /\ Handed /\ Mine(calls'[r]) = {}
      /\ \A q \in Callers \ {r} : calls'[q] = calls[q]
  BY <1>1, <1>3, EndCall
<1>5. Strayed
  BY <1>1, <1>2, <1>4, HandEmpty
<1> QED  BY <1>3, <1>4, <1>5, FrameImages

LEMMA UpdateImages == \A q \in QuoteIds : ImagesInv /\ Img!Update(q) => ImagesInv'
<1> SUFFICES ASSUME ImagesInv, NEW q \in QuoteIds, Img!Update(q) PROVE ImagesInv'
  OBVIOUS
<1>1. /\ q \in Img!Stored /\ documents' = [documents EXCEPT ![q].isDeleted = TRUE]
      /\ UNCHANGED <<cloud, calls, tasks, uploaded, stray, removed, cancelling, failed>>
  BY DEF Img!Update, Img!Stored
<1>2. QuotesKept /\ Clouded /\ AskedFor /\ failed' \in BOOLEAN
  BY <1>1, Marked, SameClouds, SameAsked DEF ImagesInv, Img!TypeOK
<1>3. Handed
  BY <1>1, <1>2, SameCalls
<1>4. Strayed
  BY <1>1 DEF Strayed
<1> QED  BY <1>2, <1>3, <1>4, FrameImages

\* What is left of a task when an image has had its turn, or when it ends early.
LEMMA LessToDo ==
    ASSUME ImagesInv, NEW t \in tasks, UNCHANGED <<documents, removed, cancelling>>,
           NEW left \in SUBSET documents[t.quote].first, NEW kind \in {"look", "clean"},
           tasks' \in {tasks \ {t}, (tasks \ {t}) \cup {[t EXCEPT !.kind = kind, !.left = left]}}
    PROVE  AskedFor
<1> USE DEF ImagesInv
<1>1. t \in Img!Task /\ t.quote \in cancelling /\ t.quote \in QuoteIds
  BY DEF Img!TypeOK, Img!Task, ToDelete
<1>2. PICK u : u = [t EXCEPT !.kind = kind, !.left = left]
  OBVIOUS
<1>3. left \subseteq Images
  BY <1>1 DEF Img!TypeOK, Img!Quote
<1>4. u \in Img!Task /\ u.quote = t.quote /\ u.left = left
  BY <1>1, <1>2, <1>3 DEF Img!Task
<1>5. \A x \in tasks' : x \in tasks \/ x = u
  BY <1>2
<1> QED  BY <1>1, <1>4, <1>5 DEF AskedFor, ToDelete, Img!TypeOK

\* The next task but one image.
LEMMA RestIsLess ==
    ASSUME ImagesInv, NEW t \in tasks, NEW i \in t.left
    PROVE  \/ Img!Rest(t, i) = tasks \ {t}
           \/ Img!Rest(t, i) = (tasks \ {t}) \cup {[t EXCEPT !.kind = t.kind, !.left = t.left \ {i}]}
<1>1. t \in Img!Task
  BY DEF ImagesInv, Img!TypeOK
<1>2. [t EXCEPT !.left = t.left \ {i}] = [t EXCEPT !.kind = t.kind, !.left = t.left \ {i}]
  BY <1>1 DEF Img!Task
<1> QED  BY <1>2 DEF Img!Rest, Img!Left

LEMMA LookImages == \A q \in QuoteIds : ImagesInv /\ Img!CleanLook(q) => ImagesInv'
<1> SUFFICES ASSUME ImagesInv, NEW q \in QuoteIds, Img!CleanLook(q) PROVE ImagesInv'
  OBVIOUS
<1>1. PICK t \in tasks : /\ t.quote = q
                         /\ tasks' = (tasks \ {t}) \cup (IF documents[q].first = {} THEN {}
                                        ELSE {[t EXCEPT !.kind = "clean", !.left = documents[q].first]})
  BY DEF Img!CleanLook, Img!ToClean
<1>2. UNCHANGED <<documents, cloud, calls, uploaded, stray, removed, cancelling, failed>>
  BY DEF Img!CleanLook
<1>3. QuotesKept /\ Clouded /\ failed' \in BOOLEAN
  BY <1>2, SameQuotes, SameClouds DEF ImagesInv, Img!TypeOK
<1>4. Handed /\ Strayed
  BY <1>2, <1>3, SameCalls DEF Strayed
<1>5. AskedFor
  <2>1. documents[q].first \in SUBSET documents[t.quote].first /\ "clean" \in {"look", "clean"}
    BY <1>1
  <2>2. tasks' \in {tasks \ {t}, (tasks \ {t}) \cup {[t EXCEPT !.kind = "clean", !.left = documents[q].first]}}
    BY <1>1
  <2> QED  BY <1>2, <2>1, <2>2, LessToDo
<1> QED  BY <1>3, <1>4, <1>5, FrameImages

LEMMA CleanImages == \A i \in Images : ImagesInv /\ Img!CleanOne(i) => ImagesInv'
<1> SUFFICES ASSUME ImagesInv, NEW i \in Images, Img!CleanOne(i) PROVE ImagesInv'
  OBVIOUS
<1>1. PICK t \in tasks : i \in t.left /\ cloud' = cloud \ {i} /\ tasks' = Img!Rest(t, i)
  BY DEF Img!CleanOne
<1>2. UNCHANGED <<documents, calls, uploaded, stray, removed, cancelling, failed>>
  BY DEF Img!CleanOne
<1>3. t \in Img!Task /\ t.quote \in cancelling /\ t.left \subseteq documents[t.quote].first
  BY DEF ImagesInv, ToDelete, Img!TypeOK
<1>4. QuotesKept /\ failed' \in BOOLEAN
  BY <1>2, SameQuotes DEF ImagesInv, Img!TypeOK
<1>5. Clouded
  BY <1>1, <1>2, <1>3 DEF Clouded, New, Cancelled, ImagesInv, Img!TypeOK
<1>6. Handed /\ Strayed
  BY <1>2, <1>4, SameCalls DEF Strayed
<1>7. AskedFor
  <2>1. t.left \ {i} \in SUBSET documents[t.quote].first /\ t.kind \in {"look", "clean"}
    BY <1>3 DEF Img!Task
  <2>2. tasks' \in {tasks \ {t}, (tasks \ {t}) \cup {[t EXCEPT !.kind = t.kind, !.left = t.left \ {i}]}}
    BY <1>1, RestIsLess
  <2> QED  BY <1>2, <2>1, <2>2, LessToDo
<1> QED  BY <1>4, <1>5, <1>6, <1>7, FrameImages

\* A failure, of a request or of what nobody waits for, or of the process.
LEMMA FailImages == ImagesInv /\ Img!Fail => ImagesInv'
<1> SUFFICES ASSUME ImagesInv, Img!Fail PROVE ImagesInv'
  OBVIOUS
<1>1. UNCHANGED <<documents, cloud, uploaded, removed, cancelling>> /\ failed' \in BOOLEAN
  BY DEF Img!Fail
<1>2. QuotesKept /\ Clouded
  BY <1>1, SameQuotes, SameClouds
<1>3. \A r \in Callers : Img!InHand(r) \ removed = Mine(calls[r])
  <2> SUFFICES ASSUME NEW r \in Callers PROVE Img!InHand(r) \ removed = Mine(calls[r])
    OBVIOUS
  <2>1. Img!InHand(r) = Hand(calls[r]) /\ CallFits(calls[r])
    BY DEF Img!InHand, Hand, ImagesInv, CallsFit
  <2>2. CASE calls[r].at = "destroy"
    BY <2>1, <2>2 DEF Mine, Hand, CallFits
  <2>3. CASE calls[r].at # "destroy"
    <3>1. Mine(calls[r]) = Hand(calls[r])
      BY <2>3 DEF Mine
    <3>2. \A i \in removed : \E q \in QuoteIds : i \in Img!Refs(q)
      BY DEF ImagesInv, ToDelete, InFirst, Img!Refs
    <3> QED  BY <2>1, <3>1, <3>2 DEF ImagesInv, Apart
  <2> QED  BY <2>2, <2>3
<1>4. ASSUME NEW r \in Callers, stray' = stray \cup (Img!InHand(r) \ removed), Img!Finish(r), UNCHANGED tasks
      PROVE  ImagesInv'
  <2>1. /\ Handed /\ Mine(calls'[r]) = {}
        /\ \A q \in Callers \ {r} : calls'[q] = calls[q]
    BY <1>1, <1>2, <1>4, EndCall
  <2>2. AskedFor
    BY <1>1, <1>4, SameAsked
  <2>3. Strayed
    BY <1>3, <1>4, <2>1 DEF Strayed, ImagesInv, Apart
  <2> QED  BY <1>1, <1>2, <2>1, <2>2, <2>3, FrameImages
<1>5. ASSUME NEW t \in tasks, tasks' \in {tasks \ {t}} \cup {Img!Rest(t, i) : i \in t.left},
             UNCHANGED <<stray, calls>>
      PROVE  ImagesInv'
  <2>1. t \in Img!Task /\ t.left \subseteq documents[t.quote].first
    BY DEF ImagesInv, ToDelete, Img!TypeOK
  <2>2. AskedFor
    <3>1. CASE tasks' = tasks \ {t}
      <4>1. {} \in SUBSET documents[t.quote].first /\ "clean" \in {"look", "clean"}
        OBVIOUS
      <4> QED  BY <1>1, <3>1, <4>1, LessToDo
    <3>2. ASSUME NEW i \in t.left, tasks' = Img!Rest(t, i) PROVE AskedFor
      <4>1. t.left \ {i} \in SUBSET documents[t.quote].first /\ t.kind \in {"look", "clean"}
        BY <2>1 DEF Img!Task
      <4>2. tasks' \in {tasks \ {t}, (tasks \ {t}) \cup {[t EXCEPT !.kind = t.kind, !.left = t.left \ {i}]}}
        BY <3>2, RestIsLess
      <4> QED  BY <1>1, <4>1, <4>2, LessToDo
    <3> QED  BY <1>5, <3>1, <3>2
  <2>3. Handed /\ Strayed
    BY <1>1, <1>2, <1>5, SameCalls DEF Strayed
  <2> QED  BY <1>1, <1>2, <2>2, <2>3, FrameImages
<1>6. ASSUME calls' = [r \in Callers |-> Img!Idle], tasks' = {},
             stray' = stray \cup ((UNION {Img!InHand(r) : r \in Callers}) \ removed)
      PROVE  ImagesInv'
  <2>1. \A r \in Callers : calls'[r] = Img!Idle /\ Mine(calls'[r]) = {}
    BY <1>6, IdleFits
  <2>2. CallsFit'
    BY <2>1 DEF CallsFit, CallFits, Img!Idle
  <2>3. calls' \in [Callers -> Img!Call]
    BY <1>6, IdleFits
  <2>4. Handed
    BY <2>1, <2>2, <2>3 DEF Handed
  <2>5. Strayed
    <3>1. \A i \in stray' : i \in stray \/ \E r \in Callers : i \in Mine(calls[r])
      BY <1>3, <1>6
    <3>2. \A r \in Callers : Mine(calls[r]) \subseteq stray'
      BY <1>3, <1>6
    <3> QED  BY <1>6, <2>1, <3>1, <3>2 DEF Strayed
  <2>6. AskedFor
    BY <1>1, <1>6 DEF AskedFor, ImagesInv, ToDelete
  <2> QED  BY <1>1, <1>2, <2>4, <2>5, <2>6, FrameImages
<1> QED  BY <1>4, <1>5, <1>6 DEF Img!Fail

\* The quote takes over what its request has uploaded.
LEMMA SaveImages == \A r \in Callers : ImagesInv /\ Img!Save(r) => ImagesInv'
<1> SUFFICES ASSUME ImagesInv, NEW r \in Callers, Img!Save(r) PROVE ImagesInv'
  OBVIOUS
<1> USE DEF ImagesInv
<1> DEFINE n == Img!NewQuote
           c == calls[r]
           d == [status |-> "Requested", isDeleted |-> FALSE, services |-> c.services,
                 first |-> c.first, second |-> c.second]
<1>1. /\ c.at = "save" /\ documents' = [documents EXCEPT ![n] = d] /\ calls' = [calls EXCEPT ![r] = Img!Idle]
      /\ UNCHANGED <<cloud, tasks, uploaded, stray, removed, cancelling, failed>>
  BY DEF Img!Save, Img!Finish, Img!Do
<1>2. n \in QuoteIds \ Img!Stored
  BY DEF Img!Save, Img!NewQuote, Img!Stored
<1>3. /\ documents \in [QuoteIds -> Img!Quote] /\ calls \in [Callers -> Img!Call] /\ c \in Img!Call
      /\ c.image = None /\ c.first \cap c.second = {} /\ Few(c.first) /\ Few(c.second)
  BY <1>1 DEF Img!TypeOK, CallsFit, CallFits
<1>4. /\ d \in Img!Quote /\ d.status = "Requested" /\ d.first = c.first /\ d.second = c.second
  BY <1>3 DEF Img!Quote, Img!Call
<1> HIDE DEF d, n
<1>5. /\ documents' \in [QuoteIds -> Img!Quote] /\ documents'[n] = d
      /\ \A q \in QuoteIds \ {n} : documents'[q] = documents[q]
  BY <1>1, <1>2, <1>3, <1>4
<1>6. /\ calls' \in [Callers -> Img!Call] /\ Mine(calls'[r]) = {} /\ calls'[r] = Img!Idle
      /\ \A q \in Callers \ {r} : calls'[q] = calls[q]
  BY <1>1, <1>3, IdleFits
<1>7. Mine(c) = c.first \cup c.second
  BY <1>1, <1>3, DeskConstants DEF Mine, Hand, Img!Call
<1>8. \A q \in QuoteIds : Img!Refs(q)' = IF q = n THEN Mine(c) ELSE Img!Refs(q)
  <2>1. \A q \in QuoteIds : Img!Refs(q)' = documents'[q].first \cup documents'[q].second
    BY DEF Img!Refs
  <2> QED  BY <1>2, <1>4, <1>5, <1>7, <2>1 DEF Img!Refs
<1>0. Img!Refs(n) = {}
  BY <1>2 DEF Img!Refs, QuotesFit, QuoteFits
<1>9. Img!Stored' = Img!Stored \cup {n}
  BY <1>2, <1>4, <1>5 DEF Img!Stored
<1>10. Img!TypeOK'
  BY <1>1, <1>5, <1>6 DEF Img!TypeOK
<1>11. CallsFit'
  <2> SUFFICES ASSUME NEW q \in Callers PROVE CallFits(calls[q])'
    BY DEF CallsFit
  <2>1. CASE q = r
    BY <1>6, <2>1 DEF CallFits, Img!Idle
  <2>2. CASE q # r
    BY <1>1, <1>6, <1>9, <2>2 DEF CallsFit, CallFits, Uploading, Few
  <2> QED  BY <2>1, <2>2
<1>12. QuotesFit'
  <2> SUFFICES ASSUME NEW q \in QuoteIds PROVE QuoteFits(q)'
    BY DEF QuotesFit
  <2>1. CASE q = n
    BY <1>3, <1>4, <1>5, <1>9, <2>1 DEF QuoteFits, Few
  <2>2. CASE q # n
    BY <1>5, <1>9, <2>2 DEF QuotesFit, QuoteFits, Few
  <2> QED  BY <2>1, <2>2
<1>13. \A q \in Callers : Mine(calls'[q]) = IF q = r THEN {} ELSE Mine(calls[q])
  BY <1>6
<1>14. Apart'
  <2>1. \A p, q \in QuoteIds : p # q => Img!Refs(p)' \cap Img!Refs(q)' = {}
    BY <1>8 DEF Apart
  <2>2. \A q, s \in Callers : q # s => Mine(calls'[q]) \cap Mine(calls'[s]) = {}
    BY <1>13 DEF Apart
  <2>3. \A s \in Callers, q \in QuoteIds : Mine(calls'[s]) \cap Img!Refs(q)' = {}
    BY <1>8, <1>13 DEF Apart
  <2>4. \A q \in QuoteIds : stray' \cap Img!Refs(q)' = {}
    BY <1>1, <1>8 DEF Apart
  <2>5. \A s \in Callers : stray' \cap Mine(calls'[s]) = {}
    BY <1>1, <1>13 DEF Apart
  <2> QED  BY <2>1, <2>2, <2>3, <2>4, <2>5 DEF Apart, Mine, Hand
<1>15. Known'
  <2>1. \A q \in QuoteIds : Img!Refs(q)' \subseteq uploaded'
    BY <1>1, <1>8 DEF Known
  <2>2. \A s \in Callers : Mine(calls'[s]) \subseteq cloud'
    BY <1>1, <1>13 DEF Known
  <2> QED  BY <1>1, <2>1, <2>2 DEF Known, Mine, Hand
<1>16. ToDelete'
  <2>1. \A t \in tasks : t.quote \in QuoteIds /\ t.quote # n
    BY <1>2 DEF ToDelete, Img!Stored
  <2>2. \A i \in removed : \E q \in QuoteIds \ {n} : i \in documents[q].first
    BY <1>2 DEF ToDelete, InFirst, QuotesFit, QuoteFits
  <2> QED  BY <1>1, <1>5, <1>9, <2>1, <2>2 DEF ToDelete, InFirst
<1>17. Img!ImagesStay'
  <2> SUFFICES ASSUME NEW q \in Img!Stored \cup {n}
               PROVE  /\ q \notin cancelling => documents'[q].first \ removed \subseteq cloud
                      /\ documents'[q].second \subseteq cloud
    BY <1>1, <1>9 DEF Img!ImagesStay
  <2>1. CASE q = n
    BY <1>4, <1>5, <1>7, <2>1 DEF Known
  <2>2. CASE q # n
    BY <1>2, <1>5, <2>2 DEF Img!ImagesStay, Img!Stored
  <2> QED  BY <2>1, <2>2
<1>18. AllOwned'
  <2> SUFFICES ASSUME NEW i \in cloud PROVE Owned(i)'
    BY <1>1 DEF AllOwned
  <2>1. (\E q \in QuoteIds : i \in Img!Refs(q)') \/ (\E s \in Callers : i \in Mine(calls'[s])) \/ i \in stray'
    <3>1. Owned(i)
      BY DEF AllOwned
    <3> QED  BY <1>0, <1>1, <1>2, <1>8, <1>13, <3>1 DEF Owned
  <2> QED  BY <2>1 DEF Owned, Mine, Hand
<1> QED  BY <1>10, <1>11, <1>12, <1>14, <1>15, <1>16, <1>17, <1>18

LEMMA NextImages == ImagesInv /\ Img!Next => ImagesInv'
<1> SUFFICES ASSUME ImagesInv, Img!Next PROVE ImagesInv'
  OBVIOUS
<1>1. CASE Img!Continue
  BY <1>1, SaveImages, PushImages, DestroyImages, CancelledImages, LookImages, CleanImages DEF Img!Continue
<1>2. ASSUME NEW r \in Callers,
             Img!Create(r) \/ Img!Upload(r) \/ Img!AttachUpload(r) \/ Img!Remove(r) \/ Img!Cancel(r)
      PROVE  ImagesInv'
  BY <1>2, CreateImages, UploadImages, AttachImages, RemoveImages, CancelImages
<1>3. ASSUME NEW q \in QuoteIds, Img!Update(q) PROVE ImagesInv'
  BY <1>3, UpdateImages
<1> QED  BY <1>1, <1>2, <1>3, FailImages DEF Img!Next

\* A step of another part.
LEMMA SameImages == ImagesInv /\ UNCHANGED imageVars => ImagesInv'
<1> SUFFICES ASSUME ImagesInv, UNCHANGED imageVars PROVE ImagesInv'
  OBVIOUS
<1>1. UNCHANGED <<documents, cloud, calls, tasks, uploaded, stray, removed, cancelling, failed>>
  BY DEF imageVars
<1>2. QuotesKept /\ Clouded /\ AskedFor /\ failed' \in BOOLEAN
  BY <1>1, SameQuotes, SameClouds, SameAsked DEF ImagesInv, Img!TypeOK
<1>3. Handed /\ Strayed
  BY <1>1, <1>2, SameCalls DEF Strayed
<1> QED  BY <1>2, <1>3, FrameImages

\* What the run checks follows.
LEMMA ImagesDoFit == ImagesInv => ImagesFit
<1> SUFFICES ASSUME ImagesInv PROVE ImagesFit
  OBVIOUS
<1> USE DEF ImagesInv
<1>1. Img!FewAttachments
  BY ImgCardinality DEF Img!FewAttachments, QuotesFit, QuoteFits, Few
<1>2. Img!ImagesAccounted
  <2>1. cloud \subseteq (UNION {Img!Refs(q) : q \in QuoteIds}) \cup (UNION {Img!InHand(r) : r \in Callers}) \cup stray
    <3>1. \A r \in Callers : Mine(calls[r]) \subseteq Img!InHand(r)
      BY DEF Mine, Hand, Img!InHand
    <3> QED  BY <3>1 DEF AllOwned, Owned
  <2>2. \A p, q \in QuoteIds : Img!Refs(p) \cap Img!Refs(q) # {} => p = q
    BY DEF Apart
  <2>3. \A q \in QuoteIds : documents[q].first \cap documents[q].second = {}
    BY DEF QuotesFit, QuoteFits
  <2>4. stray \cap UNION {Img!Refs(q) : q \in QuoteIds} = {}
    BY DEF Apart
  <2> QED  BY <2>1, <2>2, <2>3, <2>4 DEF Img!ImagesAccounted
<1> QED  BY <1>1, <1>2 DEF ImagesFit, Img!ImagesFit

\* Whatever requests upload, push, delete and cancel at the same time and whatever of it
\* fails: a quote that nobody cancels refers to images that exist, no service has too many,
\* and every image is of one quote or one request, or of one that failed.
THEOREM ImagesAlwaysFit == PartSpec => []ImagesFit
<1>1. PartInit => ImagesInv
  BY InitImages DEF PartInit
<1>2. ImagesInv /\ [PartNext]_all => ImagesInv'
  BY NextImages, SameImages DEF PartNext, NumbersStep, ImageStep, GroupStep, all
<1> QED  BY <1>1, <1>2, ImagesDoFit, PTL DEF PartSpec

-----------------------------------------------------------------------------
\* Teams: the inductive invariant. What a request has in hand is still so when it writes:
\* a team that members are put into exists, one that is being deleted has no members, and
\* a colour that was free is free.

\* Requests that make teams come alone, and those that delete them do not overlap with
\* those that put members into teams.
Makers   == {"create", "import"}
Droppers == {"delete", "bulk"}
Putters  == {"associate", "members", "member"}
TeamsAssumption ==
    /\ Together \cap Makers = {}
    /\ Together \cap Droppers = {} \/ Together \cap Putters = {}

FieldNames == {"kind", "team", "name", "color", "todo", "wanted", "found", "used", "picked"}

ImportFits(k) ==
    /\ DOMAIN k.wanted \subseteq Members /\ \A m \in DOMAIN k.wanted : k.wanted[m] \in Names
    /\ DOMAIN k.found = Group!Taken /\ \A n \in Group!Taken : k.found[n] \in Group!Existing
    /\ DOMAIN k.picked \subseteq Group!Missing(k)
    /\ \A n \in DOMAIN k.picked : k.picked[n] \in Colors \ Group!Used
    /\ \A a, b \in DOMAIN k.picked : k.picked[a] = k.picked[b] => a = b
    /\ k.used = Group!Used \cup {k.picked[n] : n \in DOMAIN k.picked}

AskFits(k) ==
    /\ DOMAIN k = FieldNames /\ k.kind \in Group!Kinds \cup {None} /\ k.todo \subseteq Members
    /\ k.kind = None => k = Group!Free
    /\ k.kind = "create" => k.name \in Names /\ k.color \in Colors /\ (k.color \in Group!Used => repeated = TRUE)
    /\ k.kind = "update" => k.team \in TeamIds /\ k.name \in Names /\ k.color \in Colors \cup {None}
    /\ k.kind \in Droppers => k.team \in TeamIds /\ \A m \in Group!Live : members[m].team # k.team
    /\ k.kind \in Putters => k.team \in Group!Existing
    /\ k.kind = "import" => ImportFits(k)

AsksFit == DOMAIN teamCalls = Requests /\ \A r \in Requests : AskFits(teamCalls[r])

\* Requests that overlap may.
Overlap ==
    \A r, q \in Requests :
        r # q /\ teamCalls[r].kind # None /\ teamCalls[q].kind # None =>
            teamCalls[r].kind \in Together /\ teamCalls[q].kind \in Together

Team   == [name : Names, color : Colors]
Member == [state : {"absent", "live", "deleted"}, team : TeamIds \cup {None}]
StoredFit ==
    /\ teams \in [TeamIds -> {Group!NoTeam} \cup Team]
    /\ gone \subseteq TeamIds /\ gone \cap Group!Existing = {}
    /\ members \in [Members -> Member] /\ repeated \in BOOLEAN

TeamsInv == StoredFit /\ AsksFit /\ Overlap /\ Group!TeamsResolve /\ Group!TeamsDiffer

-----------------------------------------------------------------------------
\* Free requests, and what a request that begins may assume.

LEMMA FreeFits ==
    /\ AskFits(Group!Free) /\ AskFits(Group!Free)' /\ Group!Free.kind = None
    /\ DOMAIN Group!Free = FieldNames
BY DeskConstants DEF AskFits, Group!Free, Group!Kinds, FieldNames, Makers, Droppers, Putters

LEMMA Starts ==
    ASSUME TeamsInv, NEW r \in Requests, NEW k \in Group!Kinds, Group!Starting(r, k)
    PROVE  /\ teamCalls[r].kind = None /\ teamCalls[r] = Group!Free
           /\ \A q \in Requests : teamCalls[q].kind # None => k \in Together /\ teamCalls[q].kind \in Together
BY FreeFits DEF TeamsInv, AsksFit, Group!Starting

\* What others have in hand when one moves.
NobodyJoins ==
    \A m \in Group!Live' : m \in Group!Live /\ members'[m].team \in {None, members[m].team}

LEMMA AskLasts ==
    ASSUME TeamsInv, NEW k, AskFits(k), repeated => repeated',
           k.kind \in Makers => UNCHANGED teams,
           k.kind \in Droppers => NobodyJoins,
           k.kind \in Putters => Group!Existing \subseteq Group!Existing'
    PROVE  AskFits(k)'
<1>1. repeated \in BOOLEAN
  BY DEF TeamsInv, StoredFit
<1>2. teams' = teams => /\ Group!Used' = Group!Used /\ Group!Taken' = Group!Taken
                        /\ Group!Existing' = Group!Existing
  BY DEF Group!Used, Group!Existing, Group!Taken
<1>3. k.kind = "create" => k.name \in Names /\ k.color \in Colors /\ (k.color \in Group!Used' => repeated' = TRUE)
  BY <1>1, <1>2 DEF AskFits, Makers
<1>4. k.kind \in Droppers => k.team \in TeamIds /\ \A m \in Group!Live' : members'[m].team # k.team
  BY DeskConstants DEF AskFits, NobodyJoins
<1>5. k.kind = "import" => ImportFits(k)'
  <2>1. Group!Missing(k)' = Group!Missing(k)
    BY DEF Group!Missing
  <2> QED  BY <1>2, <2>1 DEF AskFits, ImportFits, Makers
<1> QED  BY <1>3, <1>4, <1>5 DEF AskFits, Group!Free

LEMMA OthersFit ==
    ASSUME TeamsInv, TeamsAssumption, NEW r \in Requests, NEW q \in Requests \ {r},
           teamCalls'[q] = teamCalls[q], repeated => repeated',
           \/ UNCHANGED teams
           \/ teamCalls[r].kind = "update" /\ Group!Existing \subseteq Group!Existing'
           \/ teamCalls[r].kind \in Makers \cup Droppers,
           NobodyJoins \/ teamCalls[r].kind \in Putters \cup {"import"}
    PROVE  AskFits(teamCalls[q])'
<1>1. PICK k : k = teamCalls[q]
  OBVIOUS
<1>2. AskFits(k)
  BY <1>1 DEF TeamsInv, AsksFit
<1>3. teamCalls[r].kind # None /\ k.kind # None =>
        /\ {teamCalls[r].kind, k.kind} \cap Makers = {}
        /\ ~(k.kind \in Droppers /\ teamCalls[r].kind \in Putters)
        /\ ~(k.kind \in Putters /\ teamCalls[r].kind \in Droppers)
  BY <1>1 DEF TeamsInv, Overlap, TeamsAssumption
<1>4. {None} \cap (Makers \cup Droppers \cup Putters \cup {"update"}) = {}
  BY DeskConstants DEF Group!Kinds, Makers, Droppers, Putters
<1>5. k.kind \in Makers => UNCHANGED teams
  BY <1>3, <1>4 DEF Makers, Droppers
<1>6. k.kind \in Droppers => NobodyJoins
  BY <1>3, <1>4 DEF Makers
<1>7. k.kind \in Putters => Group!Existing \subseteq Group!Existing'
  <2>1. teams' = teams => Group!Existing' = Group!Existing
    BY DEF Group!Existing
  <2> QED  BY <1>3, <1>4, <2>1 DEF Makers
<1>8. AskFits(k)'
  BY <1>2, <1>5, <1>6, <1>7, AskLasts
<1>9. teamCalls'[q] = k
  BY <1>1
<1> QED  BY <1>8, <1>9 DEF AskFits

\* One request has something new in hand.
LEMMA AskPut ==
    ASSUME TeamsInv, TeamsAssumption, NEW r \in Requests, NEW k, Group!Do(r, k), AskFits(k)',
           \/ k.kind \in {None, teamCalls[r].kind}
           \/ Group!Starting(r, k.kind), repeated => repeated',
           \/ UNCHANGED teams
           \/ teamCalls[r].kind = "update" /\ Group!Existing \subseteq Group!Existing'
           \/ teamCalls[r].kind \in Makers \cup Droppers,
           NobodyJoins \/ teamCalls[r].kind \in Putters \cup {"import"}
    PROVE  AsksFit' /\ Overlap'
<1>1. /\ DOMAIN teamCalls' = Requests /\ teamCalls'[r] = k
      /\ \A q \in Requests \ {r} : teamCalls'[q] = teamCalls[q]
  BY DEF TeamsInv, AsksFit, Group!Do
<1>2. AsksFit'
  <2>1. \A q \in Requests \ {r} : AskFits(teamCalls[q])'
    BY <1>1, OthersFit
  <2>2. AskFits(teamCalls[r])'
    BY <1>1 DEF AskFits
  <2> QED  BY <1>1, <2>1, <2>2 DEF AsksFit
<1>3. Overlap'
  <2>1. k.kind \in Group!Kinds \cup {None}
    BY DEF AskFits
  <2>2. CASE k.kind \in {None, teamCalls[r].kind}
    BY <1>1, <2>2 DEF TeamsInv, Overlap
  <2>3. CASE Group!Starting(r, k.kind) /\ k.kind # None
    BY <1>1, <2>1, <2>3, Starts DEF TeamsInv, Overlap
  <2> QED  BY <2>2, <2>3
<1> QED  BY <1>2, <1>3

LEMMA AskEnds ==
    ASSUME TeamsInv, TeamsAssumption, NEW r \in Requests, Group!End(r), repeated => repeated',
           \/ UNCHANGED teams
           \/ teamCalls[r].kind = "update" /\ Group!Existing \subseteq Group!Existing'
           \/ teamCalls[r].kind \in Makers \cup Droppers,
           NobodyJoins \/ teamCalls[r].kind \in Putters \cup {"import"}
    PROVE  AsksFit' /\ Overlap'
<1>1. PICK k : k = Group!Free
  OBVIOUS
<1>2. Group!Do(r, k) /\ k.kind = None
  BY <1>1, FreeFits DEF Group!End
<1>3. AskFits(k)'
  BY <1>1, FreeFits DEF AskFits
<1> QED  BY <1>2, <1>3, AskPut

\* A member leaves its team or is deleted.
LEMMA NoneMoves ==
    ASSUME TeamsInv, UNCHANGED <<teams, teamCalls, repeated>>, NobodyJoins
    PROVE  AsksFit' /\ Overlap'
<1>1. ASSUME NEW q \in Requests PROVE AskFits(teamCalls[q])'
  <2>1. PICK k : k = teamCalls[q]
    OBVIOUS
  <2>2. AskFits(k) /\ teamCalls'[q] = k
    BY <2>1 DEF TeamsInv, AsksFit
  <2>3. Group!Existing' = Group!Existing
    BY DEF Group!Existing
  <2>4. AskFits(k)'
    BY <2>2, <2>3, AskLasts
  <2> QED  BY <2>2, <2>4 DEF AskFits
<1> QED  BY <1>1 DEF TeamsInv, AsksFit, Overlap

LEMMA SameMembers == UNCHANGED members => NobodyJoins
BY DEF NobodyJoins, Group!Live

LEMMA SameTeams ==
    ASSUME TeamsInv, UNCHANGED <<teams, gone, members>>, repeated' \in BOOLEAN, repeated => repeated'
    PROVE  StoredFit' /\ Group!TeamsResolve' /\ Group!TeamsDiffer'
<1>1. Group!Existing' = Group!Existing /\ Group!Live' = Group!Live
  BY DEF Group!Existing, Group!Live
<1> QED  BY <1>1 DEF TeamsInv, StoredFit, Group!TeamsResolve, Group!TeamsDiffer

\* What changes of a team, or of who is in it, by itself.
LEMMA MembersFit ==
    ASSUME TeamsInv, UNCHANGED <<teams, gone, repeated>>, members' \in [Members -> Member],
           \A m \in Group!Live' : members'[m].team \in Group!Existing \cup {None}
    PROVE  StoredFit' /\ Group!TeamsResolve' /\ Group!TeamsDiffer'
<1>1. Group!Existing' = Group!Existing
  BY DEF Group!Existing
<1> QED  BY <1>1 DEF TeamsInv, StoredFit, Group!TeamsResolve, Group!TeamsDiffer

LEMMA TeamExists ==
    ASSUME TeamsInv, NEW t \in TeamIds
    PROVE  /\ t \in Group!Existing <=> teams[t] # Group!NoTeam
           /\ t \in Group!Existing => teams[t] \in Team
           /\ \A n \in Names : \A c : [name |-> n, color |-> c] # Group!NoTeam
BY DeskConstants DEF Group!Existing, TeamsInv, StoredFit, Group!NoTeam

-----------------------------------------------------------------------------
\* The actions.

LEMMA InitTeams == Group!Init => TeamsInv
<1> SUFFICES ASSUME Group!Init PROVE TeamsInv
  OBVIOUS
<1> USE DEF Group!Init
<1>1. Group!Existing = {} /\ Group!Live = {}
  BY DEF Group!Existing, Group!Live
<1>2. AsksFit /\ Overlap
  BY FreeFits DEF AsksFit, Overlap
<1>3. StoredFit
  BY <1>1 DEF StoredFit, Member
<1> QED  BY <1>1, <1>2, <1>3 DEF TeamsInv, Group!TeamsResolve, Group!TeamsDiffer

LEMMA CreateTeams == ASSUME TeamsAssumption, TeamsInv, NEW r \in Requests, Group!Create(r) PROVE TeamsInv'
<1>1. PICK n \in Names \ Group!Taken, c \in Colors :
        /\ Group!Do(r, [Group!Free EXCEPT !.kind = "create", !.name = n, !.color = c])
        /\ repeated' = (repeated \/ c \in Group!Used)
  BY DEF Group!Create
<1>2. Group!Starting(r, "create") /\ UNCHANGED <<teams, gone, members>>
  BY DEF Group!Create
<1>3. PICK k : k = [Group!Free EXCEPT !.kind = "create", !.name = n, !.color = c]
  OBVIOUS
<1>4. DOMAIN k = FieldNames /\ k.kind = "create" /\ k.name = n /\ k.color = c /\ k.todo = {}
  BY <1>3, FreeFits DEF Group!Free, FieldNames
<1>5. repeated' \in BOOLEAN /\ (repeated => repeated') /\ (c \in Group!Used => repeated' = TRUE)
  BY <1>1 DEF TeamsInv, StoredFit
<1>6. AskFits(k)'
  <2>1. Group!Used' = Group!Used
    BY <1>2 DEF Group!Used, Group!Existing
  <2> QED  BY <1>4, <1>5, <2>1, DeskConstants DEF AskFits, Group!Kinds, Droppers, Putters
<1>7. AsksFit' /\ Overlap'
  <2>1. Group!Do(r, k) /\ Group!Starting(r, k.kind)
    BY <1>1, <1>2, <1>3, <1>4
  <2> QED  BY <1>2, <1>5, <1>6, <2>1, SameMembers, AskPut
<1> QED  BY <1>2, <1>5, <1>7, SameTeams DEF TeamsInv

LEMMA CreateSaved == ASSUME TeamsAssumption, TeamsInv, NEW r \in Requests, Group!CreateSave(r) PROVE TeamsInv'
<1> DEFINE k == teamCalls[r]
           i == Group!NewId
<1>1. /\ k.kind = "create" /\ Group!End(r) /\ UNCHANGED <<gone, members, repeated>>
      /\ \/ UNCHANGED teams
         \/ /\ k.name \notin Group!Taken /\ Group!Unborn # {}
            /\ teams' = [teams EXCEPT ![i] = [name |-> k.name, color |-> k.color]]
  BY DEF Group!CreateSave, Group!Doing
<1>2. k.name \in Names /\ k.color \in Colors /\ (k.color \in Group!Used => repeated = TRUE)
  BY <1>1 DEF TeamsInv, AsksFit, AskFits
<1>3. AsksFit' /\ Overlap'
  BY <1>1, SameMembers, AskEnds DEF Makers
<1>4. CASE UNCHANGED teams
  BY <1>1, <1>3, <1>4, SameTeams DEF TeamsInv, StoredFit
<1>5. CASE /\ k.name \notin Group!Taken /\ Group!Unborn # {}
           /\ teams' = [teams EXCEPT ![i] = [name |-> k.name, color |-> k.color]]
  <2>1. i \in TeamIds /\ i \notin Group!Existing /\ i \notin gone
    BY <1>5 DEF Group!NewId, Group!Unborn
  <2> HIDE DEF k, i
  <2>2. /\ teams' \in [TeamIds -> {Group!NoTeam} \cup Team]
        /\ teams'[i] = [name |-> k.name, color |-> k.color]
        /\ \A t \in TeamIds \ {i} : teams'[t] = teams[t]
    BY <1>2, <1>5, <2>1 DEF TeamsInv, StoredFit, Team
  <2>3. Group!Existing' = Group!Existing \cup {i}
    BY <1>2, <2>1, <2>2, TeamExists DEF Group!Existing, Group!NoTeam
  <2>4. StoredFit'
    BY <1>1, <2>1, <2>2, <2>3 DEF TeamsInv, StoredFit
  <2>5. Group!TeamsResolve'
    BY <1>1, <2>3 DEF TeamsInv, Group!TeamsResolve, Group!Live
  <2>6. Group!TeamsDiffer'
    <3>1. \A t \in Group!Existing : t \in TeamIds /\ t # i /\ teams'[t] = teams[t]
      BY <2>1, <2>2 DEF Group!Existing
    <3>2. \A t \in Group!Existing : teams[t].name # k.name /\ (~repeated => teams[t].color # k.color)
      BY <1>2, <1>5 DEF Group!Taken, Group!Used, TeamsInv, StoredFit
    <3> QED  BY <1>1, <2>2, <2>3, <3>1, <3>2 DEF TeamsInv, Group!TeamsDiffer
  <2> QED  BY <1>3, <2>4, <2>5, <2>6 DEF TeamsInv
<1> QED  BY <1>1, <1>4, <1>5

LEMMA UpdateTeams == ASSUME TeamsAssumption, TeamsInv, NEW r \in Requests, Group!Update(r) PROVE TeamsInv'
<1>1. PICK t \in Group!Existing, n \in Names, c \in {None} \cup Colors :
        Group!Do(r, [Group!Free EXCEPT !.kind = "update", !.team = t, !.name = n, !.color = c])
  BY DEF Group!Update
<1>2. Group!Starting(r, "update") /\ UNCHANGED <<teams, gone, members, repeated>>
  BY DEF Group!Update
<1>3. PICK k : k = [Group!Free EXCEPT !.kind = "update", !.team = t, !.name = n, !.color = c]
  OBVIOUS
<1>4. DOMAIN k = FieldNames /\ k.kind = "update" /\ k.team = t /\ k.name = n /\ k.color = c /\ k.todo = {}
  BY <1>3, FreeFits DEF Group!Free, FieldNames
<1>5. t \in TeamIds
  BY DEF Group!Existing
<1>6. AskFits(k)'
  BY <1>4, <1>5, DeskConstants DEF AskFits, Group!Kinds, Droppers, Putters
<1>7. AsksFit' /\ Overlap'
  <2>1. Group!Do(r, k) /\ Group!Starting(r, k.kind)
    BY <1>1, <1>2, <1>3, <1>4
  <2> QED  BY <1>2, <1>6, <2>1, SameMembers, AskPut
<1> QED  BY <1>2, <1>7, SameTeams DEF TeamsInv, StoredFit

LEMMA UpdateWritten == ASSUME TeamsAssumption, TeamsInv, NEW r \in Requests, Group!UpdateWrite(r) PROVE TeamsInv'
<1> DEFINE k == teamCalls[r]
           t == k.team
           new == [name |-> k.name, color |-> IF k.color = None THEN teams[t].color ELSE k.color]
<1>1. /\ k.kind = "update" /\ Group!End(r) /\ UNCHANGED <<gone, members>>
      /\ \/ UNCHANGED <<teams, repeated>>
         \/ /\ t \in Group!Existing /\ Group!Named(k.name) \subseteq {t} /\ teams' = [teams EXCEPT ![t] = new]
            /\ repeated' = (repeated \/ k.color # None)
  BY DEF Group!UpdateWrite, Group!Doing, Group!Refuses
<1>2. k.name \in Names /\ k.color \in Colors \cup {None} /\ t \in TeamIds
  BY <1>1 DEF TeamsInv, AsksFit, AskFits
<1>3. CASE UNCHANGED <<teams, repeated>>
  <2>1. AsksFit' /\ Overlap'
    BY <1>1, <1>3, SameMembers, AskEnds
  <2> QED  BY <1>1, <1>3, <2>1, SameTeams DEF TeamsInv, StoredFit
<1>4. CASE /\ t \in Group!Existing /\ Group!Named(k.name) \subseteq {t} /\ teams' = [teams EXCEPT ![t] = new]
           /\ repeated' = (repeated \/ k.color # None)
  <2>1. new \in Team /\ new # Group!NoTeam /\ new.name = k.name
        /\ new.color = IF k.color = None THEN teams[t].color ELSE k.color
    BY <1>2, <1>4, TeamExists, DeskConstants DEF Team, Group!NoTeam
  <2> HIDE DEF k, t, new
  <2>2. /\ teams' \in [TeamIds -> {Group!NoTeam} \cup Team] /\ teams'[t] = new
        /\ \A u \in TeamIds \ {t} : teams'[u] = teams[u]
    BY <1>2, <1>4, <2>1 DEF TeamsInv, StoredFit
  <2>3. Group!Existing' = Group!Existing
    BY <1>2, <1>4, <2>1, <2>2 DEF Group!Existing
  <2>4. repeated' \in BOOLEAN /\ (repeated => repeated') /\ (~repeated' => k.color = None /\ ~repeated)
    BY <1>4 DEF TeamsInv, StoredFit
  <2>5. AsksFit' /\ Overlap'
    BY <1>1, <2>3, <2>4, SameMembers, AskEnds DEF k
  <2>6. StoredFit' /\ Group!TeamsResolve'
    BY <1>1, <2>2, <2>3, <2>4 DEF TeamsInv, StoredFit, Group!TeamsResolve, Group!Live
  <2>7. Group!TeamsDiffer'
    <3>1. \A u \in Group!Existing \ {t} : teams'[u] = teams[u] /\ teams[u].name # k.name
      BY <1>4, <2>2 DEF Group!Existing, Group!Named
    <3> QED  BY <1>4, <2>1, <2>2, <2>3, <2>4, <3>1 DEF TeamsInv, Group!TeamsDiffer
  <2> QED  BY <2>5, <2>6, <2>7 DEF TeamsInv
<1> QED  BY <1>1, <1>3, <1>4

\* A team that has no members any more, or never had, and is deleted.
LEMMA BeginDrop ==
    ASSUME TeamsAssumption, TeamsInv, NEW r \in Requests, NEW d \in Droppers, NEW t \in TeamIds,
           Group!Starting(r, d), Group!Do(r, [Group!Free EXCEPT !.kind = d, !.team = t]),
           UNCHANGED <<teams, repeated>>, NobodyJoins,
           \A m \in Group!Live' : members'[m].team # t
    PROVE  AsksFit' /\ Overlap'
<1>1. PICK k : k = [Group!Free EXCEPT !.kind = d, !.team = t]
  OBVIOUS
<1>2. DOMAIN k = FieldNames /\ k.kind = d /\ k.team = t /\ k.todo = {}
  BY <1>1, FreeFits DEF Group!Free, FieldNames
<1>3. AskFits(k)'
  BY <1>2, DeskConstants DEF AskFits, Group!Kinds, Droppers, Putters
<1> QED  BY <1>1, <1>2, <1>3, AskPut

LEMMA DeleteTeams == ASSUME TeamsAssumption, TeamsInv, NEW r \in Requests, Group!Delete(r) PROVE TeamsInv'
<1>1. PICK t \in Group!Existing : Group!Empty(t) /\ Group!Do(r, [Group!Free EXCEPT !.kind = "delete", !.team = t])
  BY DEF Group!Delete
<1>2. Group!Starting(r, "delete") /\ UNCHANGED <<teams, gone, members, repeated>>
  BY DEF Group!Delete
<1>3. t \in TeamIds /\ \A m \in Group!Live' : members'[m].team # t
  BY <1>1, <1>2 DEF Group!Existing, Group!Empty, Group!Live
<1>4. AsksFit' /\ Overlap'
  BY <1>1, <1>2, <1>3, SameMembers, BeginDrop DEF Droppers
<1> QED  BY <1>2, <1>4, SameTeams DEF TeamsInv, StoredFit

LEMMA BulkTeams == ASSUME TeamsAssumption, TeamsInv, NEW r \in Requests, Group!BulkDelete(r) PROVE TeamsInv'
<1>1. PICK t \in Group!Existing :
        /\ Group!Do(r, [Group!Free EXCEPT !.kind = "bulk", !.team = t])
        /\ members' = [m \in Members |->
              IF members[m].team = t THEN [members[m] EXCEPT !.team = None] ELSE members[m]]
  BY DEF Group!BulkDelete
<1>2. Group!Starting(r, "bulk") /\ UNCHANGED <<teams, gone, repeated>>
  BY DEF Group!BulkDelete
<1>3. t \in TeamIds /\ t # None
  BY DeskConstants DEF Group!Existing
<1>4. /\ members' \in [Members -> Member]
      /\ \A m \in Members : /\ members'[m].state = members[m].state
                            /\ members'[m].team = IF members[m].team = t THEN None ELSE members[m].team
  BY <1>1 DEF TeamsInv, StoredFit, Member
<1>5. NobodyJoins /\ \A m \in Group!Live' : m \in Group!Live /\ members'[m].team # t
  BY <1>3, <1>4 DEF NobodyJoins, Group!Live
<1>6. AsksFit' /\ Overlap'
  BY <1>1, <1>2, <1>3, <1>5, BeginDrop DEF Droppers
<1>7. \A m \in Group!Live' : members'[m].team \in Group!Existing \cup {None}
  BY <1>4, <1>5 DEF TeamsInv, Group!TeamsResolve, Group!Live
<1> QED  BY <1>2, <1>4, <1>6, <1>7, MembersFit DEF TeamsInv

LEMMA TeamDropped ==
    ASSUME TeamsAssumption, TeamsInv, NEW r \in Requests, Group!DeleteWrite(r) \/ Group!BulkWrite(r)
    PROVE  TeamsInv'
<1> DEFINE t == teamCalls[r].team
<1>1. /\ teamCalls[r].kind \in Droppers /\ Group!End(r) /\ UNCHANGED <<members, repeated>>
      /\ teams' = [teams EXCEPT ![t] = Group!NoTeam] /\ gone' = gone \cup {t}
  BY DEF Group!DeleteWrite, Group!BulkWrite, Group!Doing, Droppers
<1>2. t \in TeamIds /\ \A m \in Group!Live : members[m].team # t
  BY <1>1 DEF TeamsInv, AsksFit, AskFits
<1>3. AsksFit' /\ Overlap'
  BY <1>1, SameMembers, AskEnds
<1> HIDE DEF t
<1>4. /\ teams' \in [TeamIds -> {Group!NoTeam} \cup Team] /\ teams'[t] = Group!NoTeam
      /\ \A u \in TeamIds \ {t} : teams'[u] = teams[u]
  BY <1>1, <1>2 DEF TeamsInv, StoredFit
<1>5. Group!Existing' = Group!Existing \ {t}
  BY <1>2, <1>4 DEF Group!Existing
<1>6. StoredFit'
  BY <1>1, <1>2, <1>4, <1>5 DEF TeamsInv, StoredFit
<1>7. Group!TeamsResolve'
  BY <1>1, <1>2, <1>5 DEF TeamsInv, Group!TeamsResolve, Group!Live
<1>8. Group!TeamsDiffer'
  <2>1. \A u \in Group!Existing' : u \in Group!Existing /\ teams'[u] = teams[u]
    BY <1>4, <1>5 DEF Group!Existing
  <2> QED  BY <1>1, <2>1 DEF TeamsInv, Group!TeamsDiffer
<1> QED  BY <1>3, <1>6, <1>7, <1>8 DEF TeamsInv

\* Members of teams.
LEMMA BeginPut ==
    ASSUME TeamsAssumption, TeamsInv, NEW r \in Requests, NEW d \in Putters, NEW t \in Group!Existing,
           NEW M \in SUBSET Members, Group!Starting(r, d),
           Group!Do(r, [Group!Free EXCEPT !.kind = d, !.team = t, !.todo = M]),
           UNCHANGED <<teams, gone, members, repeated>>
    PROVE  TeamsInv'
<1>1. PICK k : k = [Group!Free EXCEPT !.kind = d, !.team = t, !.todo = M]
  OBVIOUS
<1>2. DOMAIN k = FieldNames /\ k.kind = d /\ k.team = t /\ k.todo = M
  BY <1>1, FreeFits DEF Group!Free, FieldNames
<1>3. Group!Existing' = Group!Existing
  BY DEF Group!Existing
<1>4. AskFits(k)'
  BY <1>2, <1>3, DeskConstants DEF AskFits, Group!Kinds, Droppers, Putters
<1>5. AsksFit' /\ Overlap'
  BY <1>1, <1>2, <1>4, SameMembers, AskPut
<1> QED  BY <1>5, SameTeams DEF TeamsInv, StoredFit

LEMMA PutsBegin ==
    ASSUME TeamsAssumption, TeamsInv, NEW r \in Requests,
           Group!Associate(r) \/ Group!ChangeMembers(r) \/ Group!EditMember(r)
    PROVE  TeamsInv'
<1>1. CASE Group!Associate(r)
  <2>1. PICK t \in Group!Existing, m \in Members :
          Group!Do(r, [Group!Free EXCEPT !.kind = "associate", !.team = t, !.todo = {m}])
    BY <1>1 DEF Group!Associate
  <2>2. {m} \in SUBSET Members
    OBVIOUS
  <2> QED  BY <1>1, <2>1, <2>2, BeginPut DEF Group!Associate, Putters
<1>2. CASE Group!ChangeMembers(r)
  <2>1. PICK t \in Group!Existing, M \in SUBSET Group!Live :
          Group!Do(r, [Group!Free EXCEPT !.kind = "members", !.team = t, !.todo = M])
    BY <1>2 DEF Group!ChangeMembers
  <2>2. M \in SUBSET Members
    BY DEF Group!Live
  <2> QED  BY <1>2, <2>1, <2>2, BeginPut DEF Group!ChangeMembers, Putters
<1>3. CASE Group!EditMember(r)
  <2>1. PICK m \in Members, t \in Group!Existing :
          Group!Do(r, [Group!Free EXCEPT !.kind = "member", !.team = t, !.todo = {m}])
    BY <1>3 DEF Group!EditMember
  <2>2. {m} \in SUBSET Members
    OBVIOUS
  <2> QED  BY <1>3, <2>1, <2>2, BeginPut DEF Group!EditMember, Putters
<1> QED  BY <1>1, <1>2, <1>3

LEMMA MemberPut ==
    ASSUME TeamsInv, NEW r \in Requests, teamCalls[r].kind \in Putters, NEW m \in teamCalls[r].todo,
           UNCHANGED <<teams, gone, repeated>>, DOMAIN members' = Members,
           members'[m] \in Member, members'[m].team = teamCalls[r].team,
           \A x \in Members \ {m} : members'[x] = members[x], members' = [x \in Members |-> members'[x]]
    PROVE  StoredFit' /\ Group!TeamsResolve' /\ Group!TeamsDiffer'
<1>1. m \in Members /\ teamCalls[r].team \in Group!Existing
  BY DEF TeamsInv, AsksFit, AskFits
<1>2. members' \in [Members -> Member]
  BY DEF TeamsInv, StoredFit
<1>3. \A x \in Group!Live' : members'[x].team \in Group!Existing \cup {None}
  BY <1>1 DEF TeamsInv, Group!TeamsResolve, Group!Live
<1> QED  BY <1>2, <1>3, MembersFit

LEMMA PutWritten == ASSUME TeamsAssumption, TeamsInv, NEW r \in Requests, Group!PutOne(r) PROVE TeamsInv'
<1> DEFINE k == teamCalls[r]
<1>1. PICK m \in k.todo :
        /\ members' = [members EXCEPT ![m].team = k.team]
        /\ Group!End(r) \/ Group!Do(r, [k EXCEPT !.todo = @ \ {m}])
  BY DEF Group!PutOne, Group!Put
<1>2. k.kind \in Putters /\ UNCHANGED <<teams, gone, repeated>>
  BY DEF Group!PutOne, Putters
<1>3. AskFits(k) /\ m \in Members /\ k.team \in TeamIds
  BY <1>2 DEF TeamsInv, AsksFit, AskFits, Group!Existing
<1>4. StoredFit' /\ Group!TeamsResolve' /\ Group!TeamsDiffer'
  <2>1. members'[m] \in Member /\ members'[m].team = k.team
    BY <1>1, <1>3 DEF TeamsInv, StoredFit, Member
  <2>2. DOMAIN members' = Members /\ members' = [x \in Members |-> members'[x]]
        /\ \A x \in Members \ {m} : members'[x] = members[x]
    BY <1>1 DEF TeamsInv, StoredFit
  <2> QED  BY <1>2, <2>1, <2>2, MemberPut
<1>5. CASE Group!End(r)
  <2>1. AsksFit' /\ Overlap'
    BY <1>2, <1>5, AskEnds
  <2> QED  BY <1>4, <2>1 DEF TeamsInv
<1>6. CASE Group!Do(r, [k EXCEPT !.todo = @ \ {m}])
  <2>1. PICK c : c = [k EXCEPT !.todo = @ \ {m}]
    OBVIOUS
  <2>2. /\ DOMAIN c = FieldNames /\ c.kind = k.kind /\ c.team = k.team /\ c.todo = k.todo \ {m}
    BY <1>3, <2>1 DEF AskFits, FieldNames
  <2>3. Group!Existing' = Group!Existing
    BY <1>2 DEF Group!Existing
  <2>4. AskFits(c)'
    BY <1>2, <1>3, <2>2, <2>3, DeskConstants DEF AskFits, Group!Kinds, Droppers, Putters
  <2>5. AsksFit' /\ Overlap'
    BY <1>2, <1>6, <2>1, <2>2, <2>4, AskPut
  <2> QED  BY <1>4, <2>5 DEF TeamsInv
<1> QED  BY <1>1, <1>5, <1>6

LEMMA EditWritten == ASSUME TeamsAssumption, TeamsInv, NEW r \in Requests, Group!EditWrite(r) PROVE TeamsInv'
<1> DEFINE k == teamCalls[r]
<1>1. PICK m \in k.todo :
        members' = [members EXCEPT ![m] = [state |-> IF @.state = "absent" THEN "live" ELSE @.state,
                                           team  |-> k.team]]
  BY DEF Group!EditWrite
<1>2. k.kind \in Putters /\ Group!End(r) /\ UNCHANGED <<teams, gone, repeated>>
  BY DEF Group!EditWrite, Group!Doing, Putters
<1>3. AskFits(k) /\ m \in Members /\ k.team \in TeamIds
  BY <1>2 DEF TeamsInv, AsksFit, AskFits, Group!Existing
<1>4. StoredFit' /\ Group!TeamsResolve' /\ Group!TeamsDiffer'
  <2>1. members'[m] \in Member /\ members'[m].team = k.team
    BY <1>1, <1>3 DEF TeamsInv, StoredFit, Member
  <2>2. DOMAIN members' = Members /\ members' = [x \in Members |-> members'[x]]
        /\ \A x \in Members \ {m} : members'[x] = members[x]
    BY <1>1 DEF TeamsInv, StoredFit
  <2> QED  BY <1>2, <2>1, <2>2, MemberPut
<1>5. AsksFit' /\ Overlap'
  BY <1>2, AskEnds
<1> QED  BY <1>4, <1>5 DEF TeamsInv

LEMMA MemberLeaves ==
    ASSUME TeamsInv, NEW m \in Members, Group!Unassign(m) \/ Group!DeleteMember(m)
    PROVE  TeamsInv'
<1>1. /\ UNCHANGED <<teams, gone, teamCalls, repeated>>
      /\ \/ members' = [members EXCEPT ![m].team = None]
         \/ members' = [members EXCEPT ![m].state = "deleted"]
  BY DEF Group!Unassign, Group!Put, Group!DeleteMember
<1>2. /\ members' \in [Members -> Member] /\ \A x \in Members \ {m} : members'[x] = members[x]
      /\ \/ members'[m].team = None /\ members'[m].state = members[m].state
         \/ members'[m].state = "deleted"
  BY <1>1 DEF TeamsInv, StoredFit, Member
<1>3. NobodyJoins
  BY <1>2 DEF NobodyJoins, Group!Live
<1>4. \A x \in Group!Live' : members'[x].team \in Group!Existing \cup {None}
  BY <1>2 DEF TeamsInv, Group!TeamsResolve, Group!Live
<1> QED  BY <1>1, <1>2, <1>3, <1>4, NoneMoves, MembersFit DEF TeamsInv


-----------------------------------------------------------------------------
\* The import.

LEMMA ImportTeams == ASSUME TeamsAssumption, TeamsInv, NEW r \in Requests, Group!Import(r) PROVE TeamsInv'
<1> DEFINE found == [n \in Group!Taken |-> CHOOSE t \in Group!Named(n) : TRUE]
<1>1. PICK M \in SUBSET Members : \E wanted \in [M -> Names] :
        Group!Do(r, [Group!Free EXCEPT !.kind = "import", !.wanted = wanted, !.used = Group!Used, !.found = found])
  BY DEF Group!Import
<1>2. PICK wanted \in [M -> Names] :
        Group!Do(r, [Group!Free EXCEPT !.kind = "import", !.wanted = wanted, !.used = Group!Used, !.found = found])
  BY <1>1
<1>3. Group!Starting(r, "import") /\ UNCHANGED <<teams, gone, members, repeated>>
  BY DEF Group!Import
<1>4. DOMAIN found = Group!Taken /\ \A n \in Group!Taken : found[n] \in Group!Existing
  <2>1. \A n \in Group!Taken : Group!Named(n) # {} /\ Group!Named(n) \subseteq Group!Existing
    BY DEF Group!Taken, Group!Named
  <2> QED  BY <2>1
<1> HIDE DEF found
<1>5. PICK k : k = [Group!Free EXCEPT !.kind = "import", !.wanted = wanted, !.used = Group!Used, !.found = found]
  OBVIOUS
<1>6. /\ DOMAIN k = FieldNames /\ k.kind = "import" /\ k.wanted = wanted /\ k.used = Group!Used /\ k.found = found
      /\ k.picked = <<>> /\ k.todo = {}
  BY <1>5, FreeFits DEF Group!Free, FieldNames
<1>7. Group!Used' = Group!Used /\ Group!Taken' = Group!Taken /\ Group!Existing' = Group!Existing
  BY <1>3 DEF Group!Used, Group!Taken, Group!Existing
<1>8. ImportFits(k)
  <2>1. DOMAIN k.picked = {}
    BY <1>6
  <2> QED  BY <1>4, <1>6, <2>1 DEF ImportFits
<1>9. Group!Missing(k)' = Group!Missing(k)
  BY DEF Group!Missing
<1>10. AskFits(k)'
  BY <1>6, <1>7, <1>8, <1>9, DeskConstants DEF AskFits, ImportFits, Group!Kinds, Droppers, Putters
<1>11. AsksFit' /\ Overlap'
  BY <1>2, <1>3, <1>5, <1>6, <1>10, SameMembers, AskPut
<1> QED  BY <1>3, <1>11, SameTeams DEF TeamsInv, StoredFit

\* A colour that the loop accepts is new.
LEMMA FreshColor ==
    ASSUME TeamsInv, NEW k, ImportFits(k), NEW c \in Colors, c \notin k.used
    PROVE  c \notin Group!Used /\ \A n \in DOMAIN k.picked : k.picked[n] # c
BY DEF ImportFits

LEMMA PaintTeams == ASSUME TeamsAssumption, TeamsInv, NEW r \in Requests, Group!Paint(r) PROVE TeamsInv'
<1> DEFINE k == teamCalls[r]
           n == CHOOSE x \in Group!Missing(k) \ DOMAIN k.picked : TRUE
           put(c) == [x \in DOMAIN k.picked \cup {n} |-> IF x = n THEN c ELSE k.picked[x]]
<1>1. PICK c \in Colors :
        /\ c \notin k.used
        /\ Group!Do(r, [k EXCEPT !.used = @ \cup {c}, !.picked = [x \in DOMAIN @ \cup {n} |-> IF x = n THEN c ELSE @[x]]])
  BY DEF Group!Paint, Group!Accepts
<1>2. /\ k.kind = "import" /\ Group!Missing(k) # DOMAIN k.picked
      /\ UNCHANGED <<teams, gone, members, repeated>>
  BY DEF Group!Paint, Group!Doing
<1>3. AskFits(k) /\ ImportFits(k) /\ DOMAIN k = FieldNames
  BY <1>2 DEF TeamsInv, AsksFit, AskFits
<1>4. n \in Group!Missing(k) \ DOMAIN k.picked
  BY <1>2, <1>3 DEF ImportFits
<1>5. PICK d : d = [k EXCEPT !.used = @ \cup {c}, !.picked = [x \in DOMAIN @ \cup {n} |-> IF x = n THEN c ELSE @[x]]]
  OBVIOUS
<1>6. /\ DOMAIN d = FieldNames /\ d.kind = k.kind /\ d.todo = k.todo /\ d.wanted = k.wanted /\ d.found = k.found
      /\ d.used = k.used \cup {c} /\ d.picked = put(c)
  BY <1>3, <1>5 DEF FieldNames
<1>7. /\ DOMAIN d.picked = DOMAIN k.picked \cup {n} /\ d.picked[n] = c
      /\ \A x \in DOMAIN k.picked : d.picked[x] = k.picked[x]
  BY <1>4, <1>6
<1>8. Group!Used' = Group!Used /\ Group!Taken' = Group!Taken /\ Group!Existing' = Group!Existing
  BY <1>2 DEF Group!Used, Group!Taken, Group!Existing
<1>9. Group!Missing(d) = Group!Missing(k) /\ Group!Missing(d)' = Group!Missing(d)
  BY <1>6 DEF Group!Missing
<1>10. PICK N : N = n
  OBVIOUS
<1> HIDE DEF k, n
<1>11. ImportFits(d)
  <2>1. c \notin Group!Used /\ \A x \in DOMAIN k.picked : k.picked[x] # c
    BY <1>1, <1>3, FreshColor
  <2>2. \A a, b \in DOMAIN d.picked : d.picked[a] = d.picked[b] => a = b
    BY <1>3, <1>7, <2>1 DEF ImportFits
  <2>3. d.used = Group!Used \cup {d.picked[x] : x \in DOMAIN d.picked}
    <3>1. {d.picked[x] : x \in DOMAIN d.picked} = {k.picked[x] : x \in DOMAIN k.picked} \cup {c}
      BY <1>7
    <3> QED  BY <1>3, <1>6, <3>1 DEF ImportFits
  <2>4. \A x \in DOMAIN d.picked : d.picked[x] \in Colors \ Group!Used
    BY <1>3, <1>7, <2>1 DEF ImportFits
  <2> QED  BY <1>3, <1>4, <1>6, <1>7, <1>9, <2>2, <2>3, <2>4 DEF ImportFits
<1>12. ImportFits(d)'
  BY <1>8, <1>9, <1>11 DEF ImportFits
<1>13. AskFits(d)'
  BY <1>2, <1>3, <1>6, <1>12, DeskConstants DEF AskFits, Group!Kinds, Droppers, Putters
<1>14. AsksFit' /\ Overlap'
  BY <1>1, <1>2, <1>5, <1>6, <1>13, SameMembers, AskPut DEF k
<1> QED  BY <1>2, <1>14, SameTeams DEF TeamsInv, StoredFit


LEMMA ImportSaved == ASSUME TeamsAssumption, TeamsInv, NEW r \in Requests, Group!Commit(r) PROVE TeamsInv'
<1> DEFINE k == teamCalls[r]
           M == Group!Missing(k)
<1>1. k.kind = "import" /\ M = DOMAIN k.picked /\ Group!End(r) /\ UNCHANGED <<gone, repeated>>
  BY DEF Group!Commit, Group!Doing
<1>2. ImportFits(k)
  BY <1>1 DEF TeamsInv, AsksFit, AskFits
<1>3. AsksFit' /\ Overlap'
  BY <1>1, AskEnds DEF Makers
<1>4. CASE UNCHANGED <<teams, members>>
  BY <1>1, <1>3, <1>4, SameTeams DEF TeamsInv, StoredFit
<1>5. CASE ~ UNCHANGED <<teams, members>>
  <2>1. PICK ids \in [M -> Group!Unborn] :
          /\ \A a, b \in M : a # b => ids[a] # ids[b]
          /\ teams' = [t \in TeamIds |->
                IF \E n \in M : ids[n] = t
                THEN LET n == CHOOSE x \in M : ids[x] = t IN [name |-> n, color |-> k.picked[n]]
                ELSE teams[t]]
          /\ members' = [m \in Members |->
                IF m \in DOMAIN k.wanted
                THEN [state |-> "live", team |-> IF k.wanted[m] \in M THEN ids[k.wanted[m]] ELSE k.found[k.wanted[m]]]
                ELSE members[m]]
    BY <1>5 DEF Group!Commit
  <2>2. M \cap Group!Taken = {} /\ M \subseteq Names /\ \A n \in M : k.picked[n] \in Colors \ Group!Used
    BY <1>1, <1>2 DEF ImportFits, Group!Missing
  <2>3. \A a, b \in M : k.picked[a] = k.picked[b] => a = b
    BY <1>1, <1>2 DEF ImportFits
  <2>4. \A m \in DOMAIN k.wanted : k.wanted[m] \in M \/ k.found[k.wanted[m]] \in Group!Existing
    BY <1>2 DEF ImportFits, Group!Missing
  <2> DEFINE Born == {ids[n] : n \in M}
  <2>5. ASSUME NEW n \in M
        PROVE  /\ ids[n] \in TeamIds /\ ids[n] \notin Group!Existing /\ ids[n] \notin gone
               /\ teams'[ids[n]] = [name |-> n, color |-> k.picked[n]]
    <3> HIDE DEF k, M
    <3>1. ids[n] \in TeamIds /\ ids[n] \notin Group!Existing /\ ids[n] \notin gone
      BY <2>1 DEF Group!Unborn
    <3>2. (CHOOSE x \in M : ids[x] = ids[n]) = n
      BY <2>1
    <3> QED  BY <2>1, <3>1, <3>2
  <2> HIDE DEF k, M
  <2>6. \A t \in TeamIds : t \notin Born => teams'[t] = teams[t]
    BY <2>1
  <2>7. Born \subseteq TeamIds /\ Born \cap Group!Existing = {} /\ Born \cap gone = {}
    BY <2>5
  <2>8. ASSUME NEW t \in Born
        PROVE  /\ teams'[t] \in Team /\ teams'[t] # Group!NoTeam
               /\ teams'[t].name \in M /\ ids[teams'[t].name] = t /\ teams'[t].color = k.picked[teams'[t].name]
    <3>1. PICK n \in M : t = ids[n]
      OBVIOUS
    <3>2. teams'[t] = [name |-> n, color |-> k.picked[n]] /\ t \in TeamIds
      BY <2>5, <3>1
    <3>3. n \in Names /\ k.picked[n] \in Colors
      BY <2>2
    <3> QED  BY <3>1, <3>2, <3>3, TeamExists DEF Team
  <2>9. Group!Existing' = Group!Existing \cup Born
    BY <2>6, <2>7, <2>8 DEF Group!Existing
  <2>10. teams' \in [TeamIds -> {Group!NoTeam} \cup Team]
    <3>1. \A t \in TeamIds : teams'[t] \in {Group!NoTeam} \cup Team
      BY <2>6, <2>8 DEF TeamsInv, StoredFit
    <3>2. teams' = [t \in TeamIds |-> teams'[t]]
      BY <2>1
    <3> QED  BY <3>1, <3>2
  <2>11. /\ \A m \in Members \ DOMAIN k.wanted : members'[m] = members[m]
         /\ \A m \in DOMAIN k.wanted \cap Members :
              members'[m].state = "live" /\ members'[m].team \in Group!Existing \cup Born
    <3>1. \A m \in DOMAIN k.wanted \cap Members : members'[m].team \in Group!Existing \cup Born
      BY <2>1, <2>4
    <3> QED  BY <2>1, <3>1
  <2>12. members' \in [Members -> Member]
    <3>1. \A m \in Members : members'[m] \in Member
      <4>1. ASSUME NEW m \in DOMAIN k.wanted \cap Members PROVE members'[m] \in Member
        <5>1. members'[m].team \in TeamIds
          BY <2>7, <2>11 DEF Group!Existing
        <5>2. members'[m] = [state |-> "live", team |-> members'[m].team]
          BY <2>1
        <5> QED  BY <5>1, <5>2 DEF Member
      <4> QED  BY <2>11, <4>1 DEF TeamsInv, StoredFit
    <3> QED  BY <2>1, <3>1
  <2>13. StoredFit'
    BY <1>1, <2>7, <2>9, <2>10, <2>12 DEF TeamsInv, StoredFit
  <2>14. Group!TeamsResolve'
    BY <2>9, <2>11 DEF TeamsInv, Group!TeamsResolve, Group!Live
  <2>15. Group!TeamsDiffer'
    <3>1. \A t \in Group!Existing : t \in TeamIds /\ teams'[t] = teams[t]
      BY <2>6, <2>7 DEF Group!Existing
    <3>2. ASSUME NEW t \in Group!Existing, NEW u \in Born
          PROVE  teams[t].name # teams'[u].name /\ teams[t].color # teams'[u].color
      BY <2>2, <2>8 DEF Group!Taken, Group!Used
    <3>3. ASSUME NEW t \in Born, NEW u \in Born, t # u
          PROVE  teams'[t].name # teams'[u].name /\ teams'[t].color # teams'[u].color
      <4>1. teams'[t].name # teams'[u].name
        BY <2>8, <3>3
      <4> QED  BY <2>3, <2>8, <4>1
    <3> QED  BY <1>1, <2>9, <3>1, <3>2, <3>3 DEF TeamsInv, Group!TeamsDiffer
  <2> QED  BY <1>3, <2>13, <2>14, <2>15 DEF TeamsInv
<1> QED  BY <1>4, <1>5

LEMMA RequestAbandoned == ASSUME TeamsAssumption, TeamsInv, NEW r \in Requests, Group!Abandon(r) PROVE TeamsInv'
<1>1. Group!End(r) /\ UNCHANGED <<teams, gone, members, repeated>>
  BY DEF Group!Abandon
<1>2. AsksFit' /\ Overlap'
  BY <1>1, SameMembers, AskEnds
<1> QED  BY <1>1, <1>2, SameTeams DEF TeamsInv, StoredFit

LEMMA NextTeams == ASSUME TeamsAssumption, TeamsInv, Group!Next PROVE TeamsInv'
<1>1. CASE \E m \in Members : Group!Unassign(m) \/ Group!DeleteMember(m)
  BY <1>1, MemberLeaves
<1>2. CASE \E r \in Requests :
             \/ Group!Create(r) \/ Group!CreateSave(r) \/ Group!Update(r) \/ Group!UpdateWrite(r)
             \/ Group!Delete(r) \/ Group!DeleteWrite(r) \/ Group!BulkDelete(r) \/ Group!BulkWrite(r)
  BY <1>2, CreateTeams, CreateSaved, UpdateTeams, UpdateWritten, DeleteTeams, BulkTeams, TeamDropped
<1>3. CASE \E r \in Requests :
             \/ Group!Associate(r) \/ Group!ChangeMembers(r) \/ Group!PutOne(r) \/ Group!EditMember(r)
             \/ Group!EditWrite(r) \/ Group!Import(r) \/ Group!Paint(r) \/ Group!Commit(r) \/ Group!Abandon(r)
  BY <1>3, PutsBegin, PutWritten, EditWritten, ImportTeams, PaintTeams, ImportSaved, RequestAbandoned
<1> QED  BY <1>1, <1>2, <1>3 DEF Group!Next

LEMMA TeamsStay == ASSUME TeamsInv, UNCHANGED groupVars PROVE TeamsInv'
<1>1. /\ Group!Existing' = Group!Existing /\ Group!Live' = Group!Live
      /\ Group!Taken' = Group!Taken /\ Group!Used' = Group!Used
  BY DEF groupVars, Group!Existing, Group!Live, Group!Taken, Group!Used
<1>2. ASSUME NEW r \in Requests PROVE AskFits(teamCalls[r])'
  <2>1. AskFits(teamCalls[r])
    BY DEF TeamsInv, AsksFit
  <2>2. Group!Missing(teamCalls[r])' = Group!Missing(teamCalls[r])
    BY DEF groupVars, Group!Missing
  <2> QED  BY <1>1, <2>1, <2>2 DEF groupVars, AskFits, ImportFits, Group!Free
<1>3. AsksFit' /\ Overlap'
  BY <1>2 DEF groupVars, TeamsInv, AsksFit, Overlap
<1> QED  BY <1>1, <1>3 DEF groupVars, TeamsInv, StoredFit, Group!TeamsResolve, Group!TeamsDiffer

-----------------------------------------------------------------------------
\* The invariant gives the property: as many colours are picked as teams have got one,
\* so while one has none there is a colour left.

LEMMA CountsAlike == \A S : Group!Cardinality(S) = Cardinality(S)
BY DEF Group!Cardinality, Cardinality

LEMMA ImageCounted ==
    ASSUME NEW f, NEW S, IsFiniteSet(S)
    PROVE  IsFiniteSet({f[x] : x \in S}) /\ Cardinality({f[x] : x \in S}) <= Cardinality(S)
<1> DEFINE T == {f[x] : x \in S}
           g == [x \in S |-> f[x]]
<1>1. g \in Surjection(S, T)
  BY DEF Surjection
<1> QED  BY <1>1, FS_Surjection

LEMMA ImportsGoOn == TeamsInv => Group!ImportGoesOn
<1> SUFFICES ASSUME TeamsInv, NEW r \in Requests, teamCalls[r].kind = "import",
                    Group!Missing(teamCalls[r]) # DOMAIN teamCalls[r].picked,
                    Group!Cardinality(Group!Missing(teamCalls[r])) <= Group!Cardinality(Colors \ Group!Used)
             PROVE  \E c \in Colors : Group!Picked(c) /\ Group!Accepts(teamCalls[r], c)
  BY DEF Group!ImportGoesOn, Group!Doing
<1> DEFINE k == teamCalls[r]
           M == Group!Missing(k)
           D == DOMAIN k.picked
           Chosen == {k.picked[n] : n \in D}
           Left == Colors \ Group!Used
<1>1. ImportFits(k)
  BY DEF TeamsInv, AsksFit, AskFits
<1>2. IsFiniteSet(M) /\ IsFiniteSet(D) /\ D \subseteq M /\ D # M
  <2>1. IsFiniteSet(DOMAIN k.wanted)
    BY <1>1, FS_Subset, DeskConstants DEF ImportFits
  <2>2. IsFiniteSet({k.wanted[m] : m \in DOMAIN k.wanted})
    BY <2>1, ImageCounted
  <2>3. M \subseteq {k.wanted[m] : m \in DOMAIN k.wanted} /\ D \subseteq M /\ D # M
    BY <1>1 DEF ImportFits, Group!Missing
  <2> QED  BY <2>2, <2>3, FS_Subset
<1>3. Cardinality(M) <= Cardinality(Left)
  BY CountsAlike
<1>4. IsFiniteSet(Left) /\ Chosen \subseteq Left
  BY <1>1, FS_Difference, DeskConstants DEF ImportFits
<1>5. IsFiniteSet(Chosen) /\ Cardinality(Chosen) <= Cardinality(D)
  BY <1>2, ImageCounted
<1>6. k.used = Group!Used \cup Chosen
  BY <1>1 DEF ImportFits
<1> HIDE DEF k, M, D, Chosen, Left
<1>7. Cardinality(D) < Cardinality(M)
  <2>1. /\ Cardinality(D) <= Cardinality(M) /\ Cardinality(D) # Cardinality(M)
        /\ Cardinality(D) \in Nat /\ Cardinality(M) \in Nat
    BY <1>2, FS_Subset, FS_CardinalityType
  <2> QED  BY <2>1
<1>8. PICK c \in Left : c \notin Chosen
  <2>1. Chosen # Left
    <3>1. Cardinality(D) \in Nat /\ Cardinality(M) \in Nat /\ Cardinality(Left) \in Nat /\ Cardinality(Chosen) \in Nat
      BY <1>2, <1>4, <1>5, FS_CardinalityType
    <3>2. Cardinality(Chosen) < Cardinality(Left)
      BY <1>3, <1>5, <1>7, <3>1
    <3> QED  BY <3>1, <3>2
  <2> QED  BY <1>4, <2>1
<1> QED  BY <1>6, <1>8 DEF Left, k, Group!Picked, Group!Accepts

LEMMA TeamsInvFits == TeamsInv => Group!TeamsFit
<1> SUFFICES ASSUME TeamsInv PROVE Group!TeamsFit
  OBVIOUS
<1>1. Group!TypeOK
  <2>1. \A r \in Requests : teamCalls[r].kind \in Group!Kinds \cup {None} /\ teamCalls[r].todo \subseteq Members
    BY DEF TeamsInv, AsksFit, AskFits
  <2> QED  BY <2>1 DEF TeamsInv, StoredFit, Team, Member, Group!TypeOK
<1> QED  BY <1>1, ImportsGoOn DEF TeamsInv, Group!TeamsFit

\* Teams.tla: teams and members fit together and an import finds its colours, as long as
\* requests that make teams come alone and those that delete teams do not overlap with
\* those that put members into them.
THEOREM TeamsAlwaysFit == TeamsAssumption => (PartSpec => []TeamsFit)
<1> SUFFICES ASSUME TeamsAssumption PROVE PartSpec => []TeamsFit
  OBVIOUS
<1>1. PartInit => TeamsInv
  BY InitTeams DEF PartInit
<1>2. TeamsInv /\ [PartNext]_all => TeamsInv'
  <2> SUFFICES ASSUME TeamsInv, [PartNext]_all PROVE TeamsInv'
    OBVIOUS
  <2>1. CASE GroupStep
    BY <2>1, NextTeams DEF GroupStep
  <2>2. CASE UNCHANGED groupVars
    BY <2>2, TeamsStay
  <2> QED  BY <2>1, <2>2 DEF PartNext, NumbersStep, ImageStep, all
<1>3. TeamsInv => TeamsFit
  BY TeamsInvFits DEF TeamsFit
<1> QED  BY <1>1, <1>2, <1>3, PTL DEF PartSpec

=============================================================================
