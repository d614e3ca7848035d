----------------------- MODULE ExecutionLedgerProofs -----------------------
(***************************************************************************)
(* What holds of the books for any orders, any sizes and fills, any number *)
(* of handlers, troubles and rows: they are well formed, and a Trade row   *)
(* never runs ahead of the broker, whichever way the broker counts.  While *)
(* nothing disturbs them, the Position ends up exact if notices tell       *)
(* amounts, and the Trade rows do if they tell totals.                     *)
(***************************************************************************)
EXTENDS ExecutionLedger, TLAPS

\* What a notice says has happened: it is sent after the fill it tells of.
NoticesTrue ==
  /\ \A i \in 1..Len(inbox) : Total(inbox[i]) <= filled[OrderOf(inbox[i])]
  /\ \A n \in Notice : handler[n] # "none" => Total(n) <= filled[OrderOf(n)]

RowsNotAhead == \A o \in Order : NotAhead(o)

LedgerInv == TypeOK /\ NoticesTrue /\ RowsNotAhead

-----------------------------------------------------------------------------
LEMMA SizeTyped == ASSUME NEW o \in Order PROVE Size[o] \in Nat /\ Size[o] > 0
BY LedgerAssumption

\* The parts of a notice.
LEMMA NoticeParts ==
  ASSUME NEW n \in Notice
  PROVE  /\ OrderOf(n) \in Order /\ Amount(n) \in Nat /\ Total(n) \in Nat
         /\ Amount(n) <= Total(n) /\ Total(n) <= Size[OrderOf(n)]
         /\ Total(n) = 0 => Amount(n) = 0
<1>1. PICK o \in Order : n = <<o, 0, 0>> \/ (n \in {o} \X (1..Size[o]) \X (1..Size[o]) /\ n[2] <= n[3])
  BY DEF Notice
<1>2. Size[o] \in Nat
  BY SizeTyped
<1> QED BY <1>1, <1>2 DEF OrderOf, Amount, Total

\* What the broker's steps send are notices.
LEMMA NoticeOf ==
  ASSUME NEW o \in Order
  PROVE  /\ <<o, 0, 0>> \in Notice
         /\ \A q, k \in 1..Size[o] : q <= k => <<o, q, k>> \in Notice
<1>1. <<o, 0, 0>> \in Notice
  BY DEF Notice
<1>2. ASSUME NEW q \in 1..Size[o], NEW k \in 1..Size[o], q <= k PROVE <<o, q, k>> \in Notice
  BY <1>2 DEF Notice
<1> QED BY <1>1, <1>2

\* What a handler writes into the Trade row is at most what its notice says.
LEMMA ReportBounds ==
  ASSUME NEW n \in Notice
  PROVE  Report(n) \in Nat /\ Report(n) <= Total(n)
BY NoticeParts DEF Report

LEMMA StatusTyped == \A q, z, c : StatusFor(q, z, c) \in TradeStatus \ {"ABSENT"}
BY DEF StatusFor, TradeStatus

\* Only a full report makes an order FILLED, or the word of the broker.
LEMMA FilledStatus ==
  ASSUME NEW q \in Nat, NEW z \in Nat, NEW c, StatusFor(q, z, c) = "FILLED"
  PROVE  q >= z \/ (q = 0 /\ c)
BY DEF StatusFor

\* Appending a notice keeps the others.
LEMMA Appended ==
  ASSUME inbox \in Seq(Notice), NEW n \in Notice, inbox' = Append(inbox, n)
  PROVE  /\ inbox' \in Seq(Notice)
         /\ \A i \in 1..Len(inbox') : inbox'[i] = n \/ (i \in 1..Len(inbox) /\ inbox'[i] = inbox[i])
OBVIOUS

\* Taking the first notice keeps the others.
LEMMA Taken ==
  ASSUME inbox \in Seq(Notice), inbox # <<>>, inbox' = Tail(inbox)
  PROVE  /\ inbox' \in Seq(Notice) /\ Head(inbox) \in Notice /\ 1 \in 1..Len(inbox) /\ Head(inbox) = inbox[1]
         /\ \A i \in 1..Len(inbox') : i + 1 \in 1..Len(inbox) /\ inbox'[i] = inbox[i + 1]
OBVIOUS

-----------------------------------------------------------------------------
LEMMA InitLedger == Init => LedgerInv
<1> SUFFICES ASSUME Init PROVE LedgerInv
  OBVIOUS
<1>1. NoPosition \in Position /\ 0 \in 0..MaxTroubles
  BY LedgerAssumption DEF NoPosition, Position, None
<1>2. filled \in [Order -> {NotPlaced} \cup Nat] /\ \A o \in Order : filled[o] = -1 /\ filled[o] <= Size[o]
  BY SizeTyped DEF Init, NotPlaced
<1>3. inbox \in Seq(Notice) /\ holding \in Nat
  BY DEF Init
<1>4. trade \in [Order -> [status : TradeStatus, filledQuantity : Nat]]
  BY DEF Init, TradeStatus
<1>5. handler \in [Notice -> HandlerStage] /\ seen \in [Notice -> Position]
  BY <1>1 DEF Init, HandlerStage
<1>6. sync \in [stage : {"idle", "fetched", "writing"}, holding : {NotListed} \cup Nat, seen : Position]
  BY <1>1 DEF Init
<1>7. TypeOK
  BY <1>1, <1>2, <1>3, <1>4, <1>5, <1>6 DEF Init, TypeOK, NoPosition
<1>8. NoticesTrue /\ RowsNotAhead
  BY DEF Init, NoticesTrue, RowsNotAhead, NotAhead
<1> QED BY <1>7, <1>8 DEF LedgerInv

\* The helpers that write the Position keep it a row, or no row.
LEMMA NoRowTyped == NoPosition \in Position /\ NoPosition.id = None /\ NoPosition.quantity = 0
BY LedgerAssumption DEF NoPosition, Position, None

LEMMA RowWritten ==
  ASSUME TypeOK, NEW p \in Position, NEW q \in Nat,
         (p.id # None /\ UpdateRow(p, q)) \/ DeleteRow(p) \/ CreateRow(q) \/ UNCHANGED position
  PROVE  position' \in Position /\ (position'.id = None => position'.quantity = 0)
<1>1. CASE p.id # None /\ UpdateRow(p, q)
  BY <1>1 DEF UpdateRow, TypeOK, Position
<1>2. CASE DeleteRow(p)
  BY <1>2, NoRowTyped DEF DeleteRow, TypeOK
<1>3. CASE CreateRow(q)
  BY <1>3, LedgerAssumption DEF CreateRow, FreshRow, TypeOK, Position, None
<1>4. CASE UNCHANGED position
  BY <1>4 DEF TypeOK
<1> QED BY <1>1, <1>2, <1>3, <1>4

LEMMA BoughtTyped ==
  ASSUME TypeOK, NEW p \in Position, NEW q \in Nat, Bought(p, q)
  PROVE  position' \in Position /\ (position'.id = None => position'.quantity = 0)
<1>1. p.quantity + q \in Nat
  BY DEF Position
<1> QED BY <1>1, RowWritten DEF Bought

LEMMA SoldTyped ==
  ASSUME TypeOK, NEW p \in Position, NEW q \in Nat, Sold(p, q)
  PROVE  position' \in Position /\ (position'.id = None => position'.quantity = 0)
<1>1. p.quantity > q => p.quantity - q \in Nat
  BY DEF Position
<1> QED BY <1>1, RowWritten DEF Sold

LEMMA SyncTyped ==
  ASSUME TypeOK, NEW p \in Position, NEW h \in {NotListed} \cup Nat, SyncPosition(p, h)
  PROVE  position' \in Position /\ (position'.id = None => position'.quantity = 0)
<1>1. h # NotListed => h \in Nat
  OBVIOUS
<1> QED BY <1>1, RowWritten DEF SyncPosition

-----------------------------------------------------------------------------
\* What has happened stays so while the fills only grow.
LEMMA StillTrue ==
  ASSUME filled \in [Order -> {NotPlaced} \cup Nat], filled' \in [Order -> {NotPlaced} \cup Nat],
         \A x \in Order : filled[x] <= filled'[x],
         NEW n \in Notice, Total(n) <= filled[OrderOf(n)]
  PROVE  Total(n) <= filled'[OrderOf(n)]
<1>1. OrderOf(n) \in Order /\ Total(n) \in Int
  BY NoticeParts
<1>2. \A x \in Order : filled[x] \in Int /\ filled'[x] \in Int
  BY DEF NotPlaced
<1> QED BY <1>1, <1>2

\* The broker fills some of an order, or accepts it, and sends the notice of it.
LEMMA SentStep ==
  ASSUME LedgerInv, NEW o \in Order, NEW k \in Nat, NEW n \in Notice,
         OrderOf(n) = o, Total(n) = k, filled[o] <= k, k <= Size[o],
         trade[o].status = "FILLED" /\ filled[o] = Size[o] => k = Size[o],
         filled' = [filled EXCEPT ![o] = k], inbox' = Append(inbox, n), holding' \in Nat,
         course' \in {"calm", "early", "disturbed"},
         UNCHANGED <<cumulative, trade, position, handler, seen, sync, troubles>>
  PROVE  LedgerInv'
<1>0. TypeOK
  BY DEF LedgerInv
<1>1. filled' \in [Order -> {NotPlaced} \cup Nat] /\ filled'[o] = k
      /\ \A x \in Order : x # o => filled'[x] = filled[x]
  BY <1>0 DEF TypeOK
<1>2. \A x \in Order : filled[x] \in Int /\ filled'[x] \in Int /\ filled[x] <= filled'[x]
  BY <1>0, <1>1 DEF TypeOK, NotPlaced
<1>3. inbox' \in Seq(Notice)
  BY <1>0, Appended DEF TypeOK
<1>4. TypeOK'
  <2>1. \A x \in Order : filled'[x] <= Size[x]
    BY <1>0, <1>1 DEF TypeOK
  <2> QED BY <1>0, <1>1, <1>3, <2>1 DEF TypeOK
<1>5. NoticesTrue'
  <2>1. ASSUME NEW i \in 1..Len(inbox') PROVE Total(inbox'[i]) <= filled'[OrderOf(inbox'[i])]
    <3>1. CASE inbox'[i] = n
      BY <3>1, <1>1
    <3>2. CASE i \in 1..Len(inbox) /\ inbox'[i] = inbox[i]
      <4>1. inbox[i] \in Notice /\ Total(inbox[i]) <= filled[OrderOf(inbox[i])]
        BY <3>2, <1>0 DEF LedgerInv, NoticesTrue, TypeOK
      <4> QED BY <3>2, <4>1, <1>0, <1>1, <1>2, StillTrue DEF TypeOK
    <3> QED BY <3>1, <3>2, <1>0, Appended DEF TypeOK
  <2>2. ASSUME NEW m \in Notice, handler'[m] # "none" PROVE Total(m) <= filled'[OrderOf(m)]
    <3>1. Total(m) <= filled[OrderOf(m)]
      BY <2>2 DEF LedgerInv, NoticesTrue
    <3> QED BY <3>1, <1>0, <1>1, <1>2, StillTrue DEF TypeOK
  <2> QED BY <2>1, <2>2 DEF NoticesTrue, OrderOf, Total
<1>6. RowsNotAhead'
  <2>1. ASSUME NEW x \in Order
        PROVE  /\ trade[x].filledQuantity > 0 => trade[x].filledQuantity <= filled'[x]
               /\ trade[x].status = "FILLED" =>
                    filled'[x] = Size[x] \/ (trade[x].filledQuantity = 0 /\ x \in SaidComplete)
    <3>1. NotAhead(x) /\ trade[x].filledQuantity \in Nat
      BY <1>0 DEF LedgerInv, RowsNotAhead, TypeOK
    <3> QED BY <3>1, <1>1, <1>2 DEF NotAhead
  <2> QED BY <2>1 DEF RowsNotAhead, NotAhead
<1> QED BY <1>4, <1>5, <1>6 DEF LedgerInv

LEMMA CourseTyped ==
  ASSUME course \in {"calm", "early", "disturbed"}, NEW p, Beside(p) \/ Early(p) \/ Trouble
  PROVE  course' \in {"calm", "early", "disturbed"}
BY DEF Beside, Early, Trouble

LEMMA PlaceStep == ASSUME LedgerInv, NEW o \in Order, Place(o) PROVE LedgerInv'
<1> DEFINE n == <<o, 0, 0>>
<1>1. filled[o] = -1 /\ TypeOK /\ Size[o] \in Nat /\ Size[o] > 0
  BY SizeTyped DEF LedgerInv, Place, NotPlaced
<1>2. n \in Notice /\ OrderOf(n) = o /\ Total(n) = 0
  BY NoticeOf DEF OrderOf, Total
<1>3. course' \in {"calm", "early", "disturbed"} /\ holding' \in Nat
  BY <1>1, CourseTyped DEF Place, TypeOK
<1>4. /\ filled' = [filled EXCEPT ![o] = 0] /\ inbox' = Append(inbox, n)
      /\ UNCHANGED <<cumulative, trade, position, handler, seen, sync, troubles>>
  BY DEF Place
<1>5. 0 \in Nat /\ filled[o] <= 0 /\ 0 <= Size[o] /\ filled[o] # Size[o]
  BY <1>1
<1> HIDE DEF n
<1> QED BY <1>2, <1>3, <1>4, <1>5, SentStep

\* The notice of a fill.
LEMMA FillSends ==
  ASSUME LedgerInv, NEW o \in Order, NEW q \in 1..Size[o], Fill(o, q)
  PROVE  /\ <<o, q, filled[o] + q>> \in Notice /\ filled[o] \in Nat /\ q \in Nat /\ q > 0
         /\ holding' \in Nat /\ holding' = IF o \in Buys THEN holding + q ELSE holding - q
<1>1. filled[o] \in Nat /\ filled[o] + q <= Size[o] /\ holding \in Nat /\ Size[o] \in Nat
  BY SizeTyped DEF LedgerInv, TypeOK, Fill, NotPlaced
<1>2. filled[o] + q \in 1..Size[o] /\ q <= filled[o] + q
  BY <1>1
<1>3. o \in Buys \/ q <= holding
  BY DEF Order, Fill
<1>4. \A k \in 1..Size[o] : q <= k => <<o, q, k>> \in Notice
  BY NoticeOf
<1>5. <<o, q, filled[o] + q>> \in Notice
  BY <1>2, <1>4
<1> QED BY <1>1, <1>3, <1>5 DEF Fill

LEMMA FillStep == ASSUME LedgerInv, NEW o \in Order, NEW q \in 1..Size[o], Fill(o, q) PROVE LedgerInv'
<1> DEFINE n == <<o, q, filled[o] + q>>
<1>1. n \in Notice /\ filled[o] \in Nat /\ q \in Nat /\ q > 0 /\ holding' \in Nat
  BY FillSends
<1>2. OrderOf(n) = o /\ Total(n) = filled[o] + q
  BY DEF OrderOf, Total
<1>3. filled' = [filled EXCEPT ![o] = filled[o] + q] /\ filled[o] + q <= Size[o]
  BY DEF Fill
<1>4. course' \in {"calm", "early", "disturbed"} /\ Size[o] \in Nat
  BY SizeTyped, CourseTyped DEF LedgerInv, TypeOK, Fill
<1>5. filled[o] + q \in Nat /\ filled[o] <= filled[o] + q /\ (filled[o] = Size[o] => filled[o] + q = Size[o])
  BY <1>1, <1>3, <1>4
<1> HIDE DEF n
<1> QED BY <1>1, <1>2, <1>3, <1>4, <1>5, SentStep DEF Fill, n

LEMMA SaveTradeStep == ASSUME LedgerInv, NEW o \in Order, SaveTrade(o) PROVE LedgerInv'
<1>1. trade' = [trade EXCEPT ![o].status = "SUBMITTED"]
  BY DEF SaveTrade
<1>2. TypeOK'
  BY <1>1 DEF LedgerInv, TypeOK, SaveTrade, broker, history, TradeStatus
<1>3. NoticesTrue'
  BY DEF LedgerInv, NoticesTrue, SaveTrade, broker, OrderOf, Total
<1>4. RowsNotAhead'
  BY <1>1 DEF LedgerInv, TypeOK, RowsNotAhead, NotAhead, SaveTrade, broker
<1> QED BY <1>2, <1>3, <1>4 DEF LedgerInv

-----------------------------------------------------------------------------
\* A notice leaves the inbox; a handler, if any, starts from it.
LEMMA InboxShrinks ==
  ASSUME LedgerInv, inbox # <<>>, inbox' = Tail(inbox), UNCHANGED filled,
         UNCHANGED handler \/ \E s \in HandlerStage : GoTo(Head(inbox), s)
  PROVE  inbox' \in Seq(Notice) /\ handler' \in [Notice -> HandlerStage] /\ NoticesTrue'
<1>0. TypeOK
  BY DEF LedgerInv
<1>1. /\ inbox' \in Seq(Notice) /\ Head(inbox) \in Notice /\ 1 \in 1..Len(inbox) /\ Head(inbox) = inbox[1]
      /\ \A i \in 1..Len(inbox') : i + 1 \in 1..Len(inbox) /\ inbox'[i] = inbox[i + 1]
  BY <1>0, Taken DEF TypeOK
<1>2. \A i \in 1..Len(inbox') : Total(inbox'[i]) <= filled[OrderOf(inbox'[i])]
  BY <1>1 DEF LedgerInv, NoticesTrue
<1>3. Total(Head(inbox)) <= filled[OrderOf(Head(inbox))]
  BY <1>1 DEF LedgerInv, NoticesTrue
<1>4. handler' \in [Notice -> HandlerStage]
  BY <1>0, <1>1 DEF TypeOK, GoTo
<1>5. ASSUME NEW n \in Notice, handler'[n] # "none" PROVE Total(n) <= filled[OrderOf(n)]
  <2>1. n = Head(inbox) \/ handler'[n] = handler[n]
    BY <1>0, <1>1 DEF TypeOK, GoTo
  <2> QED BY <2>1, <1>3, <1>5 DEF LedgerInv, NoticesTrue
<1> QED BY <1>1, <1>2, <1>4, <1>5 DEF NoticesTrue, OrderOf, Total

\* troubles counts up to its bound.
LEMMA TroubleTyped ==
  ASSUME TypeOK, Trouble
  PROVE  troubles' \in 0..MaxTroubles /\ course' = "disturbed"
BY LedgerAssumption DEF TypeOK, Trouble

LEMMA ReceiveStep == ASSUME LedgerInv, Receive PROVE LedgerInv'
<1>1. \E s \in HandlerStage : GoTo(Head(inbox), s)
  BY DEF Receive, HandlerStage
<1>2. inbox # <<>> /\ inbox' = Tail(inbox) /\ UNCHANGED filled
  BY DEF Receive
<1>3. inbox' \in Seq(Notice) /\ handler' \in [Notice -> HandlerStage] /\ NoticesTrue'
  BY <1>1, <1>2, InboxShrinks
<1>4. troubles' \in 0..MaxTroubles /\ course' \in {"calm", "early", "disturbed"}
  <2>1. CASE Trouble
    BY <2>1, TroubleTyped DEF LedgerInv
  <2>2. CASE UNCHANGED troubles /\ (Beside(TRUE) \/ Early(~Recorded(OrderOf(Head(inbox)))))
    <3>1. course' \in {"calm", "early", "disturbed"}
      BY <2>2, CourseTyped DEF LedgerInv, TypeOK
    <3> QED BY <2>2, <3>1 DEF LedgerInv, TypeOK
  <2> QED BY <2>1, <2>2 DEF Receive
<1>5. TypeOK'
  BY <1>3, <1>4 DEF LedgerInv, TypeOK, Receive
<1>6. RowsNotAhead'
  BY DEF LedgerInv, RowsNotAhead, NotAhead, Receive
<1> QED BY <1>3, <1>5, <1>6 DEF LedgerInv

LEMMA LoseNoticeStep == ASSUME LedgerInv, LoseNotice PROVE LedgerInv'
<1>1. inbox' \in Seq(Notice) /\ NoticesTrue'
  BY InboxShrinks DEF LoseNotice
<1>2. troubles' \in 0..MaxTroubles /\ course' = "disturbed"
  BY TroubleTyped DEF LedgerInv, LoseNotice
<1>3. TypeOK'
  BY <1>1, <1>2 DEF LedgerInv, TypeOK, LoseNotice
<1>4. RowsNotAhead'
  BY DEF LedgerInv, RowsNotAhead, NotAhead, LoseNotice
<1> QED BY <1>1, <1>3, <1>4 DEF LedgerInv

\* A handler that runs goes on to s.
LEMMA HandlerGoes ==
  ASSUME LedgerInv, NEW n \in Notice, Handling(n), NEW s \in HandlerStage, GoTo(n, s), UNCHANGED broker
  PROVE  handler' \in [Notice -> HandlerStage] /\ NoticesTrue'
<1>1. handler' = [handler EXCEPT ![n] = s] /\ handler \in [Notice -> HandlerStage] /\ handler[n] # "none"
  BY DEF GoTo, LedgerInv, TypeOK, Handling
<1>2. \A x \in Notice : handler'[x] # "none" => handler[x] # "none"
  BY <1>1
<1> QED BY <1>1, <1>2 DEF LedgerInv, NoticesTrue, broker, OrderOf, Total

LEMMA UpdateTradeStep == ASSUME LedgerInv, NEW n \in Notice, UpdateTrade(n) PROVE LedgerInv'
<1> DEFINE o == OrderOf(n)
           q == Report(n)
           t == StatusFor(q, Size[o], Complete(n))
<1>0. /\ TypeOK /\ o \in Order /\ q \in Nat /\ Total(n) \in Nat /\ q <= Total(n)
      /\ Size[o] \in Nat /\ Size[o] > 0
  BY NoticeParts, ReportBounds, SizeTyped DEF LedgerInv
<1>1. Total(n) <= filled[o] /\ filled[o] \in Int /\ filled[o] <= Size[o]
  <2>1. Total(n) <= filled[o]
    BY DEF UpdateTrade, LedgerInv, NoticesTrue
  <2> QED BY <2>1, <1>0 DEF TypeOK, NotPlaced
<1>2. trade' = [trade EXCEPT ![o] = [status |-> t, filledQuantity |-> q]] /\ UNCHANGED filled
  BY DEF UpdateTrade, broker
<1>3. handler' \in [Notice -> HandlerStage] /\ NoticesTrue'
  BY HandlerGoes DEF UpdateTrade, Handling, HandlerStage
<1>4. t \in TradeStatus /\ (t = "FILLED" => q >= Size[o] \/ (q = 0 /\ Complete(n)))
  BY <1>0, StatusTyped, FilledStatus
<1>5. Complete(n) => o \in SaidComplete
  BY DEF Complete
<1> HIDE DEF o, q, t
<1>6. trade' \in [Order -> [status : TradeStatus, filledQuantity : Nat]]
  BY <1>0, <1>2, <1>4 DEF TypeOK
<1>7. TypeOK'
  BY <1>0, <1>3, <1>6 DEF TypeOK, UpdateTrade, broker, history
<1>8. ASSUME NEW x \in Order
      PROVE  /\ trade'[x].filledQuantity > 0 => trade'[x].filledQuantity <= filled[x]
             /\ trade'[x].status = "FILLED" =>
                  filled[x] = Size[x] \/ (trade'[x].filledQuantity = 0 /\ x \in SaidComplete)
  <2>1. CASE x = o
    <3>1. trade'[x].filledQuantity = q /\ trade'[x].status = t
      BY <2>1, <1>0, <1>2 DEF TypeOK
    <3>2. q <= filled[x] /\ (q >= Size[x] => filled[x] = Size[x])
      BY <2>1, <1>0, <1>1
    <3> QED BY <2>1, <3>1, <3>2, <1>4, <1>5
  <2>2. CASE x # o
    <3>1. trade'[x] = trade[x]
      BY <2>2, <1>0, <1>2 DEF TypeOK
    <3> QED BY <3>1 DEF LedgerInv, RowsNotAhead, NotAhead
  <2> QED BY <2>1, <2>2
<1>9. RowsNotAhead'
  BY <1>2, <1>8 DEF RowsNotAhead, NotAhead
<1> QED BY <1>3, <1>7, <1>9 DEF LedgerInv

LEMMA ReadPositionStep == ASSUME LedgerInv, NEW n \in Notice, ReadPosition(n) PROVE LedgerInv'
<1>1. handler' \in [Notice -> HandlerStage] /\ NoticesTrue'
  BY HandlerGoes DEF ReadPosition, Handling, HandlerStage
<1>2. seen' \in [Notice -> Position] /\ course' \in {"calm", "early", "disturbed"}
  BY CourseTyped DEF LedgerInv, TypeOK, ReadPosition
<1>3. TypeOK'
  BY <1>1, <1>2 DEF LedgerInv, TypeOK, ReadPosition, broker
<1>4. RowsNotAhead'
  BY DEF LedgerInv, RowsNotAhead, NotAhead, ReadPosition, broker
<1> QED BY <1>1, <1>3, <1>4 DEF LedgerInv

LEMMA WritePositionStep == ASSUME LedgerInv, NEW n \in Notice, WritePosition(n) PROVE LedgerInv'
<1>1. handler' \in [Notice -> HandlerStage] /\ NoticesTrue'
  BY HandlerGoes DEF WritePosition, Handling, HandlerStage
<1>2. TypeOK /\ seen[n] \in Position /\ Report(n) \in Nat
  BY ReportBounds DEF LedgerInv, TypeOK
<1>3. position' \in Position /\ (position'.id = None => position'.quantity = 0)
  BY <1>2, BoughtTyped, SoldTyped DEF WritePosition
<1>4. seen' \in [Notice -> Position]
  BY <1>2, NoRowTyped DEF TypeOK, WritePosition
<1>5. TypeOK'
  BY <1>1, <1>2, <1>3, <1>4 DEF TypeOK, WritePosition, broker, history
<1>6. RowsNotAhead'
  BY DEF LedgerInv, RowsNotAhead, NotAhead, WritePosition, broker
<1> QED BY <1>1, <1>5, <1>6 DEF LedgerInv

LEMMA HandlerThrowsStep == ASSUME LedgerInv, NEW n \in Notice, HandlerThrows(n) PROVE LedgerInv'
<1>1. handler' \in [Notice -> HandlerStage] /\ NoticesTrue'
  BY HandlerGoes DEF HandlerThrows, HandlerStage
<1>2. seen' \in [Notice -> Position] /\ troubles' \in 0..MaxTroubles /\ course' = "disturbed"
  BY NoRowTyped, TroubleTyped DEF LedgerInv, TypeOK, HandlerThrows
<1>3. TypeOK'
  BY <1>1, <1>2 DEF LedgerInv, TypeOK, HandlerThrows, broker
<1>4. RowsNotAhead'
  BY DEF LedgerInv, RowsNotAhead, NotAhead, HandlerThrows, broker
<1> QED BY <1>1, <1>3, <1>4 DEF LedgerInv

-----------------------------------------------------------------------------
\* A step of the synchronisation that leaves the Position well formed.
LEMMA SyncStep ==
  ASSUME LedgerInv, UNCHANGED <<broker, trade, handler, seen>>,
         sync' \in [stage : {"idle", "fetched", "writing"}, holding : {NotListed} \cup Nat, seen : Position],
         position' \in Position, position'.id = None => position'.quantity = 0,
         course' \in {"calm", "early", "disturbed"}, troubles' \in 0..MaxTroubles
  PROVE  LedgerInv'
<1>1. TypeOK'
  BY DEF LedgerInv, TypeOK, broker
<1>2. NoticesTrue' /\ RowsNotAhead'
  BY DEF LedgerInv, NoticesTrue, RowsNotAhead, NotAhead, broker, OrderOf, Total
<1> QED BY <1>1, <1>2 DEF LedgerInv

LEMMA SynchroniseStep == ASSUME LedgerInv, Synchronise PROVE LedgerInv'
<1> DEFINE SyncRecord == [stage : {"idle", "fetched", "writing"}, holding : {NotListed} \cup Nat, seen : Position]
<1>0. /\ sync \in SyncRecord /\ position \in Position /\ (position.id = None => position.quantity = 0)
      /\ course \in {"calm", "early", "disturbed"} /\ troubles \in 0..MaxTroubles
      /\ holding \in Nat /\ TypeOK
  BY DEF LedgerInv, TypeOK
<1>1. CASE SyncFetch
  <2>1. sync' \in SyncRecord
    BY <1>0, <1>1 DEF SyncFetch
  <2>2. course' \in {"calm", "early", "disturbed"}
    BY <1>0, <1>1, CourseTyped DEF SyncFetch
  <2> QED BY <2>1, <2>2, <1>0, <1>1, SyncStep DEF SyncFetch
<1>2. CASE SyncRefused
  <2>1. sync' \in SyncRecord
    BY <1>0, <1>2 DEF SyncRefused
  <2>2. course' = "disturbed" /\ troubles' \in 0..MaxTroubles
    BY <1>0, <1>2, TroubleTyped DEF SyncRefused
  <2> QED BY <2>1, <2>2, <1>0, <1>2, SyncStep DEF SyncRefused
<1>3. CASE SyncRead
  <2>1. sync' \in SyncRecord
    BY <1>0, <1>3 DEF SyncRead
  <2> QED BY <2>1, <1>0, <1>3, SyncStep DEF SyncRead, history
<1>4. CASE SyncWrite
  <2>1. sync' \in SyncRecord
    BY <1>4, NoRowTyped DEF SyncWrite, SyncEnds
  <2>2. position' \in Position /\ (position'.id = None => position'.quantity = 0)
    BY <1>0, <1>4, SyncTyped DEF SyncWrite
  <2> QED BY <2>1, <2>2, <1>0, <1>4, SyncStep DEF SyncWrite, history
<1>5. CASE SyncThrows
  <2>1. sync' \in SyncRecord
    BY <1>5, NoRowTyped DEF SyncThrows, SyncEnds
  <2>2. course' = "disturbed" /\ troubles' \in 0..MaxTroubles
    BY <1>0, <1>5, TroubleTyped DEF SyncThrows
  <2> QED BY <2>1, <2>2, <1>0, <1>5, SyncStep DEF SyncThrows
<1> QED BY <1>1, <1>2, <1>3, <1>4, <1>5 DEF Synchronise

LEMMA StutterStep == ASSUME LedgerInv, UNCHANGED vars PROVE LedgerInv'
BY DEF LedgerInv, TypeOK, NoticesTrue, RowsNotAhead, NotAhead, OrderOf, Total, vars, broker, history

-----------------------------------------------------------------------------
\* The inductive invariant of the books: well formed rows, and notices that
\* tell of fills that have happened.
THEOREM LedgerInvariant == Spec => []LedgerInv
<1>1. ASSUME LedgerInv, [Next]_vars PROVE LedgerInv'
  <2>1. CASE \E o \in Order : Trading(o)
    BY <1>1, <2>1, PlaceStep, FillStep, SaveTradeStep DEF Trading
  <2>2. CASE \E n \in Notice : Handle(n) \/ HandlerThrows(n)
    BY <1>1, <2>2, UpdateTradeStep, ReadPositionStep, WritePositionStep, HandlerThrowsStep DEF Handle
  <2> QED BY <1>1, <2>1, <2>2, ReceiveStep, LoseNoticeStep, SynchroniseStep, StutterStep DEF Next
<1> QED BY InitLedger, <1>1, PTL DEF Spec

-----------------------------------------------------------------------------
\* Nothing that was once disturbed is calm again, and the broker goes on counting as it did.
LEMMA StaysDisturbed ==
  ASSUME [Next]_vars
  PROVE  (Calm' => Calm) /\ cumulative' = cumulative
<1>. USE DEF Calm, Beside, Early, Trouble
<1>1. CASE \E o \in Order : Trading(o)
  BY <1>1 DEF Trading, Place, Fill, SaveTrade, broker, history
<1>2. CASE Receive \/ LoseNotice
  BY <1>2 DEF Receive, LoseNotice
<1>3. CASE \E n \in Notice : Handle(n) \/ HandlerThrows(n)
  BY <1>3 DEF Handle, UpdateTrade, ReadPosition, WritePosition, HandlerThrows, broker, history
<1>4. CASE Synchronise
  BY <1>4 DEF Synchronise, SyncFetch, SyncRefused, SyncRead, SyncWrite, SyncThrows, broker, history
<1>5. CASE UNCHANGED vars
  BY <1>5 DEF vars, broker, history
<1>. QED BY <1>1, <1>2, <1>3, <1>4, <1>5 DEF Next

\* In a calm step nothing is lost, and a handler begins alone, with its row there.
LEMMA CalmStep ==
  ASSUME Calm', Calm
  PROVE  /\ ~LoseNotice /\ ~SyncRefused /\ ~SyncThrows
         /\ \A n \in Notice : ~HandlerThrows(n)
         /\ Receive => /\ ~Syncing /\ (\A m \in Notice : ~Handling(m))
                       /\ Recorded(OrderOf(Head(inbox))) /\ GoTo(Head(inbox), "updating")
         /\ \A n \in Notice : ReadPosition(n) => Recorded(OrderOf(n))
         /\ \A o \in Order : Place(o) => ~Syncing
         /\ \A o \in Order : \A q \in 1..Size[o] : Fill(o, q) => ~Syncing
         /\ SyncFetch => AtRest
<1>. USE DEF Calm, Beside, Early, Trouble
<1>1. /\ ~LoseNotice /\ ~SyncRefused /\ ~SyncThrows
      /\ \A n \in Notice : ~HandlerThrows(n)
  BY DEF LoseNotice, SyncRefused, SyncThrows, HandlerThrows
<1>2. Receive => /\ ~Syncing /\ (\A m \in Notice : ~Handling(m))
                 /\ Recorded(OrderOf(Head(inbox))) /\ GoTo(Head(inbox), "updating")
  <2>. SUFFICES ASSUME Receive PROVE ~Syncing /\ (\A m \in Notice : ~Handling(m)) /\ Recorded(OrderOf(Head(inbox)))
    BY DEF Receive
  <2>1. \A m \in Notice : ~Handling(m)
    BY DEF Receive
  <2>2. IF Syncing THEN Beside(TRUE) ELSE Early(~Recorded(OrderOf(Head(inbox))))
    BY <2>1 DEF Receive
  <2>3. ~Syncing
    BY <2>2
  <2>. QED BY <2>1, <2>2, <2>3
<1>3. \A n \in Notice : ReadPosition(n) => Recorded(OrderOf(n))
  BY DEF ReadPosition
<1>4. \A o \in Order : Place(o) => ~Syncing
  BY DEF Place
<1>5. \A o \in Order : \A q \in 1..Size[o] : Fill(o, q) => ~Syncing
  BY DEF Fill
<1>6. SyncFetch => AtRest
  BY DEF SyncFetch
<1>. QED BY <1>1, <1>2, <1>3, <1>4, <1>5, <1>6

-----------------------------------------------------------------------------
\* Why the rows end up exact with totals: the last notice of an order tells what
\* is filled of it, and comes after the others.
Waits(o)   == \E i \in 1..Len(inbox) : OrderOf(inbox[i]) = o
Updated(o) == \E n \in Notice : handler[n] = "updating" /\ OrderOf(n) = o

LastTellsAll ==
  /\ \A i \in 1..Len(inbox) :
       \/ Total(inbox[i]) = filled[OrderOf(inbox[i])]
       \/ \E j \in (i + 1)..Len(inbox) : OrderOf(inbox[j]) = OrderOf(inbox[i])
  /\ \A n \in Notice :
       handler[n] = "updating" => Total(n) = filled[OrderOf(n)] \/ Waits(OrderOf(n))

NoneForgotten ==
  \A o \in Order :
    /\ Recorded(o) => Waits(o) \/ Updated(o) \/ RowExact(o)
    /\ filled[o] # NotPlaced /\ ~Recorded(o) => Waits(o)

RowsFollow == LastTellsAll /\ NoneForgotten
RowsInv    == Calm /\ cumulative => RowsFollow

\* A notice of an order is sent, with the total that is filled of it by now.
LEMMA SentFollows ==
  ASSUME LedgerInv, RowsFollow, NEW o \in Order, NEW k \in Nat, NEW n \in Notice,
         OrderOf(n) = o, Total(n) = k,
         filled' = [filled EXCEPT ![o] = k], inbox' = Append(inbox, n), UNCHANGED <<trade, handler>>
  PROVE  RowsFollow'
<1>0. /\ filled \in [Order -> {NotPlaced} \cup Nat] /\ inbox \in Seq(Notice) /\ handler \in [Notice -> HandlerStage]
      /\ filled'[o] = k /\ \A x \in Order : x # o => filled'[x] = filled[x]
  BY DEF LedgerInv, TypeOK
<1>. DEFINE m == Len(inbox)
<1>1. m \in Nat /\ Len(inbox') = m + 1 /\ inbox'[m + 1] = n /\ \A i \in 1..m : inbox'[i] = inbox[i]
  BY <1>0
<1>2. \A i \in 1..m : OrderOf(inbox[i]) \in Order
  BY <1>0, NoticeParts
<1>. HIDE DEF m
<1>3. Waits(o)' /\ \A x \in Order : Waits(x) => Waits(x)'
  BY <1>1 DEF Waits, m, OrderOf
<1>4. \A x \in Order : Updated(x) => Updated(x)'
  BY DEF Updated, OrderOf
<1>5. ASSUME NEW i \in 1..(m + 1)
      PROVE  \/ Total(inbox'[i]) = filled'[OrderOf(inbox'[i])]
             \/ \E j \in (i + 1)..(m + 1) : OrderOf(inbox'[j]) = OrderOf(inbox'[i])
  <2>1. CASE i = m + 1
    BY <2>1, <1>0, <1>1
  <2>2. CASE i # m + 1 /\ OrderOf(inbox[i]) = o
    <3>1. i \in 1..m /\ m + 1 \in (i + 1)..(m + 1) /\ OrderOf(inbox'[m + 1]) = OrderOf(inbox'[i])
      BY <2>2, <1>1
    <3>. QED BY <3>1
  <2>3. CASE i # m + 1 /\ OrderOf(inbox[i]) # o
    <3>1. i \in 1..m /\ inbox'[i] = inbox[i] /\ filled'[OrderOf(inbox[i])] = filled[OrderOf(inbox[i])]
      BY <2>3, <1>0, <1>1, <1>2
    <3>2. \/ Total(inbox[i]) = filled[OrderOf(inbox[i])]
          \/ \E j \in (i + 1)..m : OrderOf(inbox[j]) = OrderOf(inbox[i])
      BY <3>1 DEF RowsFollow, LastTellsAll, m
    <3>3. \A j \in (i + 1)..m : j \in (i + 1)..(m + 1) /\ inbox'[j] = inbox[j]
      BY <1>1
    <3>. QED BY <3>1, <3>2, <3>3
  <2>. QED BY <2>1, <2>2, <2>3
<1>6. ASSUME NEW x \in Notice, handler'[x] = "updating"
      PROVE  Total(x) = filled'[OrderOf(x)] \/ Waits(OrderOf(x))'
  <2>1. OrderOf(x) \in Order
    BY NoticeParts
  <2>2. Total(x) = filled[OrderOf(x)] \/ Waits(OrderOf(x))
    BY <1>6 DEF RowsFollow, LastTellsAll
  <2>. QED BY <2>1, <2>2, <1>0, <1>3
<1>7. LastTellsAll'
  BY <1>1, <1>5, <1>6 DEF LastTellsAll, OrderOf, Total
<1>8. ASSUME NEW x \in Order
      PROVE  /\ Recorded(x)' => Waits(x)' \/ Updated(x)' \/ RowExact(x)'
             /\ filled'[x] # NotPlaced /\ ~Recorded(x)' => Waits(x)'
  <2>1. CASE x = o
    BY <2>1, <1>3
  <2>2. CASE x # o
    <3>1. filled'[x] = filled[x] /\ trade'[x] = trade[x]
      BY <2>2, <1>0
    <3>2. (RowExact(x)' <=> RowExact(x)) /\ (Recorded(x)' <=> Recorded(x))
      BY <3>1 DEF RowExact, Recorded
    <3>. QED BY <3>1, <3>2, <1>3, <1>4 DEF RowsFollow, NoneForgotten
  <2>. QED BY <2>1, <2>2
<1>9. NoneForgotten'
  BY <1>8 DEF NoneForgotten
<1>. QED BY <1>7, <1>9 DEF RowsFollow

LEMMA TradingFollows ==
  ASSUME LedgerInv, RowsFollow, NEW o \in Order, Trading(o)
  PROVE  RowsFollow'
<1>1. CASE Place(o)
  <2>1. <<o, 0, 0>> \in Notice /\ OrderOf(<<o, 0, 0>>) = o /\ Total(<<o, 0, 0>>) = 0
    BY NoticeOf DEF OrderOf, Total
  <2>. QED BY <1>1, <2>1, SentFollows DEF Place
<1>2. CASE \E q \in 1..Size[o] : Fill(o, q)
  <2>1. PICK q \in 1..Size[o] : Fill(o, q)
    BY <1>2
  <2>. DEFINE n == <<o, q, filled[o] + q>>
  <2>2. n \in Notice /\ filled[o] + q \in Nat
    BY <2>1, FillSends
  <2>3. OrderOf(n) = o /\ Total(n) = filled[o] + q /\ inbox' = Append(inbox, n) /\ UNCHANGED <<trade, handler>>
        /\ filled' = [filled EXCEPT ![o] = filled[o] + q]
    BY <2>1 DEF OrderOf, Total, Fill
  <2>. HIDE DEF n
  <2>. QED BY <2>2, <2>3, SentFollows
<1>3. CASE SaveTrade(o)
  <2>1. filled[o] # NotPlaced /\ ~Recorded(o) /\ UNCHANGED <<filled, inbox, handler>>
    BY <1>3 DEF SaveTrade, broker
  <2>2. \A x \in Order : x # o => trade'[x] = trade[x]
    BY <1>3 DEF SaveTrade, LedgerInv, TypeOK
  <2>3. \A x \in Order : (Waits(x)' <=> Waits(x)) /\ (Updated(x)' <=> Updated(x))
    BY <2>1 DEF Waits, Updated, OrderOf
  <2>4. Waits(o)
    BY <2>1 DEF RowsFollow, NoneForgotten
  <2>5. \A x \in Order : x # o => (RowExact(x)' <=> RowExact(x)) /\ (Recorded(x)' <=> Recorded(x))
    BY <2>1, <2>2 DEF RowExact, Recorded
  <2>6. NoneForgotten'
    BY <2>1, <2>3, <2>4, <2>5 DEF RowsFollow, NoneForgotten
  <2>7. LastTellsAll'
    BY <2>1 DEF RowsFollow, LastTellsAll, Waits, OrderOf, Total
  <2>. QED BY <2>6, <2>7 DEF RowsFollow
<1>. QED BY <1>1, <1>2, <1>3 DEF Trading

\* The first notice becomes the one whose handler updates the row.
LEMMA ReceiveFollows ==
  ASSUME LedgerInv, RowsFollow, Receive, \A m \in Notice : ~Handling(m),
         Recorded(OrderOf(Head(inbox))), GoTo(Head(inbox), "updating")
  PROVE  RowsFollow'
<1>. PICK n : n = Head(inbox)
  OBVIOUS
<1>0. /\ inbox \in Seq(Notice) /\ inbox # <<>> /\ inbox' = Tail(inbox) /\ handler \in [Notice -> HandlerStage]
      /\ UNCHANGED <<filled, trade>>
  BY DEF LedgerInv, TypeOK, Receive
<1>1. /\ n \in Notice /\ 1 \in 1..Len(inbox) /\ n = inbox[1]
      /\ \A i \in 1..Len(inbox') : i + 1 \in 1..Len(inbox) /\ inbox'[i] = inbox[i + 1]
      /\ Len(inbox) \in Nat /\ Len(inbox') = Len(inbox) - 1
  BY <1>0
<1>2. \A i \in 2..Len(inbox) : i - 1 \in 1..Len(inbox') /\ inbox'[i - 1] = inbox[i]
  BY <1>0, <1>1
<1>3. handler'[n] = "updating" /\ \A x \in Notice : handler'[x] = "updating" => x = n
  BY <1>0, <1>1 DEF GoTo, Handling
<1>4. ASSUME NEW x, NEW i \in 2..Len(inbox), OrderOf(inbox[i]) = x PROVE Waits(x)'
  BY <1>2, <1>4 DEF Waits, OrderOf
<1>5. ASSUME NEW i \in 1..Len(inbox')
      PROVE  \/ Total(inbox'[i]) = filled'[OrderOf(inbox'[i])]
             \/ \E j \in (i + 1)..Len(inbox') : OrderOf(inbox'[j]) = OrderOf(inbox'[i])
  <2>1. i + 1 \in 1..Len(inbox) /\ inbox'[i] = inbox[i + 1]
    BY <1>1
  <2>2. \/ Total(inbox[i + 1]) = filled[OrderOf(inbox[i + 1])]
        \/ \E j \in ((i + 1) + 1)..Len(inbox) : OrderOf(inbox[j]) = OrderOf(inbox[i + 1])
    BY <2>1 DEF RowsFollow, LastTellsAll
  <2>3. CASE Total(inbox[i + 1]) = filled[OrderOf(inbox[i + 1])]
    BY <2>1, <2>3, <1>0
  <2>4. CASE \E j \in ((i + 1) + 1)..Len(inbox) : OrderOf(inbox[j]) = OrderOf(inbox[i + 1])
    <3>1. PICK j \in ((i + 1) + 1)..Len(inbox) : OrderOf(inbox[j]) = OrderOf(inbox[i + 1])
      BY <2>4
    <3>2. j - 1 \in (i + 1)..Len(inbox') /\ j \in 2..Len(inbox)
      BY <3>1, <1>1
    <3>. QED BY <2>1, <3>1, <3>2, <1>2
  <2>. QED BY <2>2, <2>3, <2>4
<1>6. Total(n) = filled'[OrderOf(n)] \/ Waits(OrderOf(n))'
  <2>1. \/ Total(n) = filled[OrderOf(n)]
        \/ \E j \in (1 + 1)..Len(inbox) : OrderOf(inbox[j]) = OrderOf(n)
    BY <1>1 DEF RowsFollow, LastTellsAll
  <2>2. \A j \in (1 + 1)..Len(inbox) : j \in 2..Len(inbox)
    OBVIOUS
  <2>. QED BY <2>1, <2>2, <1>0, <1>4 DEF OrderOf
<1>7. LastTellsAll'
  <2>1. \A x \in Notice : handler'[x] = "updating" => Total(x) = filled'[OrderOf(x)] \/ Waits(OrderOf(x))'
    BY <1>3, <1>6
  <2>. QED BY <1>5, <2>1 DEF LastTellsAll, OrderOf, Total
<1>8. ASSUME NEW x \in Order, Waits(x) PROVE Waits(x)' \/ x = OrderOf(n)
  <2>1. PICK i \in 1..Len(inbox) : OrderOf(inbox[i]) = x
    BY <1>8 DEF Waits
  <2>2. i = 1 \/ i \in 2..Len(inbox)
    BY <1>1
  <2>. QED BY <2>1, <2>2, <1>1, <1>4
<1>9. Updated(OrderOf(n))'
  BY <1>1, <1>3 DEF Updated, OrderOf
<1>10. \A x \in Order : ~Updated(x)
  BY DEF Updated, Handling
<1>11. \A x \in Order : (RowExact(x)' <=> RowExact(x)) /\ (Recorded(x)' <=> Recorded(x))
  BY <1>0 DEF RowExact, Recorded
<1>12. Recorded(OrderOf(n))
  OBVIOUS
<1>13. NoneForgotten'
  BY <1>0, <1>8, <1>9, <1>10, <1>11, <1>12 DEF RowsFollow, NoneForgotten
<1>. QED BY <1>7, <1>13 DEF RowsFollow

\* The row that is written from the last notice is exact.
LEMMA HandleFollows ==
  ASSUME LedgerInv, RowsFollow, cumulative, NEW n \in Notice, Handle(n)
  PROVE  RowsFollow'
<1>0. handler \in [Notice -> HandlerStage] /\ UNCHANGED <<filled, inbox>>
  BY DEF LedgerInv, TypeOK, Handle, UpdateTrade, ReadPosition, WritePosition, broker
<1>1. \A x \in Order : Waits(x)' <=> Waits(x)
  BY <1>0 DEF Waits, OrderOf
<1>2. \A x \in Notice : handler'[x] = "updating" => handler[x] = "updating"
  BY <1>0 DEF Handle, UpdateTrade, ReadPosition, WritePosition, GoTo
<1>3. LastTellsAll'
  <2>1. \A x \in Notice : OrderOf(x) \in Order
    BY NoticeParts
  <2>2. \A x \in Notice : handler'[x] = "updating" => Total(x) = filled'[OrderOf(x)] \/ Waits(OrderOf(x))'
    BY <1>0, <1>1, <1>2, <2>1 DEF RowsFollow, LastTellsAll
  <2>. QED BY <1>0, <2>2 DEF RowsFollow, LastTellsAll, OrderOf, Total
<1>4. CASE UpdateTrade(n)
  <2>. DEFINE o == OrderOf(n)
  <2>1. /\ o \in Order /\ Size[o] \in Nat /\ Size[o] > 0 /\ Total(n) \in Nat
    BY NoticeParts, SizeTyped
  <2>2. /\ trade'[o].filledQuantity = Total(n)
        /\ trade'[o].status = StatusFor(Total(n), Size[o], Complete(n))
        /\ \A x \in Order : x # o => trade'[x] = trade[x]
    BY <1>4, <2>1 DEF UpdateTrade, LedgerInv, TypeOK, Report
  <2>3. Waits(o) \/ RowExact(o)'
    <3>1. Total(n) = filled[o] \/ Waits(o)
      BY <1>4 DEF UpdateTrade, RowsFollow, LastTellsAll
    <3>2. Total(n) = Size[o] => StatusFor(Total(n), Size[o], Complete(n)) = "FILLED"
      BY <2>1 DEF StatusFor
    <3>. QED BY <3>1, <3>2, <2>1, <2>2, <1>0 DEF RowExact
  <2>4. Recorded(o)'
    BY <2>2, StatusTyped DEF Recorded
  <2>. HIDE DEF o
  <2>5. ASSUME NEW x \in Order, x # o
        PROVE  (Updated(x) => Updated(x)') /\ (RowExact(x)' <=> RowExact(x)) /\ (Recorded(x)' <=> Recorded(x))
    <3>1. \A m \in Notice : OrderOf(m) = x => handler'[m] = handler[m]
      BY <1>0, <1>4, <2>5 DEF UpdateTrade, GoTo, o
    <3>. QED BY <3>1, <2>2, <2>5, <1>0 DEF Updated, RowExact, Recorded, OrderOf
  <2>6. NoneForgotten'
    <3>. SUFFICES ASSUME NEW x \in Order
                  PROVE  /\ Recorded(x)' => Waits(x)' \/ Updated(x)' \/ RowExact(x)'
                         /\ filled'[x] # NotPlaced /\ ~Recorded(x)' => Waits(x)'
      BY DEF NoneForgotten
    <3>1. CASE x = o
      BY <3>1, <2>3, <2>4, <1>1
    <3>2. CASE x # o
      BY <3>2, <2>5, <1>0, <1>1 DEF RowsFollow, NoneForgotten
    <3>. QED BY <3>1, <3>2
  <2>. QED BY <1>3, <2>6 DEF RowsFollow
<1>5. CASE ReadPosition(n) \/ WritePosition(n)
  <2>1. UNCHANGED trade /\ \A m \in Notice : handler[m] = "updating" => handler'[m] = "updating"
    BY <1>0, <1>5 DEF ReadPosition, WritePosition, GoTo
  <2>2. \A x \in Order : (Updated(x) => Updated(x)') /\ (RowExact(x)' <=> RowExact(x)) /\ (Recorded(x)' <=> Recorded(x))
    BY <1>0, <2>1 DEF Updated, RowExact, Recorded, OrderOf
  <2>3. NoneForgotten'
    BY <1>0, <1>1, <2>2 DEF RowsFollow, NoneForgotten
  <2>. QED BY <1>3, <2>3 DEF RowsFollow
<1>. QED BY <1>4, <1>5 DEF Handle

\* A step that leaves the notices and the rows alone.
LEMMA RowsQuiet ==
  ASSUME RowsFollow, UNCHANGED <<filled, inbox, trade, handler>>
  PROVE  RowsFollow'
BY DEF RowsFollow, LastTellsAll, NoneForgotten, Waits, Updated, RowExact, Recorded, OrderOf, Total

LEMMA InitRows == Init => RowsFollow
<1>. SUFFICES ASSUME Init PROVE RowsFollow
  OBVIOUS
<1>1. Len(inbox) = 0 /\ \A n \in Notice : handler[n] = "none"
  BY DEF Init
<1>2. \A o \in Order : ~Recorded(o) /\ filled[o] = NotPlaced
  BY DEF Init, Recorded
<1>. QED BY <1>1, <1>2 DEF RowsFollow, LastTellsAll, NoneForgotten

LEMMA NextRows ==
  ASSUME LedgerInv, RowsInv, [Next]_vars
  PROVE  RowsInv'
<1>. SUFFICES ASSUME Calm', cumulative' PROVE RowsFollow'
  BY DEF RowsInv
<1>0. Calm /\ cumulative /\ RowsFollow
  BY StaysDisturbed DEF RowsInv
<1>1. CASE \E o \in Order : Trading(o)
  BY <1>0, <1>1, TradingFollows
<1>2. CASE Receive
  BY <1>0, <1>2, CalmStep, ReceiveFollows
<1>3. CASE \E n \in Notice : Handle(n)
  BY <1>0, <1>3, HandleFollows
<1>4. CASE LoseNotice \/ \E n \in Notice : HandlerThrows(n)
  BY <1>0, <1>4, CalmStep
<1>5. CASE Synchronise
  BY <1>0, <1>5, RowsQuiet DEF Synchronise, SyncFetch, SyncRefused, SyncRead, SyncWrite, SyncThrows, broker
<1>6. CASE UNCHANGED vars
  BY <1>0, <1>6, RowsQuiet DEF vars, broker
<1>. QED BY <1>1, <1>2, <1>3, <1>4, <1>5, <1>6 DEF Next

\* updateTradeStatus (realtime-event-handler.service.ts:202), for any orders and
\* sizes, fills of any amounts and any number of handlers at a time: a Trade row
\* never claims more than the broker has filled, and with totals that are handled
\* one after the other, in time and none lost, it ends up with what was filled.
THEOREM TradeRowsFollowBroker == Spec => []TradeFollowsBroker
<1>1. LedgerInv /\ RowsInv => TradeFollowsBroker
  <2>. SUFFICES ASSUME LedgerInv, RowsInv, cumulative, Calm, AtRest, NEW o \in Order, Recorded(o)
                PROVE  RowExact(o)
    BY DEF TradeFollowsBroker, LedgerInv, RowsNotAhead
  <2>1. Len(inbox) = 0 /\ \A n \in Notice : handler[n] # "updating"
    BY DEF AtRest, Handling
  <2>2. ~Waits(o) /\ ~Updated(o)
    BY <2>1 DEF Waits, Updated
  <2>. QED BY <2>2 DEF RowsInv, RowsFollow, NoneForgotten
<1>2. Init => RowsInv
  BY InitRows DEF RowsInv
<1>3. LedgerInv /\ RowsInv /\ [Next]_vars => RowsInv'
  BY NextRows
<1> QED BY <1>1, <1>2, <1>3, LedgerInvariant, PTL DEF Spec

-----------------------------------------------------------------------------
\* What a notice does to the holding it tells of, and to the Position.
Effect(n) == IF OrderOf(n) \in Buys THEN Amount(n) ELSE 0 - Amount(n)

\* The holdings the account went through: h[i] is what it held when the first i
\* notices of the inbox had been sent.
Went(h) ==
  /\ h \in [0..Len(inbox) -> Nat]
  /\ h[Len(inbox)] = holding
  /\ \A i \in 1..Len(inbox) : h[i] = h[i - 1] + Effect(inbox[i])

\* The Position is at b, but for the notice that is being handled.
At(b) ==
  /\ \A n \in Notice : Handling(n) => b = position.quantity + Effect(n)
  /\ (\A n \in Notice : ~Handling(n)) => b = position.quantity

BooksFollow == \E h \in [0..Len(inbox) -> Nat] : Went(h) /\ At(h[0])

OneHandler == \A m, n \in Notice : Handling(m) /\ Handling(n) => m = n

\* What was read of the Position is still there when it is written.
ReadsHold ==
  /\ \A n \in Notice : handler[n] = "writing" => seen[n] = position
  /\ sync.stage = "writing" => sync.seen = position

SyncAtRest ==
  Syncing => /\ AtRest
             /\ sync.holding = holding \/ (sync.holding = NotListed /\ holding = 0)

Exact   == BooksFollow /\ OneHandler /\ ReadsHold /\ SyncAtRest
CalmInv == Calm /\ ~cumulative => Exact

-----------------------------------------------------------------------------
\* With amounts, what a handler adds or takes away is the effect of its notice.
LEMMA ReportIsEffect ==
  ASSUME ~cumulative, NEW n \in Notice
  PROVE  /\ Effect(n) \in Int /\ Report(n) \in Nat
         /\ OrderOf(n) \in Buys => Effect(n) = Report(n)
         /\ OrderOf(n) \notin Buys => Effect(n) = - Report(n)
BY NoticeParts DEF Effect, Report

\* A notice is sent with the fill it tells of.
LEMMA WentOn ==
  ASSUME inbox \in Seq(Notice), NEW h, Went(h), NEW n \in Notice, inbox' = Append(inbox, n),
         Effect(n) \in Int, holding' = holding + Effect(n), holding' \in Nat
  PROVE  \E g \in [0..Len(inbox') -> Nat] : Went(g)' /\ g[0] = h[0]
<1>. DEFINE m == Len(inbox)
<1>1. m \in Nat /\ Len(inbox') = m + 1 /\ inbox'[m + 1] = n /\ \A i \in 1..m : inbox'[i] = inbox[i]
  OBVIOUS
<1>2. h \in [0..m -> Nat] /\ h[m] = holding /\ \A i \in 1..m : h[i] = h[i - 1] + Effect(inbox[i])
  BY DEF Went
<1>. HIDE DEF m
<1>. PICK g : g = [i \in 0..(m + 1) |-> IF i = m + 1 THEN holding' ELSE h[i]]
  OBVIOUS
<1>3. g \in [0..(m + 1) -> Nat] /\ g[m + 1] = holding' /\ g[0] = h[0]
  BY <1>1, <1>2
<1>4. ASSUME NEW i \in 1..(m + 1) PROVE g[i] = g[i - 1] + Effect(inbox'[i])
  <2>1. CASE i = m + 1
    BY <2>1, <1>1, <1>2
  <2>2. CASE i # m + 1
    <3>1. i \in 1..m /\ g[i] = h[i] /\ g[i - 1] = h[i - 1] /\ inbox'[i] = inbox[i]
      BY <2>2, <1>1
    <3>. QED BY <3>1, <1>2
  <2>. QED BY <2>1, <2>2
<1>5. Went(g)'
  BY <1>1, <1>3, <1>4 DEF Went, Effect, OrderOf, Amount
<1>. QED BY <1>1, <1>3, <1>5

\* The notice that is taken is from then on the one that is handled.
LEMMA WentBack ==
  ASSUME inbox \in Seq(Notice), inbox # <<>>, NEW h, Went(h), inbox' = Tail(inbox), UNCHANGED holding
  PROVE  /\ Head(inbox) \in Notice
         /\ \E g \in [0..Len(inbox') -> Nat] : Went(g)' /\ g[0] = h[0] + Effect(Head(inbox))
<1>. DEFINE m == Len(inbox)
<1>1. m \in Nat \ {0} /\ Len(inbox') = m - 1 /\ Head(inbox) = inbox[1] /\ Head(inbox) \in Notice
  OBVIOUS
<1>2. \A i \in 1..(m - 1) : inbox'[i] = inbox[i + 1]
  OBVIOUS
<1>3. h \in [0..m -> Nat] /\ h[m] = holding /\ \A i \in 1..m : h[i] = h[i - 1] + Effect(inbox[i])
  BY DEF Went
<1>. HIDE DEF m
<1>. PICK g : g = [i \in 0..(m - 1) |-> h[i + 1]]
  OBVIOUS
<1>4. g \in [0..(m - 1) -> Nat] /\ g[m - 1] = holding /\ g[0] = h[1]
  BY <1>1, <1>3
<1>5. ASSUME NEW i \in 1..(m - 1) PROVE g[i] = g[i - 1] + Effect(inbox'[i])
  <2>1. i + 1 \in 1..m /\ g[i] = h[i + 1] /\ g[i - 1] = h[i]
    BY <1>1
  <2>2. h[i + 1] = h[(i + 1) - 1] + Effect(inbox[i + 1])
    BY <2>1, <1>3
  <2>3. (i + 1) - 1 = i
    OBVIOUS
  <2>4. inbox'[i] = inbox[i + 1]
    BY <1>2
  <2>. QED BY <2>1, <2>2, <2>3, <2>4
<1>6. Went(g)'
  BY <1>1, <1>4, <1>5 DEF Went, Effect, OrderOf, Amount
<1>7. h[1] = h[0] + Effect(inbox[1])
  <2>1. 1 \in 1..m
    BY <1>1
  <2>. QED BY <2>1, <1>3
<1>. QED BY <1>1, <1>4, <1>6, <1>7

-----------------------------------------------------------------------------
LEMMA InitExact == Init => Exact
<1>. SUFFICES ASSUME Init PROVE Exact
  OBVIOUS
<1>1. inbox = <<>> /\ Len(inbox) = 0 /\ holding = 0 /\ position.quantity = 0 /\ ~Syncing /\ sync.stage = "idle"
  BY DEF Init, NoPosition, Syncing
<1>2. \A n \in Notice : handler[n] = "none" /\ ~Handling(n)
  BY DEF Init, Handling
<1>3. BooksFollow
  <2>. DEFINE h == [i \in 0..0 |-> 0]
  <2>1. h \in [0..Len(inbox) -> Nat] /\ h[0] = 0
    BY <1>1
  <2>2. Went(h)
    BY <1>1, <2>1 DEF Went
  <2>3. At(h[0])
    BY <1>1, <1>2 DEF At
  <2>. QED BY <2>1, <2>2, <2>3 DEF BooksFollow
<1>. QED BY <1>1, <1>2, <1>3 DEF Exact, OneHandler, ReadsHold, SyncAtRest

\* A step that sends nothing, handles nothing and leaves the Position alone.
LEMMA QuietStep ==
  ASSUME LedgerInv, Exact,
         UNCHANGED <<holding, inbox, position, sync>>,
         \A n \in Notice : Handling(n)' <=> Handling(n),
         \A n \in Notice : handler'[n] = "writing" => seen'[n] = position
  PROVE  Exact'
<1>1. BooksFollow'
  <2>. PICK h \in [0..Len(inbox) -> Nat] : Went(h) /\ At(h[0])
    BY DEF Exact, BooksFollow
  <2>1. Went(h)'
    BY DEF Went, Effect, OrderOf, Amount
  <2>2. At(h[0])'
    BY DEF At, Effect, OrderOf, Amount
  <2>. QED BY <2>1, <2>2 DEF BooksFollow
<1>2. OneHandler' /\ ReadsHold' /\ SyncAtRest'
  BY DEF Exact, OneHandler, ReadsHold, SyncAtRest, AtRest, Syncing
<1>. QED BY <1>1, <1>2 DEF Exact

\* A notice is sent.
LEMMA SendStep ==
  ASSUME ~cumulative, LedgerInv, Exact, NEW n \in Notice, inbox' = Append(inbox, n),
         holding' = holding + Effect(n), holding' \in Nat, ~Syncing,
         UNCHANGED <<position, handler, seen, sync>>
  PROVE  Exact'
<1>1. inbox \in Seq(Notice) /\ Effect(n) \in Int
  BY ReportIsEffect DEF LedgerInv, TypeOK
<1>2. PICK h \in [0..Len(inbox) -> Nat] : Went(h) /\ At(h[0])
  BY DEF Exact, BooksFollow
<1>3. PICK g \in [0..Len(inbox') -> Nat] : Went(g)' /\ g[0] = h[0]
  BY <1>1, <1>2, WentOn
<1>4. At(g[0])'
  BY <1>2, <1>3 DEF At, Effect, OrderOf, Amount, Handling
<1>5. BooksFollow'
  BY <1>3, <1>4 DEF BooksFollow
<1>. QED BY <1>5 DEF Exact, OneHandler, ReadsHold, SyncAtRest, Syncing, Handling

\* The broker's steps send the notice of what they do; the row that is saved is no fill.
LEMMA TradingExact ==
  ASSUME ~cumulative, LedgerInv, Exact, NEW o \in Order, Trading(o), Calm', Calm
  PROVE  Exact'
<1>0. holding \in Nat
  BY DEF LedgerInv, TypeOK
<1>1. CASE Place(o)
  <2>. DEFINE n == <<o, 0, 0>>
  <2>1. n \in Notice /\ Effect(n) = 0
    <3>1. n \in Notice /\ Amount(n) = 0
      BY NoticeOf DEF Amount
    <3>. QED BY <3>1 DEF Effect
  <2>2. ~Syncing /\ inbox' = Append(inbox, n) /\ holding' = holding /\ UNCHANGED <<position, handler, seen, sync>>
    BY <1>1, CalmStep DEF Place
  <2>. HIDE DEF n
  <2>. QED BY <1>0, <2>1, <2>2, SendStep
<1>2. CASE \E q \in 1..Size[o] : Fill(o, q)
  <2>1. PICK q \in 1..Size[o] : Fill(o, q)
    BY <1>2
  <2>. DEFINE n == <<o, q, filled[o] + q>>
  <2>2. n \in Notice /\ OrderOf(n) = o /\ Amount(n) = q /\ q \in Nat
        /\ holding' \in Nat /\ holding' = IF o \in Buys THEN holding + q ELSE holding - q
    BY <2>1, FillSends DEF OrderOf, Amount
  <2>3. ~Syncing /\ inbox' = Append(inbox, n) /\ UNCHANGED <<position, handler, seen, sync>>
    BY <2>1, CalmStep DEF Fill
  <2>. HIDE DEF n
  <2>4. holding' = holding + Effect(n)
    BY <1>0, <2>2 DEF Effect
  <2>. QED BY <2>2, <2>3, <2>4, SendStep
<1>3. CASE SaveTrade(o)
  BY <1>3, QuietStep DEF SaveTrade, broker, Handling, Exact, ReadsHold
<1>. QED BY <1>1, <1>2, <1>3 DEF Trading

\* The holding that the first notice tells of becomes the next the Position is to reach.
LEMMA ReceiveExact ==
  ASSUME LedgerInv, Exact, Receive, Calm', Calm
  PROVE  Exact'
<1>. DEFINE n == Head(inbox)
<1>0. /\ inbox \in Seq(Notice) /\ inbox # <<>> /\ n \in Notice /\ handler \in [Notice -> HandlerStage]
      /\ holding' = holding /\ position' = position /\ sync' = sync /\ seen' = seen
  BY DEF LedgerInv, TypeOK, Receive
<1>1. ~Syncing /\ \A m \in Notice : ~Handling(m)
  BY CalmStep
<1>2. Recorded(OrderOf(n)) /\ handler' = [handler EXCEPT ![n] = "updating"]
  BY CalmStep DEF GoTo
<1>3. \A m \in Notice : Handling(m)' <=> m = n
  BY <1>0, <1>1, <1>2 DEF Handling
<1>4. PICK h \in [0..Len(inbox) -> Nat] : Went(h) /\ At(h[0])
  BY DEF Exact, BooksFollow
<1>5. PICK g \in [0..Len(inbox') -> Nat] : Went(g)' /\ g[0] = h[0] + Effect(n)
  BY <1>0, <1>4, WentBack DEF Receive
<1>6. h[0] = position.quantity
  BY <1>1, <1>4 DEF At
<1>7. At(g[0])'
  BY <1>0, <1>3, <1>5, <1>6 DEF At, Effect, OrderOf, Amount
<1>8. BooksFollow'
  BY <1>5, <1>7 DEF BooksFollow
<1>9. OneHandler' /\ ReadsHold' /\ SyncAtRest'
  BY <1>0, <1>1, <1>2, <1>3 DEF OneHandler, ReadsHold, SyncAtRest, Syncing, Exact
<1>. QED BY <1>8, <1>9 DEF Exact

\* What a handler writes on the Position that is there is the effect of its notice,
\* if there is as much as it takes away.
LEMMA EffectWritten ==
  ASSUME ~cumulative, TypeOK, NEW n \in Notice, position.quantity + Effect(n) >= 0,
         IF OrderOf(n) \in Buys THEN Bought(position, Report(n)) ELSE Sold(position, Report(n))
  PROVE  position'.quantity = position.quantity + Effect(n)
<1>1. /\ position \in Position /\ position.quantity \in Nat
      /\ (position.id = None => position.quantity = 0) /\ Report(n) \in Nat
  BY ReportIsEffect DEF TypeOK, Position
<1>2. CASE OrderOf(n) \in Buys
  <2>1. Effect(n) = Report(n)
    BY <1>2, ReportIsEffect
  <2>2. CASE position.id # None
    <3>1. position' = [position EXCEPT !.quantity = position.quantity + Report(n)]
      BY <1>2, <2>2 DEF Bought, UpdateRow
    <3>. QED BY <1>1, <2>1, <3>1 DEF Position
  <2>3. CASE position.id = None
    <3>1. \E i \in 1..MaxRowId : position' = [id |-> i, quantity |-> Report(n)]
      BY <1>2, <2>3 DEF Bought, CreateRow, FreshRow
    <3>. QED BY <1>1, <2>1, <2>3, <3>1
  <2>. QED BY <2>2, <2>3
<1>3. CASE OrderOf(n) \notin Buys
  <2>1. Effect(n) = - Report(n) /\ Sold(position, Report(n))
    BY <1>3, ReportIsEffect
  <2>2. CASE position.id # None /\ position.quantity > Report(n)
    <3>1. position' = [position EXCEPT !.quantity = position.quantity - Report(n)]
      BY <1>1, <2>1, <2>2 DEF Sold, UpdateRow
    <3>. QED BY <1>1, <2>1, <3>1 DEF Position
  <2>3. CASE position.id # None /\ position.quantity = Report(n)
    <3>1. position' = NoPosition
      BY <1>1, <2>1, <2>3 DEF Sold, DeleteRow
    <3>. QED BY <1>1, <2>1, <2>3, <3>1 DEF NoPosition
  <2>4. CASE position.id = None
    <3>1. position' = position
      BY <2>1, <2>4 DEF Sold
    <3>. QED BY <1>1, <2>1, <2>4, <3>1
  <2>5. position.quantity >= Report(n)
    BY <1>1, <2>1
  <2>. QED BY <1>1, <2>2, <2>3, <2>4, <2>5
<1>. QED BY <1>2, <1>3

\* A handler that runs alone writes on the Position it has read.
LEMMA HandleExact ==
  ASSUME ~cumulative, LedgerInv, Exact, NEW n \in Notice, Handle(n), Calm', Calm
  PROVE  Exact'
<1>0. TypeOK /\ handler \in [Notice -> HandlerStage] /\ seen \in [Notice -> Position]
  BY DEF LedgerInv, TypeOK
<1>1. CASE UpdateTrade(n)
  <2>1. \A m \in Notice : (Handling(m)' <=> Handling(m)) /\ (handler'[m] = "writing" => handler[m] = "writing")
    BY <1>0, <1>1 DEF UpdateTrade, GoTo, Handling
  <2>. QED BY <1>1, <2>1, QuietStep DEF UpdateTrade, broker, Exact, ReadsHold
<1>2. CASE ReadPosition(n)
  <2>1. handler' = [handler EXCEPT ![n] = "writing"] /\ seen' = [seen EXCEPT ![n] = position] /\ handler[n] = "looking"
    BY <1>2, CalmStep DEF ReadPosition, GoTo
  <2>2. \A m \in Notice : (Handling(m)' <=> Handling(m)) /\ (handler'[m] = "writing" => seen'[m] = position)
    BY <1>0, <2>1 DEF Handling, Exact, ReadsHold
  <2>. QED BY <1>2, <2>2, QuietStep DEF ReadPosition, broker
<1>3. CASE WritePosition(n)
  <2>1. /\ Handling(n) /\ seen[n] = position /\ UNCHANGED <<inbox, holding, sync>>
        /\ handler' = [handler EXCEPT ![n] = "none"]
    BY <1>3 DEF WritePosition, Handling, Exact, ReadsHold, broker, GoTo
  <2>2. \A m \in Notice : ~Handling(m)' /\ handler'[m] # "writing"
    BY <1>0, <2>1 DEF Handling, Exact, OneHandler
  <2>3. ~Syncing
    BY <2>1 DEF Exact, SyncAtRest, AtRest
  <2>4. PICK h \in [0..Len(inbox) -> Nat] : Went(h) /\ At(h[0])
    BY DEF Exact, BooksFollow
  <2>5. h[0] = position.quantity + Effect(n) /\ h[0] \in Nat
    BY <2>1, <2>4 DEF At
  <2>6. position'.quantity = h[0]
    BY <1>0, <1>3, <2>1, <2>5, EffectWritten DEF WritePosition
  <2>7. Went(h)' /\ At(h[0])'
    BY <2>1, <2>2, <2>4, <2>6 DEF Went, At, Effect, OrderOf, Amount
  <2>8. BooksFollow'
    BY <2>1, <2>4, <2>7 DEF BooksFollow
  <2>9. OneHandler' /\ ReadsHold' /\ SyncAtRest'
    BY <2>1, <2>2, <2>3 DEF OneHandler, ReadsHold, SyncAtRest, Syncing
  <2>. QED BY <2>8, <2>9 DEF Exact
<1>. QED BY <1>1, <1>2, <1>3 DEF Handle

\* At rest the Position is what the account holds.
LEMMA RestExact == ASSUME BooksFollow, AtRest PROVE position.quantity = holding
<1>1. PICK h \in [0..Len(inbox) -> Nat] : Went(h) /\ At(h[0])
  BY DEF BooksFollow
<1>2. Len(inbox) = 0 /\ \A n \in Notice : ~Handling(n)
  BY DEF AtRest
<1>. QED BY <1>1, <1>2 DEF Went, At

\* A step of the synchronisation that leaves the Position at the holding.
LEMMA SyncExact ==
  ASSUME LedgerInv, Exact, AtRest, UNCHANGED <<inbox, holding, handler, seen>>,
         position'.quantity = holding, sync'.stage = "writing" => sync'.seen = position',
         sync'.stage = "idle" \/ sync'.holding = holding \/ (sync'.holding = NotListed /\ holding = 0)
  PROVE  Exact'
<1>1. AtRest' /\ \A n \in Notice : ~Handling(n)' /\ handler'[n] # "writing"
  BY DEF AtRest, Handling
<1>2. PICK h \in [0..Len(inbox) -> Nat] : Went(h) /\ At(h[0])
  BY DEF Exact, BooksFollow
<1>3. h[0] = holding
  BY <1>2, RestExact DEF Exact, AtRest, At
<1>4. Went(h)' /\ At(h[0])'
  BY <1>1, <1>2, <1>3 DEF Went, At, Effect, OrderOf, Amount
<1>5. BooksFollow'
  BY <1>2, <1>4 DEF BooksFollow
<1>. QED BY <1>1, <1>5 DEF Exact, OneHandler, ReadsHold, SyncAtRest, Syncing

\* The synchronisation begins at rest, and nothing happens while it is under way.
LEMMA SynchroniseExact ==
  ASSUME LedgerInv, Exact, Synchronise, Calm', Calm
  PROVE  Exact'
<1>0. /\ position \in Position /\ position.id = None => position.quantity = 0
      /\ Exact => BooksFollow /\ SyncAtRest /\ ReadsHold
      /\ holding \in Nat
      /\ sync \in [stage : {"idle", "fetched", "writing"}, holding : {NotListed} \cup Nat, seen : Position]
  BY DEF LedgerInv, TypeOK, Exact
<1>1. CASE SyncFetch
  <2>1. AtRest
    BY <1>1, CalmStep
  <2>2. \E h : sync' = [sync EXCEPT !.stage = "fetched", !.holding = h]
                /\ (h = holding \/ (h = NotListed /\ holding = 0))
    BY <1>1 DEF SyncFetch
  <2>3. sync'.stage = "fetched" /\ (sync'.holding = holding \/ (sync'.holding = NotListed /\ holding = 0))
    BY <1>0, <2>2
  <2>. QED BY <1>0, <1>1, <2>1, <2>3, RestExact, SyncExact DEF SyncFetch, broker
<1>2. CASE SyncRefused \/ SyncThrows
  BY <1>2, CalmStep
<1>3. CASE SyncRead
  <2>1. /\ sync.stage = "fetched" /\ sync'.stage = "writing" /\ sync'.seen = position
        /\ sync'.holding = sync.holding /\ position' = position
    BY <1>0, <1>3 DEF SyncRead
  <2>2. AtRest /\ (sync.holding = holding \/ (sync.holding = NotListed /\ holding = 0))
    BY <1>0, <2>1 DEF SyncAtRest, Syncing
  <2>. QED BY <1>0, <1>3, <2>1, <2>2, RestExact, SyncExact DEF SyncRead, broker
<1>4. CASE SyncWrite
  <2>1. sync.stage = "writing" /\ sync.seen = position /\ SyncPosition(position, sync.holding) /\ sync'.stage = "idle"
    BY <1>0, <1>4 DEF SyncWrite, ReadsHold, SyncEnds
  <2>2. AtRest /\ (sync.holding = holding \/ (sync.holding = NotListed /\ holding = 0))
    BY <1>0, <2>1 DEF SyncAtRest, Syncing
  <2>3. position'.quantity = holding
    <3>1. CASE sync.holding = NotListed
      <4>1. holding = 0
        BY <1>0, <2>2, <3>1 DEF NotListed
      <4>. QED BY <1>0, <2>1, <3>1, <4>1 DEF SyncPosition, DeleteRow, NoPosition
    <3>2. CASE sync.holding # NotListed /\ position.id # None
      <4>1. position' = [position EXCEPT !.quantity = sync.holding]
        BY <2>1, <3>2 DEF SyncPosition, UpdateRow
      <4>. QED BY <1>0, <2>2, <3>2, <4>1 DEF Position
    <3>3. CASE sync.holding # NotListed /\ position.id = None
      <4>1. \E i \in 1..MaxRowId : position' = [id |-> i, quantity |-> sync.holding]
        BY <2>1, <3>3 DEF SyncPosition, CreateRow, FreshRow
      <4>. QED BY <2>2, <3>3, <4>1
    <3>. QED BY <3>1, <3>2, <3>3
  <2>. QED BY <1>4, <2>1, <2>2, <2>3, SyncExact DEF SyncWrite, broker
<1>. QED BY <1>1, <1>2, <1>3, <1>4 DEF Synchronise

\* One step, whichever it is, keeps the books exact as long as they are calm.
LEMMA NextExact ==
  ASSUME LedgerInv, CalmInv, [Next]_vars
  PROVE  CalmInv'
<1>. SUFFICES ASSUME Calm', ~cumulative' PROVE Exact'
  BY DEF CalmInv
<1>0. Calm /\ ~cumulative /\ Exact
  BY StaysDisturbed DEF CalmInv
<1>1. CASE \E o \in Order : Trading(o)
  BY <1>0, <1>1, TradingExact
<1>2. CASE Receive
  BY <1>0, <1>2, ReceiveExact
<1>3. CASE \E n \in Notice : Handle(n)
  BY <1>0, <1>3, HandleExact
<1>4. CASE LoseNotice \/ \E n \in Notice : HandlerThrows(n)
  BY <1>0, <1>4, CalmStep
<1>5. CASE Synchronise
  BY <1>0, <1>5, SynchroniseExact
<1>6. CASE UNCHANGED vars
  BY <1>0, <1>6, QuietStep DEF vars, broker, Handling, Exact, ReadsHold
<1>. QED BY <1>1, <1>2, <1>3, <1>4, <1>5, <1>6 DEF Next

\* For any orders, sizes, fills, handlers and rows: if notices tell amounts, then
\* as long as nothing was lost, refused, early or overlapped, the Position is
\* what the account holds whenever all notices are handled.
THEOREM PositionFollowsHolding == Spec => []PositionExact
<1>1. CalmInv => PositionExact
  BY RestExact DEF CalmInv, Exact, PositionExact
<1>2. Init => CalmInv
  BY InitExact DEF CalmInv
<1>3. LedgerInv /\ CalmInv /\ [Next]_vars => CalmInv'
  BY NextExact
<1>. QED BY <1>1, <1>2, <1>3, LedgerInvariant, PTL DEF Spec
=============================================================================
