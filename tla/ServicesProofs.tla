--------------------------- MODULE ServicesProofs ---------------------------
(***************************************************************************)
(* What the services around the trading core promise, for every value of   *)
(* their bounds.  The parts share no state, so each has an inductive       *)
(* invariant of its own, over the variables MCServices gives it: the       *)
(* broker's token, the market calendar, the live prices of a symbol, a     *)
(* plan of slices, a backtest, the collection of company data, its rows.   *)
(*                                                                         *)
(* Plans, backtests and rows are folds over sequences.  What a fold comes  *)
(* to is proved by an induction whose hypothesis is a set of numbers (the  *)
(* library's take an operator): the numbers outside it have no least one.  *)
(***************************************************************************)
EXTENDS MCServices, SequencesExt, FiniteSetTheorems, SequenceTheorems, WellFoundedInduction, TLAPS

\* The token: a token handed out lives longer than its request needs, as the
\* service thinks it dead at most MaxLatency after the broker does.
Made == [owner : Owner \cup {"nobody"}, dies : Int]

TokenTyped ==
  /\ accessToken \in Made /\ expiresAt \in Int /\ tokenClock \in Int
  /\ request \in [Caller -> {"idle", "asking", "sleeping", "holding"}]
  /\ owner \in [Caller -> Owner]
  /\ since \in [Caller -> Int]
  /\ held \in [Caller -> Made]

TokenIInv ==
  /\ TokenTyped
  /\ accessToken # Tokens!NoToken => expiresAt <= accessToken.dies + MaxLatency
  /\ \A c \in Caller :
       /\ request[c] = "asking" => tokenClock - since[c] <= MaxLatency
       /\ request[c] = "holding" =>
            /\ tokenClock - since[c] <= MaxUse
            /\ since[c] + MARGIN < held[c].dies + MaxLatency

\* No token is there at first.
LEMMA InitToken == Tokens!Init => TokenIInv
  BY DEF Tokens!Init, Tokens!NoToken, TokenIInv, TokenTyped, Made

\* Every step of a caller, and of the clock, keeps the margin.
LEMMA NextToken == TokenIInv /\ [Tokens!Next]_Tokens!vars => TokenIInv'
<1> SUFFICES ASSUME TokenIInv, [Tokens!Next]_Tokens!vars PROVE TokenIInv'
  OBVIOUS
<1>0. /\ MARGIN \in Int /\ LIFE \in Int /\ MARGIN < LIFE
      /\ MaxLatency \in Int /\ MaxUse \in Int /\ 0 <= MaxLatency /\ 0 <= MaxUse
  BY TokenAssumption DEF Tokens!Limits
<1>1. TokenTyped
  BY DEF TokenIInv
<1>2. CASE Tokens!Tick
  BY <1>0, <1>1, <1>2 DEF Tokens!Tick, TokenIInv, TokenTyped
<1>3. ASSUME NEW c \in Caller, Tokens!GetToken(c) PROVE TokenIInv'
  <2>1. /\ since' = [since EXCEPT ![c] = tokenClock]
        /\ accessToken' = accessToken /\ expiresAt' = expiresAt /\ tokenClock' = tokenClock /\ owner' = owner
        /\ \/ /\ accessToken # Tokens!NoToken /\ expiresAt > tokenClock + MARGIN
              /\ request' = [request EXCEPT ![c] = "holding"] /\ held' = [held EXCEPT ![c] = accessToken]
           \/ request' = [request EXCEPT ![c] = "asking"] /\ held' = held
    BY <1>3 DEF Tokens!GetToken, Tokens!Valid
  <2>2. TokenTyped'
    BY <1>1, <2>1 DEF TokenTyped
  <2>3. ASSUME NEW d \in Caller
        PROVE  /\ request'[d] = "asking" => tokenClock - since'[d] <= MaxLatency
               /\ request'[d] = "holding" => /\ tokenClock - since'[d] <= MaxUse
                                             /\ since'[d] + MARGIN < held'[d].dies + MaxLatency
    <3>1. CASE d = c
      <4>1. tokenClock - since'[c] = 0 /\ accessToken.dies \in Int
        BY <1>1, <2>1 DEF TokenTyped, Made
      <4>2. CASE request' = [request EXCEPT ![c] = "asking"]
        BY <1>0, <1>1, <3>1, <4>1, <4>2 DEF TokenTyped
      <4>3. CASE /\ accessToken # Tokens!NoToken /\ expiresAt > tokenClock + MARGIN
                 /\ held' = [held EXCEPT ![c] = accessToken] /\ request' = [request EXCEPT ![c] = "holding"]
        <5>1. held'[c] = accessToken /\ since'[c] = tokenClock /\ request'[c] = "holding"
          BY <1>1, <2>1, <4>3 DEF TokenTyped
        <5>2. expiresAt <= accessToken.dies + MaxLatency
          BY <4>3 DEF TokenIInv
        <5> QED BY <1>0, <1>1, <3>1, <4>1, <4>3, <5>1, <5>2 DEF TokenTyped
      <4> QED BY <2>1, <4>2, <4>3
    <3>2. CASE d # c
      BY <1>1, <2>1, <3>2 DEF TokenIInv, TokenTyped
    <3> QED BY <3>1, <3>2
  <2> QED BY <2>1, <2>2, <2>3 DEF TokenIInv
<1>4. ASSUME NEW c \in Caller, Tokens!Refreshed(c) PROVE TokenIInv'
  <2> PICK made \in since[c]..tokenClock :
         /\ accessToken' = [owner |-> owner[c], dies |-> made + LIFE]
         /\ held' = [held EXCEPT ![c] = [owner |-> owner[c], dies |-> made + LIFE]]
    BY <1>4 DEF Tokens!Refreshed
  <2>1. /\ request[c] = "asking" /\ expiresAt' = tokenClock + LIFE
        /\ request' = [request EXCEPT ![c] = "holding"] /\ since' = [since EXCEPT ![c] = tokenClock]
        /\ tokenClock' = tokenClock /\ owner' = owner
    BY <1>4 DEF Tokens!Refreshed
  <2>2. made \in Int /\ made <= tokenClock /\ tokenClock - made <= MaxLatency
    BY <1>0, <1>1, <2>1 DEF TokenIInv, TokenTyped
  <2>3. accessToken' \in Made /\ TokenTyped'
    BY <1>0, <1>1, <2>1, <2>2 DEF TokenTyped, Made
  <2>4. expiresAt' <= accessToken'.dies + MaxLatency
    BY <1>0, <1>1, <2>1, <2>2 DEF TokenTyped
  <2>5. ASSUME NEW d \in Caller
        PROVE  /\ request'[d] = "asking" => tokenClock - since'[d] <= MaxLatency
               /\ request'[d] = "holding" => /\ tokenClock - since'[d] <= MaxUse
                                             /\ since'[d] + MARGIN < held'[d].dies + MaxLatency
    <3>1. CASE d = c
      <4>1. /\ held'[c].dies = made + LIFE /\ since'[c] = tokenClock /\ request'[c] = "holding"
            /\ tokenClock \in Int
        BY <1>1, <2>1 DEF TokenTyped
      <4> QED BY <1>0, <2>2, <3>1, <4>1
    <3>2. CASE d # c
      BY <1>1, <2>1, <3>2 DEF TokenIInv, TokenTyped
    <3> QED BY <3>1, <3>2
  <2> QED BY <2>1, <2>3, <2>4, <2>5 DEF TokenIInv
<1>5. ASSUME NEW c \in Caller, Tokens!RefreshFails(c) \/ Tokens!Use(c) PROVE TokenIInv'
  <2>1. /\ accessToken' = accessToken /\ expiresAt' = expiresAt /\ tokenClock' = tokenClock
        /\ owner' = owner /\ since' = since
        /\ \/ request' = [request EXCEPT ![c] = "sleeping"] /\ held' = held
           \/ request' = [request EXCEPT ![c] = "idle"] /\ held' = held
           \/ request' = [request EXCEPT ![c] = "idle"] /\ held' = [held EXCEPT ![c] = Tokens!NoToken]
    BY <1>5 DEF Tokens!RefreshFails, Tokens!Use
  <2>2. Tokens!NoToken \in Made
    BY DEF Tokens!NoToken, Made
  <2>3. TokenTyped'
    BY <1>1, <2>1, <2>2 DEF TokenTyped
  <2> QED BY <1>1, <2>1, <2>3 DEF TokenIInv, TokenTyped
<1>6. ASSUME NEW c \in Caller, Tokens!Retry(c) PROVE TokenIInv'
  BY <1>0, <1>1, <1>6 DEF Tokens!Retry, TokenIInv, TokenTyped
<1>7. CASE UNCHANGED Tokens!vars
  BY <1>7 DEF Tokens!vars, TokenIInv, TokenTyped
<1> QED BY <1>2, <1>3, <1>4, <1>5, <1>6, <1>7 DEF Tokens!Next

\* For any callers, lives and margins: if an answer and the way to the request
\* take no longer than the margin, no request is sent with a dead token.
THEOREM TokensAreLive == Tokens!Spec => []UsedTokenIsLive
<1>1. TokenIInv => UsedTokenIsLive
  BY TokenAssumption DEF Tokens!Limits, TokenIInv, TokenTyped, Made, UsedTokenIsLive, Tokens!UsedTokenIsLive
<1> QED BY <1>1, InitToken, NextToken, PTL DEF Tokens!Spec


-----------------------------------------------------------------------------
-----------------------------------------------------------------------------
\* The calendar.  First the minutes at which the clock stops.
BoundaryList == {240, 480, 540, 570, 890, 900, 920, 930, 950, 960, 1020, 1080, 1200}
MinuteList ==
  {0, 239, 240, 479, 480, 539, 540, 569, 570, 889, 890, 899, 900, 919, 920, 929, 930, 949, 950, 959,
   960, 1019, 1020, 1079, 1080, 1199, 1200}

\* The tables of the calendar, spelt out.
LEMMA TheBoundaries == Boundaries = BoundaryList
<1>1. Market = {"KRX", "NYSE", "NASDAQ", "HKG", "TYO"}
  BY DEF Market, MARKET_HOURS
<1>2. \A m \in Market : DOMAIN MARKET_HOURS[m] =
        {"preMarketStart", "marketOpen", "closingStart", "marketClose", "afterHoursEnd"}
  BY <1>1 DEF MARKET_HOURS, Hours, US
<1>3. Boundaries = UNION {{MARKET_HOURS[m].preMarketStart, MARKET_HOURS[m].marketOpen, MARKET_HOURS[m].closingStart,
                           MARKET_HOURS[m].marketClose, MARKET_HOURS[m].afterHoursEnd} : m \in Market}
  BY <1>2 DEF Boundaries
<1>4. /\ MARKET_HOURS["KRX"] = Hours(480, 540, 920, 930, 1080)
      /\ MARKET_HOURS["NYSE"] = Hours(240, 570, 950, 960, 1200)
      /\ MARKET_HOURS["NASDAQ"] = Hours(240, 570, 950, 960, 1200)
      /\ MARKET_HOURS["HKG"] = Hours(540, 570, 950, 960, 1020)
      /\ MARKET_HOURS["TYO"] = Hours(480, 540, 890, 900, 960)
  BY DEF MARKET_HOURS, US, At
<1> QED BY <1>1, <1>3, <1>4 DEF Hours, BoundaryList

LEMMA TheMinutes == Minutes = MinuteList
<1>1. \A n : n \in {b - 1 : b \in BoundaryList} <=>
        n \in {239, 479, 539, 569, 889, 899, 919, 929, 949, 959, 1019, 1079, 1199}
  BY DEF BoundaryList
<1> QED BY <1>1, TheBoundaries DEF Minutes, BoundaryList, MinuteList

LEMMA TheLastMinute == LastMinute = 1200
<1>1. 1200 \in Minutes /\ \A u \in Minutes : u <= 1200 /\ u \in Int
  BY TheMinutes DEF MinuteList
<1>2. LastMinute \in Minutes /\ \A u \in Minutes : u <= LastMinute
  BY <1>1 DEF LastMinute
<1> QED BY <1>1, <1>2

\* The clock passes no minute of the list.
LEMMA TheNextMinute ==
  ASSUME NEW t \in Minutes, t # LastMinute
  PROVE  LET n == CHOOSE n \in Minutes : n > t /\ \A u \in Minutes : u > t => n <= u
         IN  n \in Minutes /\ n > t /\ \A u \in Minutes : u > t => n <= u
<1>1. \E n \in Minutes : n > t /\ \A u \in Minutes : u > t => n <= u
  BY TheMinutes, TheLastMinute DEF MinuteList
<1> QED BY <1>1

\* When the Korean market is open, and what its other sessions are where a job needs it.
LEMMA KrxHours ==
  ASSUME NEW d, NEW t \in Int
  PROVE  /\ IsOpenAt("KRX", d, t) <=> ~IsHoliday("KRX", d) /\ ~Weekend(d) /\ 540 <= t /\ t < 930
         /\ ~IsHoliday("KRX", d) /\ ~Weekend(d) =>
              /\ t = 540 => SessionAt("KRX", d, t) = "REGULAR"
              /\ t = 920 => SessionAt("KRX", d, t) = "CLOSING"
              /\ t = 930 => SessionAt("KRX", d, t) = "AFTER_HOURS"
<1>1. MARKET_HOURS["KRX"] = Hours(480, 540, 920, 930, 1080)
  BY DEF MARKET_HOURS, At
<1>2. CASE IsHoliday("KRX", d) \/ Weekend(d)
  BY <1>2 DEF IsOpenAt, SessionAt
<1>3. CASE ~(IsHoliday("KRX", d) \/ Weekend(d))
  <2>1. SessionAt("KRX", d, t) =
          CASE 480 <= t /\ t < 540  -> "PRE_MARKET" [] 540 <= t /\ t < 920   -> "REGULAR"
            [] 920 <= t /\ t < 930  -> "CLOSING"    [] 930 <= t /\ t < 1080 -> "AFTER_HOURS"
            [] OTHER -> "CLOSED"
    BY <1>1, <1>3 DEF SessionAt, Hours
  <2>2. /\ t < 540 => SessionAt("KRX", d, t) \in {"PRE_MARKET", "CLOSED"}
        /\ 540 <= t /\ t < 920 => SessionAt("KRX", d, t) = "REGULAR"
        /\ 920 <= t /\ t < 930 => SessionAt("KRX", d, t) = "CLOSING"
        /\ 930 <= t => SessionAt("KRX", d, t) \in {"AFTER_HOURS", "CLOSED"}
        /\ t = 930 => SessionAt("KRX", d, t) = "AFTER_HOURS"
    BY <2>1
  <2> QED BY <1>3, <2>2 DEF IsOpenAt
<1> QED BY <1>2, <1>3

\* The sweep comes on the minutes it is set to.
LEMMA SweepMinutes ==
  ASSUME NEW d, NEW t \in Int
  PROVE  /\ "open" \in Jobs(d, t) <=> t = 540 /\ ~Weekend(d)
         /\ "closing" \in Jobs(d, t) <=> t = 920 /\ ~Weekend(d)
         /\ "close" \in Jobs(d, t) <=> t = 930 /\ ~Weekend(d)
         /\ "check" \in Jobs(d, t)
         /\ Writes(d, t) <=> (t = 540 \/ t = 930) /\ ~Weekend(d) /\ ~IsHoliday("KRX", d)
<1>1. Sweeps(d, t) = IF Weekend(d) THEN {}
                     ELSE IF t = 540 THEN {"open"} ELSE IF t = 920 THEN {"closing"}
                     ELSE IF t = 930 THEN {"close"} ELSE {}
  BY DEF Sweeps, At
<1> QED BY <1>1 DEF Jobs, Writes

\* A job that writes the rows is due and will.
Pending == due \cap {"open", "close"} # {} /\ ~IsHoliday("KRX", day)

CalendarIInv ==
  /\ day \in Int /\ minute \in Minutes /\ active \in BOOLEAN /\ missed \in BOOLEAN
  /\ due \subseteq Jobs(day, minute)
  /\ up /\ "check" \notin due => cached = SessionAt("KRX", day, minute)
  /\ ~missed /\ ~Pending => (active <=> IsOpenAt("KRX", day, minute))

LEMMA InitCalendar == Init => CalendarIInv
<1> SUFFICES ASSUME Init PROVE CalendarIInv
  OBVIOUS
<1>1. day \in Int
  BY CalendarAssumption DEF Init
<1>2. IsOpenAt("KRX", day, minute) \in BOOLEAN
  BY DEF IsOpenAt
<1> QED BY <1>1, <1>2 DEF Init, CalendarIInv, Pending

\* Each job does what the calendar says of its minute, in any order.
LEMMA JobKeepsCalendar ==
  ASSUME CalendarIInv, MarketOpens \/ ClosingStarts \/ MarketCloses \/ CheckSessionChanges
  PROVE  CalendarIInv'
<1>0. minute \in Int
  BY TheMinutes DEF CalendarIInv, MinuteList
<1>1. CASE MarketOpens
  <2>1. /\ "open" \in due /\ due' = due \ {"open"} /\ day' = day /\ minute' = minute /\ up' = up
        /\ IF IsHoliday("KRX", day) THEN cached' = cached /\ active' = active /\ missed' = missed
           ELSE cached' = "REGULAR" /\ active' = TRUE /\ missed' = FALSE
    BY <1>1 DEF MarketOpens, Ran
  <2>2. minute = 540 /\ ~Weekend(day)
    BY <1>0, <2>1, SweepMinutes DEF CalendarIInv
  <2>3. CASE IsHoliday("KRX", day)
    BY <2>1, <2>3 DEF CalendarIInv, Pending
  <2>4. CASE ~IsHoliday("KRX", day)
    <3>1. IsOpenAt("KRX", day, minute) /\ SessionAt("KRX", day, minute) = "REGULAR"
      BY <1>0, <2>2, <2>4, KrxHours
    <3> QED BY <2>1, <2>4, <3>1 DEF CalendarIInv
  <2> QED BY <2>3, <2>4
<1>2. CASE ClosingStarts
  <2>1. /\ "closing" \in due /\ due' = due \ {"closing"} /\ day' = day /\ minute' = minute /\ up' = up
        /\ cached' = IF IsHoliday("KRX", day) THEN cached ELSE "CLOSING"
        /\ active' = active /\ missed' = missed
    BY <1>2 DEF ClosingStarts, Ran
  <2>2. minute = 920 /\ ~Weekend(day)
    BY <1>0, <2>1, SweepMinutes DEF CalendarIInv
  <2>3. ~IsHoliday("KRX", day) => SessionAt("KRX", day, minute) = "CLOSING"
    BY <1>0, <2>2, KrxHours
  <2>4. Pending' = Pending
    BY <2>1 DEF Pending
  <2> QED BY <2>1, <2>3, <2>4 DEF CalendarIInv
<1>3. CASE MarketCloses
  <2>1. /\ "close" \in due /\ due' = due \ {"close"} /\ day' = day /\ minute' = minute /\ up' = up
        /\ IF IsHoliday("KRX", day) THEN cached' = cached /\ active' = active /\ missed' = missed
           ELSE cached' = "AFTER_HOURS" /\ active' = FALSE /\ missed' = FALSE
    BY <1>3 DEF MarketCloses, Ran
  <2>2. minute = 930 /\ ~Weekend(day)
    BY <1>0, <2>1, SweepMinutes DEF CalendarIInv
  <2>3. CASE IsHoliday("KRX", day)
    BY <2>1, <2>3 DEF CalendarIInv, Pending
  <2>4. CASE ~IsHoliday("KRX", day)
    <3>1. ~IsOpenAt("KRX", day, minute) /\ SessionAt("KRX", day, minute) = "AFTER_HOURS"
      BY <1>0, <2>2, <2>4, KrxHours
    <3> QED BY <2>1, <2>4, <3>1 DEF CalendarIInv
  <2> QED BY <2>3, <2>4
<1>4. CASE CheckSessionChanges
  <2>1. /\ due' = due \ {"check"} /\ day' = day /\ minute' = minute /\ up' = up
        /\ cached' = SessionAt("KRX", day, minute) /\ active' = active /\ missed' = missed
    BY <1>4 DEF CheckSessionChanges, Ran
  <2>2. Pending' = Pending
    BY <2>1 DEF Pending
  <2> QED BY <2>1, <2>2 DEF CalendarIInv
<1> QED BY <1>1, <1>2, <1>3, <1>4

\* From one minute of the list to the next the market opens and closes only by a sweep.
LEMMA ClockKeepsCalendar ==
  ASSUME CalendarIInv, NextMinute
  PROVE  CalendarIInv'
<1>1. /\ due = {} /\ due' = IF up THEN Jobs(day', minute') ELSE {}
      /\ missed' = (missed \/ (~up /\ Writes(day', minute')))
      /\ up' = up /\ active' = active
  BY DEF NextMinute
<1>2. minute \in Minutes /\ minute \in Int /\ 0 \in Minutes /\ 540 \in Minutes /\ 930 \in Minutes
  BY TheMinutes DEF CalendarIInv, MinuteList
<1>3. /\ day' \in Int /\ minute' \in Minutes
      /\ ~Writes(day', minute') => (IsOpenAt("KRX", day', minute') <=> IsOpenAt("KRX", day, minute))
  <2>1. CASE minute = LastMinute
    <3>1. day' = day + 1 /\ minute' = 0 /\ minute = 1200
      BY <2>1, TheLastMinute DEF NextMinute
    <3>2. ~IsOpenAt("KRX", day', minute') /\ ~IsOpenAt("KRX", day, minute)
      BY <3>1, KrxHours
    <3> QED BY <1>2, <3>1, <3>2 DEF CalendarIInv
  <2>2. CASE minute # LastMinute
    <3>1. day' = day /\ minute' \in Minutes /\ minute' > minute /\ \A u \in Minutes : u > minute => minute' <= u
      BY <1>2, <2>2, TheNextMinute DEF NextMinute
    <3>2. minute' \in Int
      BY <3>1, TheMinutes DEF MinuteList
    <3>3. /\ 540 > minute => minute' <= 540
          /\ 930 > minute => minute' <= 930
      BY <1>2, <3>1
    <3>4. ~Writes(day', minute') => (IsOpenAt("KRX", day', minute') <=> IsOpenAt("KRX", day, minute))
      BY <1>2, <3>1, <3>2, <3>3, KrxHours, SweepMinutes
    <3> QED BY <3>1, <3>4 DEF CalendarIInv
  <2> QED BY <2>1, <2>2
<1>4. minute' \in Int
  BY <1>3, TheMinutes DEF MinuteList
<1>5. up' /\ "check" \notin due' => cached' = SessionAt("KRX", day', minute')
  BY <1>1, <1>4, SweepMinutes
<1>6. ~missed' /\ ~Pending' => (active' <=> IsOpenAt("KRX", day', minute'))
  <2> SUFFICES ASSUME ~missed', ~Pending' PROVE active <=> IsOpenAt("KRX", day', minute')
    BY <1>1
  <2>1. ~Writes(day', minute')
    <3>1. CASE up
      BY <1>1, <1>4, <3>1, SweepMinutes DEF Pending
    <3>2. CASE ~up
      BY <1>1, <3>2
    <3> QED BY <3>1, <3>2
  <2>2. ~missed /\ ~Pending
    BY <1>1 DEF Pending
  <2> QED BY <1>3, <2>1, <2>2 DEF CalendarIInv
<1>7. due' \subseteq Jobs(day', minute') /\ active' \in BOOLEAN /\ missed' \in BOOLEAN
  BY <1>1 DEF CalendarIInv
<1> QED BY <1>3, <1>5, <1>6, <1>7 DEF CalendarIInv

LEMMA NextCalendar == CalendarIInv /\ [Next]_vars => CalendarIInv'
<1> SUFFICES ASSUME CalendarIInv, [Next]_vars PROVE CalendarIInv'
  OBVIOUS
<1>1. CASE MarketOpens \/ ClosingStarts \/ MarketCloses \/ CheckSessionChanges
  BY <1>1, JobKeepsCalendar
<1>2. CASE NextMinute
  BY <1>2, ClockKeepsCalendar
<1>3. CASE End
  <2>1. /\ up' = FALSE /\ due' = {} /\ day' = day /\ minute' = minute /\ active' = active
        /\ missed' = (missed \/ (due \cap {"open", "close"} # {} /\ ~IsHoliday("KRX", day)))
    BY <1>3 DEF End
  <2>2. ~missed' => ~missed /\ ~Pending
    BY <2>1 DEF Pending
  <2>3. missed' \in BOOLEAN
    BY <2>1
  <2> QED BY <2>1, <2>2, <2>3 DEF CalendarIInv
<1>4. CASE Begin
  <2>1. /\ due' = due /\ day' = day /\ minute' = minute /\ active' = active /\ missed' = missed
        /\ cached' = SessionAt("KRX", day, minute)
    BY <1>4 DEF Begin
  <2>2. Pending' = Pending
    BY <2>1 DEF Pending
  <2> QED BY <2>1, <2>2 DEF CalendarIInv
<1>5. CASE UNCHANGED vars
  <2>1. /\ due' = due /\ day' = day /\ minute' = minute /\ active' = active /\ missed' = missed
        /\ cached' = cached /\ up' = up
    BY <1>5 DEF vars
  <2>2. Pending' = Pending
    BY <2>1 DEF Pending
  <2> QED BY <2>1, <2>2 DEF CalendarIInv
<1> QED BY <1>1, <1>2, <1>3, <1>4, <1>5 DEF Next

\* For any days and any number of outages: when the jobs of the minute have run,
\* in whatever order, the session and the rows are the calendar's.
THEOREM CalendarIsFollowed == Spec => []SessionsFollowCalendar
<1>1. CalendarIInv => SessionsFollowCalendar
  BY DEF CalendarIInv, SessionsFollowCalendar, Pending
<1> QED BY <1>1, InitCalendar, NextCalendar, PTL DEF Spec

\* When a market is open, for every market.
LEMMA OpenHours ==
  ASSUME NEW m \in Market, NEW d, NEW t \in Int
  PROVE  LET h == MARKET_HOURS[m] IN
         /\ h.marketOpen \in Int /\ h.marketClose \in Int
         /\ IsOpenAt(m, d, t) <=>
              ~IsHoliday(m, d) /\ ~Weekend(d) /\ h.marketOpen <= t /\ t < h.marketClose
         /\ ~IsHoliday(m, d) /\ ~Weekend(d) => SessionAt(m, d, h.marketOpen) = "REGULAR"
<1> DEFINE h == MARKET_HOURS[m]
<1>1. /\ h.preMarketStart \in Int /\ h.marketOpen \in Int /\ h.closingStart \in Int
      /\ h.marketClose \in Int /\ h.afterHoursEnd \in Int
      /\ h.preMarketStart < h.marketOpen /\ h.marketOpen < h.closingStart
      /\ h.closingStart < h.marketClose /\ h.marketClose < h.afterHoursEnd
  <2>1. m \in {"KRX", "NYSE", "NASDAQ", "HKG", "TYO"}
    BY DEF Market, MARKET_HOURS
  <2> QED BY <2>1 DEF MARKET_HOURS, US, At, Hours
<1>2. ASSUME NEW u \in Int, ~IsHoliday(m, d), ~Weekend(d)
      PROVE  SessionAt(m, d, u) =
               CASE h.preMarketStart <= u /\ u < h.marketOpen -> "PRE_MARKET"
                 [] h.marketOpen <= u /\ u < h.closingStart   -> "REGULAR"
                 [] h.closingStart <= u /\ u < h.marketClose  -> "CLOSING"
                 [] h.marketClose <= u /\ u < h.afterHoursEnd -> "AFTER_HOURS"
                 [] OTHER                                     -> "CLOSED"
  BY <1>2 DEF SessionAt
<1> HIDE DEF h
<1>3. ASSUME NEW u \in Int, ~IsHoliday(m, d), ~Weekend(d)
      PROVE  /\ SessionAt(m, d, u) \in {"REGULAR", "CLOSING"} <=> h.marketOpen <= u /\ u < h.marketClose
             /\ u = h.marketOpen => SessionAt(m, d, u) = "REGULAR"
  <2>1. SessionAt(m, d, u) =
               CASE h.preMarketStart <= u /\ u < h.marketOpen -> "PRE_MARKET"
                 [] h.marketOpen <= u /\ u < h.closingStart   -> "REGULAR"
                 [] h.closingStart <= u /\ u < h.marketClose  -> "CLOSING"
                 [] h.marketClose <= u /\ u < h.afterHoursEnd -> "AFTER_HOURS"
                 [] OTHER                                     -> "CLOSED"
    BY <1>2, <1>3
  <2>2. /\ u < h.marketOpen => SessionAt(m, d, u) \in {"PRE_MARKET", "CLOSED"}
        /\ h.marketOpen <= u /\ u < h.closingStart => SessionAt(m, d, u) = "REGULAR"
        /\ h.closingStart <= u /\ u < h.marketClose => SessionAt(m, d, u) = "CLOSING"
        /\ h.marketClose <= u => SessionAt(m, d, u) \in {"AFTER_HOURS", "CLOSED"}
    BY <1>1, <2>1
  <2> QED BY <1>1, <2>2
<1>4. IsHoliday(m, d) \/ Weekend(d) => ~IsOpenAt(m, d, t)
  BY DEF IsOpenAt, SessionAt
<1>5. IsOpenAt(m, d, t) <=> ~IsHoliday(m, d) /\ ~Weekend(d) /\ h.marketOpen <= t /\ t < h.marketClose
  BY <1>3, <1>4 DEF IsOpenAt
<1> QED BY <1>1, <1>3, <1>5 DEF h

\* No holidays and weekends last for seven days.
LEMMA OpensWithinAWeek ==
  ASSUME NEW m, NEW d \in Int
  PROVE  \E i \in 1..7 : ~Weekend(d + i) /\ ~IsHoliday(m, d + i)
<1>1. \E i \in 1..7 : ~Weekend(d + i) /\ d + i \notin KrxHolidays
  BY DEF Weekend, DayOfWeek, KrxHolidays
<1> QED BY <1>1 DEF IsHoliday

LEMMA LeastOfAWeek ==
  ASSUME NEW S \in SUBSET (1..7), S # {}
  PROVE  LET i == CHOOSE i \in S : \A j \in S : i <= j
         IN  i \in S /\ \A j \in S : i <= j
<1>1. \E i \in S : \A j \in S : i <= j
  <2> SUFFICES ASSUME \A i \in S : \E j \in S : j < i PROVE FALSE
    OBVIOUS
  <2>1. \A i \in S : i > 1
    OBVIOUS
  <2>2. \A i \in S : i > 2
    BY <2>1
  <2>3. \A i \in S : i > 3
    BY <2>2
  <2>4. \A i \in S : i > 4
    BY <2>3
  <2>5. \A i \in S : i > 5
    BY <2>4
  <2>6. \A i \in S : i > 6
    BY <2>5
  <2>7. \A i \in S : i > 7
    BY <2>6
  <2>8. PICK i \in S : TRUE
    OBVIOUS
  <2> QED BY <2>7, <2>8
<1> QED BY <1>1

\* For any day of any length of calendar, any market and any minute: the next
\* opening shown is an opening, and there is none before it.
THEOREM NextOpeningIsTheNext == Spec => []NextOpenIsNext
<1>1. CalendarIInv => NextOpenIsNext
  <2> SUFFICES ASSUME CalendarIInv, NEW m \in Market, ~IsOpenAt(m, day, minute)
               PROVE  LET next == NextMarketOpen(m, day, minute) IN
                      /\ SessionAt(m, next[1], next[2]) = "REGULAR"
                      /\ \A d \in day..next[1], t \in Boundaries :
                           (d > day \/ t > minute) /\ IsOpenAt(m, d, t) => d = next[1] /\ t >= next[2]
    BY DEF NextOpenIsNext
  <2> DEFINE open  == MARKET_HOURS[m].marketOpen
             close == MARKET_HOURS[m].marketClose
             days  == {i \in 1..7 : ~Weekend(day + i) /\ ~IsHoliday(m, day + i)}
             first == CHOOSE i \in days : \A j \in days : i <= j
             Trading(d) == ~IsHoliday(m, d) /\ ~Weekend(d)
  <2>1. day \in Int /\ minute \in Int /\ \A t \in Boundaries : t \in Int
    BY TheMinutes, TheBoundaries DEF CalendarIInv, MinuteList, BoundaryList
  <2>2. open \in Int /\ close \in Int
    BY <2>1, OpenHours
  <2>3. \A d, t : t \in Int => (IsOpenAt(m, d, t) <=> Trading(d) /\ open <= t /\ t < close)
    BY OpenHours
  <2>4. \A d : Trading(d) => SessionAt(m, d, open) = "REGULAR"
    BY <2>1, OpenHours
  <2>5. first \in days /\ \A j \in days : first <= j
    <3>1. days # {} /\ days \in SUBSET (1..7)
      BY <2>1, OpensWithinAWeek
    <3> QED BY <3>1, LeastOfAWeek
  <2>6. NextMarketOpen(m, day, minute) =
          IF minute < open /\ Trading(day) THEN <<day, open>> ELSE <<day + first, open>>
    BY <2>5 DEF NextMarketOpen
  <2> HIDE DEF open, close, first
  <2>7. CASE minute < open /\ Trading(day)
    <3>1. NextMarketOpen(m, day, minute) = <<day, open>>
      BY <2>6, <2>7
    <3>2. SessionAt(m, day, open) = "REGULAR"
      BY <2>4, <2>7
    <3>3. ASSUME NEW d \in day..day, NEW t \in Boundaries, IsOpenAt(m, d, t) PROVE d = day /\ t >= open
      BY <2>1, <2>2, <2>3, <3>3
    <3> QED BY <3>1, <3>2, <3>3
  <2>8. CASE ~(minute < open /\ Trading(day))
    <3>1. NextMarketOpen(m, day, minute) = <<day + first, open>>
      BY <2>6, <2>8
    <3>2. Trading(day + first) /\ first \in 1..7
      BY <2>5
    <3>3. SessionAt(m, day + first, open) = "REGULAR"
      BY <2>4, <3>2
    <3>4. ASSUME NEW d \in day..(day + first), NEW t \in Boundaries, d > day \/ t > minute, IsOpenAt(m, d, t)
          PROVE  d = day + first /\ t >= open
      <4>1. Trading(d) /\ open <= t /\ t < close /\ t \in Int
        BY <2>1, <2>3, <3>4
      <4>2. d # day
        <5>1. CASE Trading(day)
          BY <2>1, <2>2, <2>3, <2>8, <3>4, <4>1, <5>1
        <5>2. CASE ~Trading(day)
          BY <4>1, <5>2
        <5> QED BY <5>1, <5>2
      <4>3. d - day \in days
        <5>1. d - day \in 1..7 /\ day + (d - day) = d
          BY <2>1, <3>2, <4>2
        <5> QED BY <4>1, <5>1
      <4>4. first <= d - day
        BY <2>5, <4>3
      <4> QED BY <2>1, <2>2, <3>2, <4>1, <4>4
    <3> QED BY <3>1, <3>3, <3>4
  <2> QED BY <2>7, <2>8
<1> QED BY <1>1, InitCalendar, NextCalendar, PTL DEF Spec

-----------------------------------------------------------------------------
\* The live prices: a handler remembers the price of the tick that arrived
\* before its own, if the cache was not emptied since, and announces before it ends.
Before(t, d, i) == IF i > 1 /\ i - 1 \notin d THEN t[i - 1] ELSE Prices!NoPrice
Stages == {"storing", "announcing", "notifying", "done", "failed"}

PricesIInv ==
  /\ ticks \in Seq(TickPrice)
  /\ DOMAIN handler = DOMAIN ticks /\ DOMAIN previous = DOMAIN ticks
  /\ handler \in Seq(Stages) /\ previous \in Seq(TickPrice \cup {Prices!NoPrice})
  /\ \A n \in dropped : n \in Nat /\ n <= Len(ticks)
  /\ cachedPrice = Before(ticks, dropped, Len(ticks) + 1)
  /\ \A i \in DOMAIN ticks :
       /\ previous[i] = Before(ticks, dropped, i)
       /\ handler[i] = "announcing" => Prices!Jump(previous[i], ticks[i])
       /\ handler[i] \in {"notifying", "done"} /\ Prices!Jump(previous[i], ticks[i])
            => <<i, previous[i]>> \in announced
  /\ \A e \in announced :
       \E i \in DOMAIN ticks : e = <<i, previous[i]>> /\ Prices!Jump(previous[i], ticks[i])

LEMMA InitPrices == Prices!Init => PricesIInv
  BY DEF Prices!Init, PricesIInv, Before

LEMMA NextPrices == PricesIInv /\ [Prices!Next]_Prices!vars => PricesIInv'
<1> SUFFICES ASSUME PricesIInv, [Prices!Next]_Prices!vars PROVE PricesIInv'
  OBVIOUS
<1>0. /\ ticks \in Seq(TickPrice) /\ DOMAIN handler = DOMAIN ticks /\ DOMAIN previous = DOMAIN ticks
      /\ handler \in Seq(Stages) /\ previous \in Seq(TickPrice \cup {Prices!NoPrice})
      /\ DOMAIN ticks = 1..Len(ticks) /\ Len(ticks) \in Nat
      /\ Len(handler) = Len(ticks) /\ Len(previous) = Len(ticks)
  BY DEF PricesIInv
<1>a. \A d \in dropped : d \in Nat /\ d <= Len(ticks)
  BY DEF PricesIInv
<1>1. ASSUME NEW p \in TickPrice, Prices!Arrive(p) PROVE PricesIInv'
  <2> DEFINE n == Len(ticks) + 1
  <2>1. /\ ticks' = Append(ticks, p) /\ previous' = Append(previous, cachedPrice) /\ cachedPrice' = p
        /\ handler' = Append(handler, "storing") /\ announced' = announced
        /\ dropped' = dropped
    BY <1>1 DEF Prices!Arrive
  <2>2. cachedPrice \in TickPrice \cup {Prices!NoPrice}
    BY <1>0 DEF PricesIInv, Before
  <2>3. /\ ticks' \in Seq(TickPrice) /\ Len(ticks') = n /\ ticks'[n] = p /\ ticks' # <<>>
        /\ \A i \in 1..Len(ticks) : ticks'[i] = ticks[i]
    <3>1. ticks \in Seq(TickPrice) /\ ticks' = Append(ticks, p)
      BY <1>0, <2>1
    <3> QED BY <3>1
  <2>4. /\ previous' \in Seq(TickPrice \cup {Prices!NoPrice}) /\ Len(previous') = n
        /\ previous'[n] = cachedPrice /\ \A i \in 1..Len(ticks) : previous'[i] = previous[i]
    BY <1>0, <2>1, <2>2
  <2>5. /\ handler' \in Seq(Stages) /\ Len(handler') = n
        /\ handler'[n] = "storing" /\ \A i \in 1..Len(ticks) : handler'[i] = handler[i]
    <3>1. "storing" \in Stages
      BY DEF Stages
    <3> QED BY <1>0, <2>1, <3>1
  <2>6. cachedPrice = Before(ticks, dropped, n)
    BY DEF PricesIInv
  <2>7. \A i \in DOMAIN ticks' : i \in 1..Len(ticks) \/ i = n
    BY <1>0, <2>3
  <2>8. DOMAIN ticks' = 1..n /\ DOMAIN handler' = 1..n /\ DOMAIN previous' = 1..n
    BY <2>3, <2>4, <2>5
  <2>9. Before(ticks', dropped', n) = cachedPrice
    <3>1. (n > 1 <=> n # 1) /\ n - 1 = Len(ticks) /\ (n # 1 => ticks'[n - 1] = ticks[n - 1])
      BY <1>0, <2>3
    <3> HIDE DEF n
    <3> QED BY <2>1, <2>6, <3>1 DEF Before
  <2>10. \A i \in 1..Len(ticks) : Before(ticks', dropped', i) = Before(ticks, dropped, i)
    BY <1>0, <2>1, <2>3 DEF Before
  <2>11. ASSUME NEW i \in DOMAIN ticks'
         PROVE  /\ previous'[i] = Before(ticks', dropped', i)
                /\ handler'[i] = "announcing" => Prices!Jump(previous'[i], ticks'[i])
                /\ handler'[i] \in {"notifying", "done"} /\ Prices!Jump(previous'[i], ticks'[i])
                     => <<i, previous'[i]>> \in announced'
    <3>1. CASE i = n
      BY <2>4, <2>5, <2>9, <3>1
    <3>2. CASE i \in 1..Len(ticks)
      <4>1. previous'[i] = previous[i] /\ ticks'[i] = ticks[i] /\ handler'[i] = handler[i] /\ i \in DOMAIN ticks
        BY <1>0, <2>3, <2>4, <2>5, <3>2
      <4> QED BY <2>1, <2>10, <3>2, <4>1 DEF PricesIInv
    <3> QED BY <2>7, <3>1, <3>2
  <2>12. ASSUME NEW e \in announced'
         PROVE  \E i \in DOMAIN ticks' : e = <<i, previous'[i]>> /\ Prices!Jump(previous'[i], ticks'[i])
    <3>1. PICK i \in DOMAIN ticks : e = <<i, previous[i]>> /\ Prices!Jump(previous[i], ticks[i])
      BY <2>1 DEF PricesIInv
    <3>2. previous'[i] = previous[i] /\ ticks'[i] = ticks[i] /\ i \in DOMAIN ticks'
      BY <1>0, <2>3, <2>4, <2>8
    <3> QED BY <3>1, <3>2
  <2>13. /\ \A d \in dropped' : d \in Nat /\ d <= Len(ticks')
         /\ cachedPrice' = Before(ticks', dropped', Len(ticks') + 1)
    BY <1>0, <1>a, <2>1, <2>3 DEF Before
  <2>14. DOMAIN handler' = DOMAIN ticks' /\ DOMAIN previous' = DOMAIN ticks'
    BY <2>8
  <2> QED BY <2>3, <2>4, <2>5, <2>11, <2>12, <2>13, <2>14 DEF PricesIInv, Prices!Jump, Prices!Abs, Prices!NoPrice
\* A handler goes on: only its stage and the announcements change.
<1>2. ASSUME NEW k \in DOMAIN ticks, NEW s \in Stages,
             ticks' = ticks, cachedPrice' = cachedPrice, previous' = previous, dropped' = dropped,
             handler' = [handler EXCEPT ![k] = s],
             announced' = announced \/ announced' = announced \cup {<<k, previous[k]>>},
             announced' # announced => Prices!Jump(previous[k], ticks[k]),
             s # "announcing" \/ Prices!Jump(previous[k], ticks[k]),
             s \in {"notifying", "done"} /\ Prices!Jump(previous[k], ticks[k]) => <<k, previous[k]>> \in announced'
      PROVE  PricesIInv'
  <2>1. /\ handler' \in Seq(Stages) /\ DOMAIN handler' = DOMAIN handler /\ handler'[k] = s
        /\ \A i \in DOMAIN ticks : i # k => handler'[i] = handler[i]
    BY <1>0, <1>2
  <2>2. announced \subseteq announced'
    BY <1>2
  <2>3. \A i : Before(ticks', dropped', i) = Before(ticks, dropped, i)
    BY <1>2 DEF Before
  <2>4. ASSUME NEW i \in DOMAIN ticks
         PROVE  /\ previous[i] = Before(ticks, dropped, i)
                /\ handler'[i] = "announcing" => Prices!Jump(previous[i], ticks[i])
                /\ handler'[i] \in {"notifying", "done"} /\ Prices!Jump(previous[i], ticks[i])
                     => <<i, previous[i]>> \in announced'
    <3>1. CASE i = k
      BY <1>2, <2>1, <3>1 DEF PricesIInv
    <3>2. CASE i # k
      BY <2>1, <2>2, <3>2 DEF PricesIInv
    <3> QED BY <3>1, <3>2
  <2>5. \A e \in announced' : \E i \in DOMAIN ticks : e = <<i, previous[i]>> /\ Prices!Jump(previous[i], ticks[i])
    <3>1. \A e \in announced' : e \in announced \/ (e = <<k, previous[k]>> /\ Prices!Jump(previous[k], ticks[k]))
      BY <1>2
    <3> QED BY <3>1 DEF PricesIInv
  <2>6. /\ \A i \in DOMAIN ticks : previous[i] = Before(ticks', dropped', i)
        /\ cachedPrice' = Before(ticks', dropped', Len(ticks') + 1)
    BY <1>2, <2>3, <2>4 DEF PricesIInv
  <2> QED BY <1>0, <1>2, <2>1, <2>4, <2>5, <2>6 DEF PricesIInv, Prices!Jump, Prices!Abs, Prices!NoPrice
<1>3. ASSUME NEW i \in DOMAIN ticks, Prices!Stored(i) \/ Prices!Announce(i) \/ Prices!HandOn(i) \/ Prices!Fail(i)
      PROVE  PricesIInv'
  <2>1. CASE Prices!Stored(i)
    <3>1. CASE Prices!Jump(previous[i], ticks[i])
      BY <1>2, <2>1, <3>1 DEF Prices!Stored, Stages
    <3>2. CASE ~Prices!Jump(previous[i], ticks[i])
      BY <1>2, <2>1, <3>2 DEF Prices!Stored, Stages
    <3> QED BY <3>1, <3>2
  <2>2. CASE Prices!Announce(i)
    <3>1. Prices!Jump(previous[i], ticks[i])
      BY <2>2 DEF Prices!Announce, PricesIInv
    <3>2. <<i, previous[i]>> \in announced'
      BY <2>2 DEF Prices!Announce, Stages
    <3> QED BY <1>2, <2>2, <3>1, <3>2 DEF Prices!Announce, Stages
  <2>3. CASE Prices!HandOn(i)
    <3>1. Prices!Jump(previous[i], ticks[i]) => <<i, previous[i]>> \in announced'
      BY <2>3 DEF Prices!HandOn, PricesIInv
    <3>2. /\ ticks' = ticks /\ cachedPrice' = cachedPrice /\ previous' = previous
          /\ handler' = [handler EXCEPT ![i] = "done"] /\ announced' = announced /\ dropped' = dropped
      BY <2>3 DEF Prices!HandOn
    <3> QED BY <1>2, <3>1, <3>2 DEF Stages
  <2>4. CASE Prices!Fail(i)
    BY <1>2, <2>4 DEF Prices!Fail, Stages
  <2> QED BY <1>3, <2>1, <2>2, <2>3, <2>4
<1>4. CASE Prices!Tick \/ UNCHANGED Prices!vars
  <2>1. /\ ticks' = ticks /\ cachedPrice' = cachedPrice /\ previous' = previous
        /\ handler' = handler /\ announced' = announced /\ dropped' = dropped
    BY <1>4 DEF Prices!Tick, Prices!vars
  <2>2. \A i : Before(ticks', dropped', i) = Before(ticks, dropped, i)
    BY <2>1 DEF Before
  <2>3. cachedPrice' = Before(ticks', dropped', Len(ticks') + 1)
    BY <2>1, <2>2 DEF PricesIInv
  <2> QED BY <2>1, <2>2, <2>3 DEF PricesIInv, Prices!Jump, Prices!Abs, Prices!NoPrice
\* The cache is emptied: the next tick will be compared with nothing, and what
\* the ticks before it were compared with stays.
<1>5. CASE Prices!UnsubscribeSymbol \/ Prices!Restart
  <2>1. /\ ticks' = ticks /\ previous' = previous /\ announced' = announced
        /\ cachedPrice' = Prices!NoPrice /\ dropped' = dropped \cup {Len(ticks)}
    BY <1>5 DEF Prices!UnsubscribeSymbol, Prices!Restart
  <2>2. /\ DOMAIN handler' = DOMAIN handler /\ handler' \in Seq(Stages)
        /\ \A i \in DOMAIN ticks : handler'[i] = handler[i] \/ handler'[i] = "failed"
    <3>1. CASE Prices!UnsubscribeSymbol
      BY <1>0, <3>1 DEF Prices!UnsubscribeSymbol
    <3>2. CASE Prices!Restart
      <4>1. /\ handler' = [i \in 1..Len(ticks) |-> IF handler[i] = "done" THEN "done" ELSE "failed"]
            /\ "done" \in Stages /\ "failed" \in Stages
        BY <1>0, <3>2 DEF Prices!Restart, Stages
      <4> QED BY <1>0, <4>1
    <3> QED BY <1>5, <3>1, <3>2
  <2>3. \A i \in DOMAIN ticks : Before(ticks', dropped', i) = Before(ticks, dropped, i)
    BY <1>0, <2>1 DEF Before
  <2>4. /\ \A n \in dropped' : n \in Nat /\ n <= Len(ticks')
        /\ cachedPrice' = Before(ticks', dropped', Len(ticks') + 1)
    BY <1>0, <1>a, <2>1 DEF Before
  <2>5. ASSUME NEW i \in DOMAIN ticks
        PROVE  /\ previous[i] = Before(ticks', dropped', i)
               /\ handler'[i] = "announcing" => Prices!Jump(previous[i], ticks[i])
               /\ handler'[i] \in {"notifying", "done"} /\ Prices!Jump(previous[i], ticks[i])
                    => <<i, previous[i]>> \in announced
    BY <2>2, <2>3 DEF PricesIInv
  <2>6. \A e \in announced : \E i \in DOMAIN ticks : e = <<i, previous[i]>> /\ Prices!Jump(previous[i], ticks[i])
    BY DEF PricesIInv
  <2>7. /\ ticks' \in Seq(TickPrice) /\ DOMAIN handler' = DOMAIN ticks' /\ DOMAIN previous' = DOMAIN ticks'
        /\ previous' \in Seq(TickPrice \cup {Prices!NoPrice})'
    BY <1>0, <2>1, <2>2 DEF Prices!NoPrice
  <2>8. \A p, q : Prices!Jump(p, q)' = Prices!Jump(p, q)
    BY DEF Prices!Jump, Prices!Abs
  <2> QED BY <2>1, <2>2, <2>4, <2>5, <2>6, <2>7, <2>8 DEF PricesIInv
<1> QED BY <1>1, <1>3, <1>4, <1>5 DEF Prices!Next

\* Every tick is compared with the one that arrived before it, however the
\* writes of their rows overtake each other: a jump is announced by the time
\* the handler is done, and nothing that is no jump ever is.  The first tick
\* after the cache was emptied is compared with nothing.
THEOREM JumpsAreAnnounced == Prices!Spec => []EveryJumpIsAnnounced
<1>1. PricesIInv => EveryJumpIsAnnounced
  <2> SUFFICES ASSUME PricesIInv, NEW i \in DOMAIN ticks
               PROVE  /\ handler[i] = "done" /\ Prices!Jump(Prices!Before(i), ticks[i])
                           => <<i, Prices!Before(i)>> \in announced
                      /\ \A p \in TickPrice : <<i, p>> \in announced
                           => p = Prices!Before(i) /\ Prices!Jump(p, ticks[i])
    BY DEF EveryJumpIsAnnounced, Prices!EveryJumpIsAnnounced
  <2>1. previous[i] = Prices!Before(i)
    BY DEF PricesIInv, Before, Prices!Before
  <2>2. ASSUME NEW p \in TickPrice, <<i, p>> \in announced
        PROVE  p = previous[i] /\ Prices!Jump(p, ticks[i])
    BY <2>2 DEF PricesIInv
  <2> QED BY <2>1, <2>2 DEF PricesIInv
<1> QED BY <1>1, InitPrices, NextPrices, PTL DEF Prices!Spec

-----------------------------------------------------------------------------
\* Induction, and the total of a sequence.
LEMMA InductionOnSets ==
  ASSUME NEW G, 0 \in G, \A n \in Nat : n \in G => n + 1 \in G
  PROVE  \A n \in Nat : n \in G
<1> DEFINE R == {ss \in Nat \X Nat : ss[1] < ss[2]}
           T == {n \in Nat : n \notin G}
<1> SUFFICES ASSUME T # {} PROVE FALSE
  OBVIOUS
<1>1. IsWellFoundedOn(R, Nat)
  BY NatLessThanWellFounded, Zenon DEF OpToRel
<1>2. PICK x \in T : \A y \in T : ~ (<<y, x>> \in R)
  <2>1. T \subseteq Nat
    OBVIOUS
  <2> HIDE DEF R, T
  <2> QED BY <1>1, <2>1, WFMin
<1>3. \A y \in T : ~(y < x)
  BY <1>2
<1>4. x \in Nat /\ x # 0 /\ x - 1 \in Nat /\ (x - 1) + 1 = x /\ x - 1 < x
  OBVIOUS
<1>5. x - 1 \in G
  BY <1>3, <1>4
<1> QED BY <1>4, <1>5

\* Up to zero there are no numbers.
LEMMA NothingUpToZero == \A t \in SUBSET (1..0) : t = {}
<1>1. 1..0 = {}
  OBVIOUS
<1> QED BY <1>1

Summing(S, s, f) == f = [t \in SUBSET S |-> IF t = {} THEN 0 ELSE LET x == Max(t) IN f[t \ {x}] + s[x]]

Total(s) == FoldLeft(LAMBDA a, q : a + q, 0, s)

\* The total is the value of such a function.
LEMMA TotalIs == ASSUME NEW s PROVE Total(s) = (CHOOSE f : Summing(DOMAIN s, s, f))[DOMAIN s]
  BY DEF Total, FoldLeft, MapThenFoldSet, Summing

\* The greatest of the numbers up to n + 1, when n + 1 is one of them.
LEMMA GreatestOf ==
  ASSUME NEW n \in Nat, NEW t \in SUBSET (1..(n + 1)), n + 1 \in t
  PROVE  Max(t) = n + 1 /\ t \ {n + 1} \in SUBSET (1..n)
<1>1. n + 1 \in t /\ \A y \in t : n + 1 >= y
  OBVIOUS
<1>2. \A x \in t : (\A y \in t : x >= y) => x = n + 1
  BY <1>1
<1>3. Max(t) = n + 1
  BY <1>1, <1>2 DEF Max
<1>4. \A x \in t : x # n + 1 => x \in 1..n
  OBVIOUS
<1> QED BY <1>3, <1>4

\* There is a function that sums up.
LEMMA SummingExists ==
  ASSUME NEW s, NEW n \in Nat
  PROVE  \E f : Summing(1..n, s, f)
<1> DEFINE G == {m \in Nat : \E f : Summing(1..m, s, f)}
<1>1. 0 \in G
  <2>1. 1..0 = {} /\ SUBSET (1..0) = {{}}
    OBVIOUS
  <2> DEFINE f == [t \in SUBSET (1..0) |-> 0]
  <2>2. f = [t \in SUBSET (1..0) |-> IF t = {} THEN 0 ELSE LET x == Max(t) IN f[t \ {x}] + s[x]]
    BY <2>1
  <2> QED BY <2>2 DEF Summing
<1>2. ASSUME NEW m \in Nat, m \in G PROVE m + 1 \in G
  <2>1. PICK f : Summing(1..m, s, f)
    BY <1>2
  <2>2. PICK g : g = [t \in SUBSET (1..(m + 1)) |-> IF m + 1 \in t THEN f[t \ {m + 1}] + s[m + 1] ELSE f[t]]
    OBVIOUS
  <2>3. ASSUME NEW t \in SUBSET (1..(m + 1)) 
        PROVE  g[t] = IF t = {} THEN 0 ELSE LET x == Max(t) IN g[t \ {x}] + s[x]
    <3>1. CASE m + 1 \in t
      <4>1. Max(t) = m + 1 /\ t \ {m + 1} \in SUBSET (1..m)
        BY <3>1, GreatestOf
      <4>2. g[t] = f[t \ {m + 1}] + s[m + 1] /\ g[t \ {m + 1}] = f[t \ {m + 1}]
        BY <2>2, <3>1
      <4> QED BY <3>1, <4>1, <4>2
    <3>2. CASE m + 1 \notin t
      <4>1. t \in SUBSET (1..m) /\ g[t] = f[t]
        BY <2>2, <3>2
      <4>2. f[t] = IF t = {} THEN 0 ELSE LET x == Max(t) IN f[t \ {x}] + s[x]
        BY <2>1, <4>1 DEF Summing
      <4>3. \A x : g[t \ {x}] = f[t \ {x}]
        BY <2>2, <3>2
      <4> QED BY <4>1, <4>2, <4>3
    <3> QED BY <3>1, <3>2
  <2>4. g = [t \in SUBSET (1..(m + 1)) |-> IF t = {} THEN 0 ELSE LET x == Max(t) IN g[t \ {x}] + s[x]]
    BY <2>2, <2>3
  <2>5. Summing(1..(m + 1), s, g)
    BY <2>4 DEF Summing
  <2> QED BY <2>5
<1>3. n \in G
  <2> HIDE DEF G
  <2> QED BY <1>1, <1>2, InductionOnSets
<1> QED BY <1>3

\* And one only; it depends on nothing but the summands.
BothSum(n, s, f, m, r, g) ==
  /\ m <= n /\ \A i \in 1..m : s[i] = r[i]
  /\ Summing(1..n, s, f) /\ Summing(1..m, r, g)

LEMMA SummingUnique ==
  ASSUME NEW n \in Nat, NEW m \in Nat, NEW s, NEW r, NEW f, NEW g, BothSum(n, s, f, m, r, g)
  PROVE  \A t \in SUBSET (1..m) : f[t] = g[t]
<1>a. m <= n /\ \A i \in 1..m : s[i] = r[i]
  BY DEF BothSum
<1> DEFINE G == {k \in Nat : k <= m => \A t \in SUBSET (1..k) : f[t] = g[t]}
<1>0. /\ \A t \in SUBSET (1..n) : f[t] = IF t = {} THEN 0 ELSE LET x == Max(t) IN f[t \ {x}] + s[x]
      /\ \A t \in SUBSET (1..m) : g[t] = IF t = {} THEN 0 ELSE LET x == Max(t) IN g[t \ {x}] + r[x]
  BY DEF Summing, BothSum
<1>1. 0 \in G
  <2>1. f[{}] = 0 /\ g[{}] = 0
    BY <1>0
  <2> QED BY <2>1, NothingUpToZero
<1>2. ASSUME NEW k \in Nat, k \in G PROVE k + 1 \in G
  <2> SUFFICES ASSUME k + 1 <= m, NEW t \in SUBSET (1..(k + 1)) PROVE f[t] = g[t]
    OBVIOUS
  <2>1. \A u \in SUBSET (1..k) : f[u] = g[u]
    BY <1>2
  <2>2. CASE k + 1 \in t
    <3>1. Max(t) = k + 1 /\ t \ {k + 1} \in SUBSET (1..k)
      BY <2>2, GreatestOf
    <3>2. t \in SUBSET (1..n) /\ t \in SUBSET (1..m) /\ t # {} /\ s[k + 1] = r[k + 1]
      BY <1>a, <2>2
    <3>3. f[t] = f[t \ {k + 1}] + s[k + 1] /\ g[t] = g[t \ {k + 1}] + r[k + 1]
      BY <1>0, <3>1, <3>2
    <3> QED BY <2>1, <3>1, <3>2, <3>3
  <2>3. CASE k + 1 \notin t
    <3>1. t \in SUBSET (1..k)
      BY <2>3
    <3> QED BY <2>1, <3>1
  <2> QED BY <2>2, <2>3
<1>3. m \in G
  <2> HIDE DEF G
  <2> QED BY <1>1, <1>2, InductionOnSets
<1> QED BY <1>3

\* One element more adds itself.
LEMMA TotalOfOneMore ==
  ASSUME NEW n \in Nat, NEW s, NEW r, DOMAIN s = 1..n, DOMAIN r = 1..(n + 1),
         \A i \in 1..n : r[i] = s[i]
  PROVE  Total(r) = Total(s) + r[n + 1]
<1>1. PICK k \in Nat : k = n + 1
  OBVIOUS
<1>2. PICK f : Summing(1..n, s, f) /\ Total(s) = f[1..n]
  <2>1. \E h : Summing(1..n, s, h)
    BY SummingExists
  <2> QED BY <2>1, TotalIs
<1>3. PICK g : Summing(1..k, r, g) /\ Total(r) = g[1..k]
  <2>1. \E h : Summing(1..k, r, h)
    BY SummingExists
  <2> QED BY <1>1, <2>1, TotalIs
<1>4. g[1..n] = f[1..n]
  <2>1. n <= k /\ 1..n \in SUBSET (1..n)
    BY <1>1
  <2>2. \A t \in SUBSET (1..n) : g[t] = f[t]
    <3>1. BothSum(k, r, g, n, s, f)
      BY <1>2, <1>3, <2>1 DEF BothSum
    <3>2. BothSum(k, r, g, n, s, f) => \A t \in SUBSET (1..n) : g[t] = f[t]
      BY SummingUnique
    <3> QED BY <3>1, <3>2
  <2> QED BY <2>1, <2>2
<1>5. Max(1..k) = k /\ (1..k) \ {k} = 1..n /\ 1..k # {}
  <2>1. n + 1 \in 1..k /\ (1..k) \ {n + 1} = 1..n /\ 1..k \in SUBSET (1..(n + 1))
    BY <1>1
  <2> QED BY <1>1, <2>1, GreatestOf
<1>6. g[1..k] = g[1..n] + r[k]
  <2>1. g[1..k] = IF 1..k = {} THEN 0 ELSE LET x == Max(1..k) IN g[(1..k) \ {x}] + r[x]
    BY <1>3 DEF Summing
  <2> QED BY <1>5, <2>1
<1> QED BY <1>1, <1>2, <1>3, <1>4, <1>6

\* The same of an appended element.
LEMMA TotalAppend ==
  ASSUME NEW s \in Seq(Int), NEW q \in Int
  PROVE  Total(Append(s, q)) = Total(s) + q
<1>1. PICK n \in Nat : n = Len(s)
  OBVIOUS
<1>2. PICK r : r = Append(s, q)
  OBVIOUS
<1>3. DOMAIN s = 1..n /\ DOMAIN r = 1..(n + 1) /\ r[n + 1] = q /\ \A i \in 1..n : r[i] = s[i]
  BY <1>1, <1>2
<1> QED BY <1>2, <1>3, TotalOfOneMore

\* Nothing totals zero.
LEMMA TotalOfNone == Total(<<>>) = 0
<1>1. PICK f : Summing(1..0, <<>>, f) /\ Total(<<>>) = f[1..0]
  <2>1. \E h : Summing(1..0, <<>>, h)
    BY SummingExists
  <2>2. DOMAIN <<>> = 1..0
    OBVIOUS
  <2> QED BY <2>1, <2>2, TotalIs
<1>2. 1..0 = {} /\ {} \in SUBSET (1..0)
  OBVIOUS
<1> QED BY <1>1, <1>2 DEF Summing

\* The total of integers is an integer.
LEMMA TotalIsInt ==
  ASSUME NEW n \in Nat, NEW s, DOMAIN s = 1..n, \A i \in 1..n : s[i] \in Int
  PROVE  Total(s) \in Int
<1>1. PICK f : Summing(1..n, s, f) /\ Total(s) = f[1..n]
  <2>1. \E h : Summing(1..n, s, h)
    BY SummingExists
  <2> QED BY <2>1, TotalIs
<1>2. \A t \in SUBSET (1..n) : f[t] = IF t = {} THEN 0 ELSE LET x == Max(t) IN f[t \ {x}] + s[x]
  BY <1>1 DEF Summing
<1> DEFINE G == {k \in Nat : k <= n => f[1..k] \in Int}
<1>3. 0 \in G
  <2>1. f[{}] = 0
    BY <1>2
  <2>2. 1..0 = {}
    OBVIOUS
  <2> QED BY <2>1, <2>2
<1>4. ASSUME NEW k \in Nat, k \in G PROVE k + 1 \in G
  <2> SUFFICES ASSUME k + 1 <= n PROVE f[1..(k + 1)] \in Int
    OBVIOUS
  <2>1. k + 1 \in 1..(k + 1) /\ (1..(k + 1)) \ {k + 1} = 1..k /\ 1..(k + 1) \in SUBSET (1..n)
    OBVIOUS
  <2>2. Max(1..(k + 1)) = k + 1
    BY <2>1, GreatestOf
  <2>3. f[1..(k + 1)] = f[1..k] + s[k + 1]
    BY <1>2, <2>1, <2>2
  <2>4. f[1..k] \in Int /\ s[k + 1] \in Int
    BY <1>4
  <2> QED BY <2>3, <2>4
<1>5. n \in G
  <2> HIDE DEF G
  <2> QED BY <1>3, <1>4, InductionOnSets
<1> QED BY <1>1, <1>5

\* What is added to the last element is added to the total.
LEMMA TotalExceptLast ==
  ASSUME NEW s \in Seq(Int), s # <<>>, NEW q \in Int
  PROVE  Total([s EXCEPT ![Len(s)] = @ + q]) = Total(s) + q
<1>1. PICK n \in Nat : n = Len(s) - 1
  OBVIOUS
<1>2. PICK r : r = [s EXCEPT ![Len(s)] = @ + q]
  OBVIOUS
<1>3. PICK p : p = [i \in 1..n |-> s[i]]
  OBVIOUS
<1>4. /\ DOMAIN p = 1..n /\ DOMAIN s = 1..(n + 1) /\ DOMAIN r = 1..(n + 1)
      /\ r[n + 1] = s[n + 1] + q /\ s[n + 1] \in Int
      /\ \A i \in 1..n : r[i] = p[i] /\ s[i] = p[i]
  BY <1>1, <1>2, <1>3
<1>5. Total(s) = Total(p) + s[n + 1]
  BY <1>4, TotalOfOneMore
<1>6. Total(r) = Total(p) + r[n + 1]
  BY <1>4, TotalOfOneMore
<1>7. Total(p) \in Int
  BY <1>4, TotalIsInt
<1> QED BY <1>2, <1>4, <1>5, <1>6, <1>7

-----------------------------------------------------------------------------
\* The plan of slices: the slices so far are what is no longer left, and the
\* loops of TWAP and SPLIT run out of shares no later than out of turns.
PlanIInv ==
  /\ method \in Plan!Method /\ total \in Totals /\ parts \in Parts
  /\ planTurn \in Nat /\ left \in 0..total /\ plan \in Seq(Int) /\ planned \in BOOLEAN
  /\ Total(plan) = IF planned THEN total ELSE total - left
  /\ method # "ICEBERG" => planTurn <= parts
  /\ method # "SPLIT" /\ planTurn > 0 => plan # <<>>
  /\ method = "TWAP" => left = 0 \/ left = total - planTurn * Plan!CeilDiv(total, parts)
  /\ method = "SPLIT" => left = IF planTurn < parts THEN total - planTurn * (total \div parts) ELSE 0

\* Quotient and remainder.
LEMMA DivMod ==
  \A a \in Nat, b \in Nat \ {0} : a \div b \in Nat /\ a % b \in Nat /\ a % b < b /\ a = b * (a \div b) + (a % b)
  OBVIOUS

\* Rounded up, the shares of the parts are enough.
LEMMA CeilIsEnough ==
  ASSUME NEW a \in Nat \ {0}, NEW b \in Nat \ {0}
  PROVE  Plan!CeilDiv(a, b) \in Nat /\ b * Plan!CeilDiv(a, b) >= a
<1>1. PICK c \in Nat : c = a + b - 1
  OBVIOUS
<1>2. c \div b \in Nat /\ c % b \in Nat /\ c % b < b /\ c = b * (c \div b) + (c % b)
  BY DivMod
<1> QED BY <1>1, <1>2 DEF Plan!CeilDiv

LEMMA InitPlan == Plan!Init => PlanIInv
<1> SUFFICES ASSUME Plan!Init PROVE PlanIInv
  OBVIOUS
<1>1. total \in Nat \ {0} /\ parts \in Nat \ {0}
  BY PlanAssumption DEF Plan!Init, Plan!Limits
<1>2. Plan!CeilDiv(total, parts) \in Nat /\ total \div parts \in Nat
  BY <1>1, CeilIsEnough, DivMod
<1>3. 0 * Plan!CeilDiv(total, parts) = 0 /\ 0 * (total \div parts) = 0
  BY <1>2
<1>4. /\ method \in Plan!Method /\ total \in Totals /\ parts \in Parts
      /\ planTurn = 0 /\ left = total /\ plan = <<>> /\ planned = FALSE
  BY DEF Plan!Init
<1>5. Total(plan) = total - left
  BY <1>1, <1>4, TotalOfNone
<1>6. plan \in Seq(Int) /\ 0 \in Nat /\ left \in 0..total
  BY <1>1, <1>4
<1>7. left = total - planTurn * Plan!CeilDiv(total, parts) /\ left = total - planTurn * (total \div parts)
  BY <1>1, <1>3, <1>4
<1>8. planTurn \in Nat /\ ~(planTurn > 0) /\ planTurn <= parts /\ planTurn < parts
  BY <1>1, <1>4
<1>9. planned \in BOOLEAN /\ ~planned
  BY <1>4
<1> QED BY <1>4, <1>5, <1>6, <1>7, <1>8, <1>9 DEF PlanIInv

LEMMA NextPlan == PlanIInv /\ [Plan!Next]_Plan!vars => PlanIInv'
<1> SUFFICES ASSUME PlanIInv, [Plan!Next]_Plan!vars PROVE PlanIInv'
  OBVIOUS
<1>1. /\ total \in Nat \ {0} /\ parts \in Nat \ {0} /\ planTurn \in Nat
      /\ left \in 0..total /\ left \in Nat /\ plan \in Seq(Int) /\ method \in Plan!Method
  BY PlanAssumption DEF PlanIInv, Plan!Limits
<1> DEFINE c == Plan!CeilDiv(total, parts)
           d == total \div parts
           r == total % parts
<1>2. c \in Nat /\ parts * c >= total /\ d \in Nat /\ r \in Nat /\ total = parts * d + r
  BY <1>1, CeilIsEnough, DivMod
<1>3. /\ ~planned => Total(plan) = total - left
      /\ method # "ICEBERG" => planTurn <= parts
      /\ method = "TWAP" => left = 0 \/ left = total - planTurn * c
      /\ method = "SPLIT" => left = IF planTurn < parts THEN total - planTurn * d ELSE 0
  BY DEF PlanIInv
<1> HIDE DEF c, d, r
\* A slice of at most what is left.
<1>4. ASSUME NEW q \in Nat, q <= left, ~planned, Plan!Slice(q), Plan!Rest
      PROVE  /\ method' = method /\ total' = total /\ parts' = parts /\ planned' = planned
             /\ planTurn' = planTurn + 1 /\ left' = left - q /\ left' \in 0..total'
             /\ plan' \in Seq(Int) /\ plan' # <<>> /\ Total(plan') = total - left'
  <2>1. /\ method' = method /\ total' = total /\ parts' = parts /\ planned' = planned
        /\ planTurn' = planTurn + 1 /\ left' = left - q /\ plan' = Append(plan, q)
    BY <1>4 DEF Plan!Slice, Plan!Rest
  <2>2. Total(plan') = Total(plan) + q
    BY <1>1, <2>1, TotalAppend
  <2>3. plan' \in Seq(Int) /\ plan' # <<>>
    BY <1>1, <2>1
  <2> QED BY <1>1, <1>3, <1>4, <2>1, <2>2, <2>3
<1>5. ASSUME NEW x \in Nat, NEW y \in Nat PROVE Plan!Smaller(x, y) \in Nat /\ Plan!Smaller(x, y) <= y
  BY DEF Plan!Smaller
<1>6. CASE Plan!TwapSlice
  <2> DEFINE q == Plan!Smaller(c, left)
  <2>1. ~planned /\ method = "TWAP" /\ left > 0 /\ planTurn < parts /\ Plan!Slice(q) /\ Plan!Rest
    BY <1>6 DEF Plan!TwapSlice, Plan!Turn, c
  <2>2. q \in Nat /\ q <= left /\ (q = c \/ q = left)
    BY <1>1, <1>2, <1>5 DEF Plan!Smaller
  <2> HIDE DEF q
  <2>3. /\ method' = method /\ total' = total /\ parts' = parts /\ planned' = planned
        /\ planTurn' = planTurn + 1 /\ left' = left - q /\ left' \in 0..total'
        /\ plan' \in Seq(Int) /\ plan' # <<>> /\ Total(plan') = total - left'
    BY <1>4, <2>1, <2>2
  <2>4. left' = 0 \/ left' = total - (planTurn + 1) * c
    BY <1>1, <1>2, <1>3, <2>1, <2>2, <2>3
  <2>5. c' = c
    BY <2>3 DEF c
  <2> QED BY <1>1, <2>1, <2>3, <2>4, <2>5 DEF PlanIInv, c
<1>7. CASE Plan!VwapSlice
  <2>1. PICK rate \in Rates : Plan!Slice(Plan!Smaller(Plan!CeilDiv(c * rate, 100), left))
    BY <1>7 DEF Plan!VwapSlice, c
  <2> DEFINE q == Plan!Smaller(Plan!CeilDiv(c * rate, 100), left)
  <2>2. ~planned /\ method = "VWAP" /\ left > 0 /\ planTurn < parts /\ Plan!Rest
    BY <1>7 DEF Plan!VwapSlice, Plan!Turn
  <2>3. q \in Nat /\ q <= left
    <3>1. c * rate \in Nat
      BY <1>2, PlanAssumption DEF Plan!Limits
    <3>2. (c * rate + 100 - 1) \div 100 \in Nat
      BY <3>1
    <3>3. PICK w \in Nat : w = Plan!CeilDiv(c * rate, 100)
      BY <3>2 DEF Plan!CeilDiv
    <3> QED BY <1>1, <1>5, <3>3
  <2>4. Plan!Slice(q)
    BY <2>1
  <2> HIDE DEF q
  <2>5. /\ method' = method /\ total' = total /\ parts' = parts /\ planned' = planned
        /\ planTurn' = planTurn + 1 /\ left' = left - q /\ left' \in 0..total'
        /\ plan' \in Seq(Int) /\ plan' # <<>> /\ Total(plan') = total - left'
    BY <1>4, <2>2, <2>3, <2>4
  <2> QED BY <1>1, <2>2, <2>5 DEF PlanIInv
<1>8. CASE Plan!IcebergSlice
  <2> DEFINE q == Plan!Smaller(parts, left)
  <2>1. ~planned /\ method = "ICEBERG" /\ left > 0 /\ Plan!Slice(q) /\ Plan!Rest
    BY <1>8 DEF Plan!IcebergSlice
  <2>2. q \in Nat /\ q <= left
    BY <1>1, <1>5
  <2> HIDE DEF q
  <2>3. /\ method' = method /\ total' = total /\ parts' = parts /\ planned' = planned
        /\ planTurn' = planTurn + 1 /\ left' = left - q /\ left' \in 0..total'
        /\ plan' \in Seq(Int) /\ plan' # <<>> /\ Total(plan') = total - left'
    BY <1>4, <2>1, <2>2
  <2> QED BY <1>1, <2>1, <2>3 DEF PlanIInv
<1>9. CASE Plan!SplitSlice
  <2> DEFINE q == Plan!SplitQuantity
  <2>1. ~planned /\ method = "SPLIT" /\ planTurn < parts /\ Plan!Rest
    BY <1>9 DEF Plan!SplitSlice
  <2>2. q = IF planTurn = parts - 1 THEN d + r ELSE d
    BY <1>2 DEF Plan!SplitQuantity, d, r
  <2>3. left = total - planTurn * d
    BY <1>3, <2>1
  <2>4. q \in Nat /\ q <= left /\ left - q = IF planTurn + 1 < parts THEN total - (planTurn + 1) * d ELSE 0
    <3>1. CASE planTurn = parts - 1
      <4>1. parts * d = planTurn * d + d
        BY <1>1, <1>2, <3>1
      <4> QED BY <1>1, <1>2, <2>2, <2>3, <3>1, <4>1
    <3>2. CASE planTurn # parts - 1
      <4>1. planTurn + 1 < parts
        BY <1>1, <2>1, <3>2
      <4>2. parts * d >= (planTurn + 1) * d /\ (planTurn + 1) * d = planTurn * d + d
        <5>1. PICK e \in Nat : parts = (planTurn + 1) + e
          BY <1>1, <4>1
        <5>2. parts * d = (planTurn + 1) * d + e * d /\ e * d \in Nat
          BY <1>1, <1>2, <5>1
        <5>3. (planTurn + 1) * d \in Nat /\ (planTurn + 1) * d = planTurn * d + d
          BY <1>1, <1>2
        <5> QED BY <5>2, <5>3
      <4>3. planTurn * d \in Nat /\ parts * d \in Nat
        BY <1>1, <1>2
      <4> QED BY <1>1, <1>2, <2>2, <2>3, <3>2, <4>1, <4>2, <4>3
    <3> QED BY <3>1, <3>2
  <2> HIDE DEF q
  <2>5. /\ method' = method /\ total' = total /\ parts' = parts /\ planned' = planned
        /\ planTurn' = planTurn + 1 /\ left' = left - q /\ left' \in 0..total'
        /\ plan' \in Seq(Int) /\ Total(plan') = total - left'
    <3>1. CASE q > 0
      <4>1. Plan!Slice(q)
        BY <1>9, <3>1 DEF Plan!SplitSlice, q
      <4> QED BY <1>4, <2>1, <2>4, <4>1
    <3>2. CASE ~(q > 0)
      <4>1. planTurn' = planTurn + 1 /\ plan' = plan /\ left' = left
        BY <1>9, <3>2 DEF Plan!SplitSlice, q
      <4>2. q = 0
        BY <2>4, <3>2
      <4> QED BY <1>1, <1>3, <2>1, <2>4, <4>1, <4>2 DEF Plan!Rest
    <3> QED BY <3>1, <3>2
  <2>6. d' = d
    BY <2>5 DEF d
  <2>7. left' = IF planTurn' < parts' THEN total' - planTurn' * (total' \div parts') ELSE 0
    BY <2>4, <2>5, <2>6 DEF d
  <2> QED BY <1>1, <2>1, <2>5, <2>7 DEF PlanIInv
<1>10. CASE Plan!End
  <2>1. /\ ~planned /\ planned' = TRUE /\ Plan!Leftover(method)
        /\ method' = method /\ total' = total /\ parts' = parts /\ planTurn' = planTurn /\ left' = left
    BY <1>10 DEF Plan!End
  <2>2. CASE method = "VWAP" /\ left > 0
    <3>1. planTurn = parts
      BY <1>10, <2>2 DEF Plan!End
    <3>2. plan # <<>>
      BY <1>1, <2>2, <3>1 DEF PlanIInv
    <3>3. plan' = [plan EXCEPT ![Len(plan)] = @ + left]
      BY <2>1, <2>2, <3>2 DEF Plan!Leftover
    <3>4. plan' \in Seq(Int) /\ plan' # <<>>
      BY <1>1, <3>2, <3>3
    <3>5. Total(plan') = Total(plan) + left
      <4>1. left \in Int
        BY <1>1
      <4>2. Total([plan EXCEPT ![Len(plan)] = @ + left]) = Total(plan) + left
        BY <1>1, <3>2, <4>1, TotalExceptLast
      <4> QED BY <3>3, <4>2
    <3>6. Total(plan') = total
      BY <1>1, <1>3, <2>1, <3>5
    <3> QED BY <2>1, <2>2, <3>1, <3>4, <3>6 DEF PlanIInv
  <2>3. CASE ~(method = "VWAP" /\ left > 0)
    <3>1. left = 0
      <4>1. CASE method = "TWAP"
        <5>1. left = 0 \/ planTurn = parts
          BY <1>10, <4>1 DEF Plan!End
        <5>2. CASE planTurn = parts
          BY <1>1, <1>2, <1>3, <4>1, <5>2
        <5> QED BY <5>1, <5>2
      <4>2. CASE method = "VWAP"
        BY <1>1, <2>3, <4>2
      <4>3. CASE method = "ICEBERG"
        BY <1>10, <4>3 DEF Plan!End
      <4>4. CASE method = "SPLIT"
        <5>1. planTurn = parts
          BY <1>10, <4>4 DEF Plan!End
        <5> QED BY <1>1, <1>3, <4>4, <5>1
      <4> QED BY <1>1, <4>1, <4>2, <4>3, <4>4 DEF Plan!Method
    <3>2. plan' = plan
      BY <2>1, <2>3, <3>1 DEF Plan!Leftover
    <3>3. Total(plan') = total
      BY <1>1, <1>3, <2>1, <3>1, <3>2
    <3> QED BY <2>1, <3>2, <3>3 DEF PlanIInv
  <2> QED BY <2>2, <2>3
<1>11. CASE UNCHANGED Plan!vars
  BY <1>11 DEF PlanIInv, Plan!vars
<1> QED BY <1>6, <1>7, <1>8, <1>9, <1>10, <1>11 DEF Plan!Next

\* Whatever the quantity, the number of slices and the volume profile: the
\* slices of a TWAP, a VWAP, an iceberg and a split order add up to what was
\* asked for.
THEOREM PlansAreWhole == Plan!Spec => []PlanIsWhole
<1>1. PlanIInv => PlanIsWhole
  <2>1. Plan!Sum(plan) = Total(plan)
    BY DEF Plan!Sum, Plan!FoldLeft, Plan!MapThenFoldSet, Plan!Max, Total, FoldLeft, MapThenFoldSet, Max
  <2> QED BY <2>1 DEF PlanIInv, PlanIsWhole, Plan!PlanIsWhole
<1> QED BY <1>1, InitPlan, NextPlan, PTL DEF Plan!Spec

-----------------------------------------------------------------------------
\* The money of a backtest.  A position, the money beside it and the trades are
\* sound when they account for the capital, and nothing is overdrawn.
Trade       == [stock : Test!Traded, pnl : Int, signal : {"EXIT", "OPEN"}]
EntryPrices == {close * (100 + Slippage) : close \in Close}
Holding     == [stock : Test!Traded, quantity : Nat, entryPrice : EntryPrices]
ResultsOf(ts) == [n \in DOMAIN ts |-> IF ts[n].signal = "EXIT" THEN ts[n].pnl ELSE 0]

Sound(p, money, ts) ==
  /\ p \in Holding \cup {Test!None} /\ money \in Int /\ ts \in Seq(Trade)
  /\ money + Test!Cost(p) = InitialCapital * 10000 + Total(ResultsOf(ts))
  /\ sizing # "FIXED" /\ Test!Prudent => money >= 0

MoneyIInv ==
  /\ sizing \in Test!Sizing /\ enters \subseteq Test!Traded /\ testTurn \in Nat \ {0}
  /\ Sound(position, capital, trades)
  /\ last \in [Test!Traded -> Close \cup {Test!NoPrice}]
  /\ position # Test!None => last[position.stock] # Test!NoPrice

\* The constants of a backtest are numbers.
LEMMA ConstantsOfTest ==
  /\ \A c \in Close : c \in Nat \ {0}
  /\ InitialCapital \in Nat /\ FixedAmount \in Nat /\ PercentPerTrade \in Nat
  /\ Commission \in 0..100 /\ Slippage \in 0..100
  /\ \A c \in Close : c * (100 + Slippage) \in Nat \ {0} /\ c * (100 - Slippage) \in Nat
  /\ \A e \in EntryPrices : e \in Nat \ {0}
<1>1. /\ \A c \in Close : c \in Nat \ {0}
      /\ InitialCapital \in Nat /\ FixedAmount \in Nat /\ PercentPerTrade \in Nat
      /\ Commission \in 0..100 /\ Slippage \in 0..100
  BY TestAssumption DEF Test!Limits
<1>2. PICK s \in Nat : s = 100 + Slippage /\ s # 0
  BY <1>1
<1>3. PICK r \in Nat : r = 100 - Slippage
  BY <1>1
<1>4. ASSUME NEW c \in Close PROVE c * s \in Nat \ {0} /\ c * r \in Nat
  BY <1>1, <1>2, <1>3
<1> QED BY <1>1, <1>2, <1>3, <1>4 DEF EntryPrices

\* To hold nothing costs nothing.
LEMMA NoneCostsNothing == Test!Cost(Test!None) = 0 /\ Test!None \notin Holding
<1>1. 0 \notin Test!Traded
  BY TestAssumption DEF Test!Limits, Test!Traded
<1> QED BY <1>1 DEF Test!Cost, Test!None, Holding

\* A trade appended adds its result.
LEMMA OneMoreTrade ==
  ASSUME NEW ts \in Seq(Trade), NEW t \in Trade
  PROVE  Total(ResultsOf(Append(ts, t))) = Total(ResultsOf(ts)) + (IF t.signal = "EXIT" THEN t.pnl ELSE 0)
<1>1. PICK n \in Nat : n = Len(ts)
  OBVIOUS
<1>2. PICK us : us = Append(ts, t)
  OBVIOUS
<1>3. DOMAIN ts = 1..n /\ DOMAIN us = 1..(n + 1) /\ us[n + 1] = t /\ \A i \in 1..n : us[i] = ts[i]
  BY <1>1, <1>2
<1>4. PICK s : s = ResultsOf(ts)
  OBVIOUS
<1>5. PICK r : r = ResultsOf(us)
  OBVIOUS
<1>6. /\ DOMAIN s = 1..n /\ DOMAIN r = 1..(n + 1) /\ \A i \in 1..n : r[i] = s[i]
      /\ r[n + 1] = IF t.signal = "EXIT" THEN t.pnl ELSE 0
  BY <1>3, <1>4, <1>5 DEF ResultsOf
<1>7. Total(r) = Total(s) + r[n + 1]
  BY <1>6, TotalOfOneMore
<1> QED BY <1>2, <1>4, <1>5, <1>6, <1>7

\* Where the price covers the commissions, an exit gives no less than nothing.
LEMMA ExitPays ==
  ASSUME Test!Prudent, NEW q \in Nat, NEW e \in EntryPrices, NEW c \in Close
  PROVE  LET x == c * (100 - Slippage) IN
         100 * e * q + (100 * (x - e) * q - (e + x) * q * Commission) >= 0
<1>1. PICK b \in Close : e = b * (100 + Slippage)
  BY DEF EntryPrices
<1>2. PICK x \in Nat : x = c * (100 - Slippage)
  BY ConstantsOfTest
<1>3. e \in Nat /\ Commission \in Nat /\ 100 - Commission \in Nat
  BY ConstantsOfTest
<1>4. b * (100 + Slippage) * Commission <= c * (100 - Slippage) * (100 - Commission)
  BY DEF Test!Prudent
<1>5. e * Commission <= x * (100 - Commission)
  BY <1>1, <1>2, <1>4
<1>6. PICK d \in Nat : d = x * (100 - Commission) - e * Commission
  <2>1. e * Commission \in Nat /\ x * (100 - Commission) \in Nat
    BY <1>3
  <2> QED BY <1>5, <2>1
<1>7. q * d \in Nat
  OBVIOUS
<1>8. 100 * e * q + (100 * (x - e) * q - (e + x) * q * Commission) = q * d
  BY <1>3, <1>6
<1> QED BY <1>2, <1>7, <1>8

\* What is bought by the capital costs no more than the capital.
LEMMA WithinTheMoney ==
  ASSUME sizing \in Test!Sizing, sizing # "FIXED", Test!Prudent, NEW money \in Nat, NEW price \in Nat \ {0}
  PROVE  /\ Test!PositionSize(money, price) \in Nat
         /\ 100 * price * Test!PositionSize(money, price) <= money
<1>1. PICK q : q = Test!PositionSize(money, price)
  OBVIOUS
<1>2. CASE sizing = "PERCENT"
  <2>a. PICK p \in 0..100 : p = PercentPerTrade
    BY ConstantsOfTest DEF Test!Prudent
  <2>b. money * (100 - p) \in Nat /\ money * p \in Nat /\ money * 100 = money * p + money * (100 - p)
    OBVIOUS
  <2>1. PICK a \in Nat : a = money * PercentPerTrade /\ a <= money * 100
    BY <2>a, <2>b
  <2>2. PICK b \in Nat \ {0} : b = 100 * 100 * price
    OBVIOUS
  <2>3. q = a \div b
    BY <1>1, <1>2, <2>1, <2>2 DEF Test!PositionSize
  <2>4. q \in Nat /\ b * q <= a
    BY <2>3, DivMod
  <2>5. PICK w \in Nat : w = price * q
    BY <2>4
  <2>6. b * q = 10000 * w /\ 100 * price * q = 100 * w
    BY <2>2, <2>4, <2>5
  <2> QED BY <1>1, <2>1, <2>4, <2>6
<1>3. CASE sizing = "KELLY"
  <2>1. PICK b \in Nat \ {0} : b = 4 * 100 * price
    OBVIOUS
  <2>2. q = money \div b
    BY <1>1, <1>3, <2>1 DEF Test!PositionSize
  <2>3. q \in Nat /\ b * q <= money
    BY <2>2, DivMod
  <2>4. PICK w \in Nat : w = price * q
    BY <2>3
  <2>5. b * q = 400 * w /\ 100 * price * q = 100 * w
    BY <2>1, <2>3, <2>4
  <2> QED BY <1>1, <2>3, <2>5
<1>4. CASE sizing = "OTHER"
  <2>1. PICK b \in Nat \ {0} : b = 10 * 100 * price
    OBVIOUS
  <2>2. q = money \div b
    BY <1>1, <1>4, <2>1 DEF Test!PositionSize
  <2>3. q \in Nat /\ b * q <= money
    BY <2>2, DivMod
  <2>4. PICK w \in Nat : w = price * q
    BY <2>3
  <2>5. b * q = 1000 * w /\ 100 * price * q = 100 * w
    BY <2>1, <2>3, <2>4
  <2> QED BY <1>1, <2>3, <2>5
<1> QED BY <1>2, <1>3, <1>4 DEF Test!Sizing

\* The size of an entry is a number of shares.
LEMMA SizeIsWhole ==
  ASSUME sizing \in Test!Sizing, NEW money \in Int, NEW price \in Nat \ {0}
  PROVE  Test!PositionSize(money, price) \in Int
<1>1. \A a \in Int, b \in Nat \ {0} : a \div b \in Int
  OBVIOUS
<1>2. PICK f \in Int : f = FixedAmount * 100
  BY ConstantsOfTest
<1>3. PICK a \in Int : a = money * PercentPerTrade
  BY ConstantsOfTest
<1>4. PICK b \in Nat \ {0} : b = 100 * 100 * price
  OBVIOUS
<1>5. PICK c \in Nat \ {0} : c = 4 * 100 * price
  OBVIOUS
<1>6. PICK d \in Nat \ {0} : d = 10 * 100 * price
  OBVIOUS
<1>7. f \div price \in Int /\ a \div b \in Int /\ money \div c \in Int /\ money \div d \in Int
  BY <1>1
<1> QED BY <1>2, <1>3, <1>4, <1>5, <1>6, <1>7 DEF Test!PositionSize, Test!Sizing

\* Results are integers, so their total is.
LEMMA ResultsAddUp == ASSUME NEW ts \in Seq(Trade) PROVE Total(ResultsOf(ts)) \in Int
<1>1. PICK n \in Nat : n = Len(ts)
  OBVIOUS
<1>2. PICK s : s = ResultsOf(ts)
  OBVIOUS
<1>3. DOMAIN s = 1..n /\ \A i \in 1..n : s[i] = IF ts[i].signal = "EXIT" THEN ts[i].pnl ELSE 0
  BY <1>1, <1>2 DEF ResultsOf
<1>4. \A i \in 1..n : ts[i].pnl \in Int
  <2>1. \A i \in 1..n : ts[i] \in Trade
    BY <1>1
  <2> QED BY <2>1 DEF Trade
<1>5. \A i \in 1..n : s[i] \in Int
  BY <1>3, <1>4
<1> QED BY <1>2, <1>3, <1>5, TotalIsInt

\* Sets of numbers with a bound have a greatest one.
LEMMA HasGreatest ==
  ASSUME NEW n \in Nat, NEW S \in SUBSET (1..n), S # {}
  PROVE  \E x \in S : \A y \in S : y <= x
<1> DEFINE G == {m \in Nat : \A t \in SUBSET (1..m) : t # {} => \E x \in t : \A y \in t : y <= x}
<1>1. 0 \in G
  BY NothingUpToZero
<1>2. ASSUME NEW m \in Nat, m \in G PROVE m + 1 \in G
  <2> SUFFICES ASSUME NEW t \in SUBSET (1..(m + 1)), t # {} PROVE \E x \in t : \A y \in t : y <= x
    OBVIOUS
  <2>1. CASE m + 1 \in t
    BY <2>1
  <2>2. CASE m + 1 \notin t
    <3>1. t \in SUBSET (1..m)
      BY <2>2
    <3> QED BY <1>2, <3>1
  <2> QED BY <2>1, <2>2
<1>3. n \in G
  <2> HIDE DEF G
  <2> QED BY <1>1, <1>2, InductionOnSets
<1> QED BY <1>3

\* A position that is still held has a price it can be valued at.
LEMMA LastPriceIsWhole == ASSUME MoneyIInv, position # Test!None PROVE Test!LastPrice \in Int
<1> DEFINE quoted == {s \in Test!Traded : last[s] # Test!NoPrice}
           newest == CHOOSE s \in quoted : \A t \in quoted : t <= s
<1>1. PICK n \in Nat : Test!Traded = 1..n
  BY TestAssumption DEF Test!Limits, Test!Traded
<1>2. quoted \in SUBSET (1..n) /\ quoted # {}
  BY <1>1 DEF MoneyIInv, Sound, Holding
<1>3. \E s \in quoted : \A t \in quoted : t <= s
  <2> HIDE DEF quoted
  <2> QED BY <1>2, HasGreatest
<1>4. newest \in quoted
  BY <1>3
<1> HIDE DEF newest
<1>5. last[newest] \in Int
  BY <1>4, ConstantsOfTest DEF MoneyIInv
<1> QED BY <1>5 DEF Test!LastPrice, newest

\* Leaving keeps the accounts.
LEMMA SoundAfterExit ==
  ASSUME MoneyIInv, NEW s \in Nat \ {0}, NEW close \in Close
  PROVE  LET k == Test!AfterExit(s, close) IN Sound(k.position, k.money, k.trades)
<1>1. Sound(position, capital, trades)
  BY DEF MoneyIInv
<1>2. CASE position.stock = s /\ Test!ShouldExit(s, close, position)
  <2> DEFINE x    == Test!ExitPrice(close)
             net  == Test!NetPnl(position, x)
             cost == Test!Cost(position)
             t    == [stock |-> s, pnl |-> net, signal |-> "EXIT"]
  <2>1. position \in Holding /\ s \in Test!Traded
    BY <1>1, <1>2 DEF Sound, Test!None, Holding
  <2>2. PICK q \in Nat : q = position.quantity
    BY <2>1 DEF Holding
  <2>3. PICK e \in EntryPrices : e = position.entryPrice
    BY <2>1 DEF Holding
  <2>4. x = close * (100 - Slippage) /\ x \in Nat /\ e \in Nat /\ Commission \in Nat
    BY ConstantsOfTest DEF Test!ExitPrice
  <2>5. cost = 100 * e * q /\ net = 100 * (x - e) * q - (e + x) * q * Commission
    BY <2>2, <2>3 DEF Test!Cost, Test!NetPnl
  <2>6. cost \in Int /\ net \in Int
    BY <2>4, <2>5
  <2>7. Test!Prudent => cost + net >= 0
    BY <2>4, <2>5, ExitPays
  <2> HIDE DEF x, net, cost
  <2>8. Test!AfterExit(s, close) = [position |-> Test!None, money |-> capital + cost + net, trades |-> Append(trades, t)]
    BY <1>2 DEF Test!AfterExit, x, net, cost
  <2>9. t \in Trade /\ t.signal = "EXIT" /\ t.pnl = net
    BY <2>1, <2>6 DEF Trade
  <2> HIDE DEF t
  <2>10. Append(trades, t) \in Seq(Trade)
    BY <1>1, <2>9 DEF Sound
  <2>11. Total(ResultsOf(Append(trades, t))) = Total(ResultsOf(trades)) + net
    BY <1>1, <2>9, OneMoreTrade DEF Sound
  <2>12. capital \in Int /\ capital + cost = InitialCapital * 10000 + Total(ResultsOf(trades))
    BY <1>1 DEF Sound, cost
  <2>13. sizing # "FIXED" /\ Test!Prudent => capital >= 0
    BY <1>1 DEF Sound
  <2>14. Total(ResultsOf(trades)) \in Int
    BY <1>1, ResultsAddUp DEF Sound
  <2>15. /\ (capital + cost + net) + 0 = InitialCapital * 10000 + Total(ResultsOf(Append(trades, t)))
         /\ capital + cost + net \in Int
         /\ sizing # "FIXED" /\ Test!Prudent => capital + cost + net >= 0
    BY <2>6, <2>7, <2>11, <2>12, <2>13, <2>14, ConstantsOfTest
  <2>16. Sound(Test!None, capital + cost + net, Append(trades, t))
    BY <2>10, <2>15, NoneCostsNothing DEF Sound
  <2> QED BY <2>8, <2>16
<1>3. CASE ~(position.stock = s /\ Test!ShouldExit(s, close, position))
  <2>1. Test!AfterExit(s, close) = [position |-> position, money |-> capital, trades |-> trades]
    BY <1>3 DEF Test!AfterExit
  <2> QED BY <1>1, <2>1
<1> QED BY <1>2, <1>3

\* So does entering.
LEMMA SoundAfterEntry ==
  ASSUME sizing \in Test!Sizing, enters \subseteq Test!Traded, NEW s \in Nat \ {0}, NEW close \in Close,
         NEW p, NEW money, NEW ts, Sound(p, money, ts)
  PROVE  LET k == Test!AfterEntry(s, close, [position |-> p, money |-> money, trades |-> ts])
         IN  Sound(k.position, k.money, k.trades)
<1> DEFINE k0     == [position |-> p, money |-> money, trades |-> ts]
           bought == Test!Entry(s, close, money)
           price  == close * (100 + Slippage)
           q      == Test!PositionSize(money, price)
<1>1. bought = [stock |-> s, entryPrice |-> price, quantity |-> q]
  BY DEF Test!Entry
<1>2. price \in Nat \ {0} /\ price \in EntryPrices
  BY ConstantsOfTest DEF EntryPrices
<1>3. bought.quantity = q
  BY <1>1
<1> HIDE DEF bought, price, q
<1>4. CASE k0.position = Test!None /\ s \in enters /\ bought.quantity > 0
  <2> DEFINE cost == Test!Cost(bought)
  <2>1. Test!AfterEntry(s, close, k0) = [k0 EXCEPT !.position = bought, !.money = @ - cost]
    BY <1>4 DEF Test!AfterEntry, bought
  <2>2. p = Test!None
    BY <1>4
  <2>3. q \in Nat
    <3>1. q \in Int
      BY <1>2, SizeIsWhole DEF Sound, q
    <3> QED BY <1>3, <1>4, <3>1
  <2>4. bought \in Holding
    BY <1>1, <1>2, <1>4, <2>3 DEF Holding
  <2>5. cost = 100 * price * q /\ cost \in Nat
    BY <1>1, <1>2, <2>3 DEF Test!Cost
  <2>6. sizing # "FIXED" /\ Test!Prudent => cost <= money
    BY <1>2, <2>5, WithinTheMoney DEF Sound, q
  <2> HIDE DEF cost
  <2>7. money \in Int /\ ts \in Seq(Trade) /\ money + 0 = InitialCapital * 10000 + Total(ResultsOf(ts))
    BY <2>2, NoneCostsNothing DEF Sound
  <2>8. /\ money - cost \in Int /\ (money - cost) + cost = InitialCapital * 10000 + Total(ResultsOf(ts))
        /\ sizing # "FIXED" /\ Test!Prudent => money - cost >= 0
    BY <2>5, <2>6, <2>7
  <2>9. Sound(bought, money - cost, ts)
    BY <2>4, <2>7, <2>8 DEF Sound, cost
  <2> QED BY <2>1, <2>9
<1>5. CASE ~(k0.position = Test!None /\ s \in enters /\ bought.quantity > 0)
  <2>1. Test!AfterEntry(s, close, k0) = k0
    BY <1>5 DEF Test!AfterEntry, bought
  <2> QED BY <2>1
<1> QED BY <1>4, <1>5

LEMMA InitMoney == Test!Init => MoneyIInv
<1> SUFFICES ASSUME Test!Init PROVE MoneyIInv
  OBVIOUS
<1>1. /\ sizing \in Test!Sizing /\ enters \subseteq Test!Traded /\ testTurn = 1
      /\ capital = InitialCapital * 10000 /\ position = Test!None /\ trades = <<>>
      /\ last = [s \in Test!Traded |-> Test!NoPrice]
  BY DEF Test!Init
<1>2. capital \in Int /\ capital >= 0 /\ capital + 0 = InitialCapital * 10000 + 0
  BY <1>1, ConstantsOfTest
<1>3. trades \in Seq(Trade) /\ ResultsOf(trades) = <<>>
  <2>1. DOMAIN <<>> = {} /\ ResultsOf(<<>>) = <<>>
    BY DEF ResultsOf
  <2> QED BY <1>1, <2>1
<1>4. Sound(position, capital, trades)
  BY <1>1, <1>2, <1>3, TotalOfNone, NoneCostsNothing DEF Sound
<1> QED BY <1>1, <1>4 DEF MoneyIInv

LEMMA NextMoney == MoneyIInv /\ [Test!Next]_Test!vars => MoneyIInv'
<1> SUFFICES ASSUME MoneyIInv, [Test!Next]_Test!vars PROVE MoneyIInv'
  OBVIOUS
<1>1. /\ sizing \in Test!Sizing /\ enters \subseteq Test!Traded /\ testTurn \in Nat \ {0}
      /\ Sound(position, capital, trades)
      /\ last \in [Test!Traded -> Close \cup {Test!NoPrice}]
      /\ position # Test!None => last[position.stock] # Test!NoPrice
  BY DEF MoneyIInv
<1>2. Len(Stocks) \in Nat
  BY TestAssumption DEF Test!Limits
\* The invariant speaks of these alone.
<1>3. ASSUME sizing' = sizing, enters' = enters, testTurn' \in Nat \ {0},
             Sound(position', capital', trades'),
             last' \in [Test!Traded -> Close \cup {Test!NoPrice}],
             position' # Test!None => last'[position'.stock] # Test!NoPrice
      PROVE  MoneyIInv'
  <2>1. Sound(position, capital, trades)'
    BY <1>3 DEF Sound, Trade, Holding, EntryPrices, ResultsOf, Total, Test!Cost, Test!None,
           Test!Traded, FoldLeft, MapThenFoldSet, Max
  <2> QED BY <1>1, <1>3, <2>1 DEF MoneyIInv, Test!Sizing, Test!Traded, Test!None, Test!NoPrice
<1>4. Test!NextTurn => testTurn' \in Nat \ {0}
  BY <1>1, <1>2 DEF Test!NextTurn
<1>5. CASE Test!NoCandle
  BY <1>1, <1>3, <1>4, <1>5 DEF Test!NoCandle
<1>6. ASSUME NEW close \in Close, Test!Candle(close) PROVE MoneyIInv'
  <2>1. PICK k : k = Test!AfterExit(testTurn, close)
    OBVIOUS
  <2>2. Sound(k.position, k.money, k.trades)
    BY <1>1, <2>1, SoundAfterExit
  <2>3. k = [position |-> k.position, money |-> k.money, trades |-> k.trades]
    BY <2>1 DEF Test!AfterExit
  <2>4. PICK m : m = Test!AfterEntry(testTurn, close, k)
    OBVIOUS
  <2>5. Sound(m.position, m.money, m.trades)
    BY <1>1, <2>2, <2>3, <2>4, SoundAfterEntry
  <2>6. /\ capital' = m.money /\ position' = m.position /\ trades' = m.trades
        /\ last' = [last EXCEPT ![testTurn] = close]
        /\ sizing' = sizing /\ enters' = enters /\ Test!NextTurn
    BY <1>6, <2>1, <2>4 DEF Test!Candle
  <2>7. m.position # Test!None => m.position = position \/ m.position.stock = testTurn
    <3>1. k.position \in {position, Test!None}
      BY <2>1 DEF Test!AfterExit
    <3>2. m.position = k.position \/ m.position.stock = testTurn
      BY <2>3, <2>4 DEF Test!AfterEntry, Test!Entry
    <3> QED BY <3>1, <3>2
  <2>8. m.position # Test!None => m.position.stock \in Test!Traded
    BY <2>5 DEF Sound, Holding
  <2>9. close # Test!NoPrice
    BY ConstantsOfTest DEF Test!NoPrice
  <2>10. last' \in [Test!Traded -> Close \cup {Test!NoPrice}]
    BY <1>1, <2>6
  <2>11. position' # Test!None => last'[position'.stock] # Test!NoPrice
    BY <1>1, <2>6, <2>7, <2>8, <2>9
  <2> QED BY <1>3, <1>4, <2>5, <2>6, <2>10, <2>11
<1>7. CASE Test!CloseOpen
  <2>1. /\ sizing' = sizing /\ enters' = enters /\ testTurn' = testTurn
        /\ capital' = capital /\ position' = position /\ last' = last
    BY <1>7 DEF Test!CloseOpen
  <2>2. CASE position = Test!None
    <3>1. trades' = trades
      BY <1>7, <2>2 DEF Test!CloseOpen
    <3> QED BY <1>1, <1>3, <2>1, <3>1
  <2>3. CASE position # Test!None
    <3>1. PICK t : /\ trades' = Append(trades, t)
                   /\ t = [stock |-> position.stock, signal |-> "OPEN",
                           pnl |-> 100 * (100 * Test!LastPrice - position.entryPrice) * position.quantity]
      BY <1>7, <2>3 DEF Test!CloseOpen
    <3>2. position \in Holding /\ Test!LastPrice \in Int
      BY <1>1, <2>3, LastPriceIsWhole DEF Sound
    <3>3. PICK e \in Nat : e = position.entryPrice
      BY <3>2, ConstantsOfTest DEF Holding
    <3>4. PICK q \in Nat : q = position.quantity
      BY <3>2 DEF Holding
    <3>5. 100 * (100 * Test!LastPrice - e) * q \in Int
      BY <3>2
    <3>6. t \in Trade /\ t.signal # "EXIT"
      BY <3>1, <3>2, <3>3, <3>4, <3>5 DEF Trade, Holding
    <3>7. trades \in Seq(Trade) /\ Append(trades, t) \in Seq(Trade) /\ Total(ResultsOf(trades)) \in Int
      BY <1>1, <3>6, ResultsAddUp DEF Sound
    <3>8. Total(ResultsOf(Append(trades, t))) = Total(ResultsOf(trades))
      BY <3>6, <3>7, OneMoreTrade
    <3>9. Sound(position', capital', trades')
      BY <1>1, <2>1, <3>1, <3>7, <3>8 DEF Sound
    <3> QED BY <1>1, <1>3, <2>1, <3>9
  <2> QED BY <2>2, <2>3
<1>8. CASE UNCHANGED Test!vars
  BY <1>1, <1>3, <1>8 DEF Test!vars
<1> QED BY <1>5, <1>6, <1>7, <1>8 DEF Test!Next

\* Over any run of any length, on any prices and with any way of sizing: the
\* money and what is held are the initial capital and the results of the trades,
\* and a run that sizes its positions by its capital never spends more than it has.
THEOREM MoneyIsKept == Test!Spec => []MoneyAddsUp
<1>1. MoneyIInv => MoneyAddsUp
  <2> SUFFICES ASSUME MoneyIInv PROVE Test!CashConserved /\ Test!NeverOverdrawn
    BY DEF MoneyAddsUp, Test!MoneyAddsUp
  <2>1. Test!Realized = Total(ResultsOf(trades))
    BY DEF Test!Realized, Test!Results, Test!FoldLeft, Test!MapThenFoldSet, Test!Max,
           ResultsOf, Total, FoldLeft, MapThenFoldSet, Max
  <2>2. Sound(position, capital, trades)
    BY DEF MoneyIInv
  <2> QED BY <2>1, <2>2 DEF Sound, Test!CashConserved, Test!NeverOverdrawn
<1> QED BY <1>1, InitMoney, NextMoney, PTL DEF Test!Spec

-----------------------------------------------------------------------------
\* The collection of company data.
LEMMA SameCardinality == \A S : Company!Cardinality(S) = Cardinality(S)
  BY DEF Company!Cardinality, Cardinality

\* SetToSeq lists every element of a finite set.
LEMMA AllListed ==
  ASSUME NEW S, IsFiniteSet(S)
  PROVE  /\ Company!SetToSeq(S) \in Seq(S) /\ Len(Company!SetToSeq(S)) = Cardinality(S)
         /\ \A x \in S : \E i \in 1..Cardinality(S) : Company!SetToSeq(S)[i] = x
<1>1. PICK n \in Nat : n = Cardinality(S)
  BY FS_CardinalityType
<1>2. PICK g \in [1..n -> S] : \A a, b \in DOMAIN g : g[a] = g[b] => a = b
  BY <1>1, FS_CardinalityType DEF ExistsBijection, Bijection, Injection, IsInjective
<1>3. PICK f : f = Company!SetToSeq(S)
  OBVIOUS
<1>4. f \in [1..n -> S] /\ \A a, b \in DOMAIN f : f[a] = f[b] => a = b
  BY <1>1, <1>2, <1>3, SameCardinality DEF Company!SetToSeq, Company!IsInjective
<1>5. f \in Injection(1..n, S)
  BY <1>4 DEF Injection, IsInjective
<1>6. Cardinality(1..n) = n /\ IsFiniteSet(1..n)
  BY FS_Interval
<1>7. f \in Surjection(1..n, S)
  BY <1>1, <1>5, <1>6, FS_Injection
<1>8. f \in Seq(S) /\ Len(f) = n
  BY <1>4
<1> QED BY <1>1, <1>3, <1>7, <1>8 DEF Surjection

\* The tasks of a stock, one after the other, are all the tasks.
LEMMA TasksListed ==
  /\ Company!Tasks \in Seq(Company!Task) /\ Len(Company!Tasks) \in Nat \ {0}
  /\ \A k \in Company!Task : \E i \in 1..Len(Company!Tasks) : Company!Tasks[i] = k
  /\ \A k \in Company!Task : Company!Tries(k) \in 1..Reports
<1>1. IsFiniteSet(Periodic) /\ IsFiniteSet(AskedOnce) /\ Periodic \cup AskedOnce # {} /\ Reports \in Nat \ {0}
  BY DataAssumption DEF Company!Limits, Company!IsFiniteSet, IsFiniteSet
<1>2. PICK p \in Seq(Periodic) : p = Company!SetToSeq(Periodic) /\ \A x \in Periodic : \E i \in 1..Len(p) : p[i] = x
  BY <1>1, AllListed
<1>3. PICK q \in Seq(AskedOnce) : q = Company!SetToSeq(AskedOnce) /\ \A x \in AskedOnce : \E i \in 1..Len(q) : q[i] = x
  BY <1>1, AllListed
<1>4. PICK r : r = p \o q
  OBVIOUS
<1>5. r = Company!Tasks
  BY <1>2, <1>3, <1>4 DEF Company!Tasks
<1>6. p \in Seq(Company!Task) /\ q \in Seq(Company!Task)
  BY <1>2, <1>3 DEF Company!Task
<1>7. /\ r \in Seq(Company!Task) /\ Len(r) = Len(p) + Len(q)
      /\ \A i \in 1..Len(p) : r[i] = p[i]
      /\ \A i \in 1..Len(q) : r[Len(p) + i] = q[i]
  BY <1>4, <1>6
<1>8. ASSUME NEW k \in Company!Task PROVE \E i \in 1..Len(r) : r[i] = k
  <2>1. CASE k \in Periodic
    BY <1>2, <1>7, <2>1
  <2>2. CASE k \in AskedOnce
    <3>1. PICK i \in 1..Len(q) : q[i] = k
      BY <1>3, <2>2
    <3>2. Len(p) + i \in 1..Len(r)
      BY <1>7
    <3> QED BY <1>7, <3>1, <3>2
  <2> QED BY <2>1, <2>2 DEF Company!Task
<1>9. Len(r) \in Nat \ {0}
  <2>1. PICK k : k \in Company!Task
    BY <1>1 DEF Company!Task
  <2> QED BY <1>7, <1>8, <2>1
<1>10. \A k \in Company!Task : Company!Tries(k) \in 1..Reports
  BY <1>1 DEF Company!Tries
<1> QED BY <1>5, <1>7, <1>8, <1>9, <1>10

\* A list of stocks for an automatic call: each once, and each open.
LEMMA ListingIsOpen ==
  ASSUME NEW q \in Company!Listings
  PROVE  LET todo == Company!Cut(q) IN
         /\ todo \in Seq(Stock)
         /\ \A i, j \in DOMAIN todo : todo[i] = todo[j] => i = j
         /\ \A i \in DOMAIN todo : Company!Open(todo[i])
<1>1. IsFiniteSet(Stock) /\ LIMIT \in Nat
  BY DataAssumption DEF Company!Limits, Company!IsFiniteSet, IsFiniteSet
<1>2. PICK S \in SUBSET Stock : q \in Company!SetToSeqs(S) /\ \A s \in S : Company!Open(s)
  <2>1. PICK w \in SUBSET {s \in Stock : Company!Open(s)} : q \in Company!SetToSeqs({s \in w : Company!HasGap(s)})
    BY DEF Company!Listings
  <2>2. {s \in w : Company!HasGap(s)} \in SUBSET Stock /\ \A s \in {x \in w : Company!HasGap(x)} : Company!Open(s)
    OBVIOUS
  <2> QED BY <2>1, <2>2
<1>3. PICK n \in Nat : n = Company!Cardinality(S)
  BY <1>1, FS_Subset, FS_CardinalityType, SameCardinality
<1>4. q \in [1..n -> S] /\ \A i, j \in 1..n : i # j => q[i] # q[j]
  BY <1>2, <1>3 DEF Company!SetToSeqs
<1>5. q \in Seq(Stock) /\ Len(q) = n
  BY <1>4
<1>6. PICK m \in Nat : m = (IF Len(q) < LIMIT THEN Len(q) ELSE LIMIT) /\ m <= n
  BY <1>1, <1>5
<1>7. PICK todo : todo = SubSeq(q, 1, m)
  OBVIOUS
<1>8. todo \in Seq(Stock) /\ DOMAIN todo = 1..m /\ \A i \in 1..m : todo[i] = q[i]
  BY <1>5, <1>6, <1>7
<1>9. Company!Cut(q) = todo
  BY <1>6, <1>7 DEF Company!Cut
<1> QED BY <1>2, <1>4, <1>6, <1>8, <1>9

\* What a call may count on.  It has each of its stocks once; of the stock it is
\* at, no untroubled task is past a report that was there when the stock was
\* begun and has left no rows.
Due(k) == \A i, j \in DOMAIN k.todo : k.todo[i] = k.todo[j] => i = j

Served(k, t, sto) == \A r \in k.asked[t] : \E q \in sto[Head(k.todo)][t] : q <= r

InOrder(k, pub, sto) ==
  /\ k.at = "idle" => k.todo = <<>>
  /\ k.at = "next" => k.task = 1 /\ k.try = 1
  /\ k.at \in {"task", "stamp"} =>
       /\ k.todo # <<>>
       /\ \A t \in Company!Task : k.asked[t] \subseteq pub[Head(k.todo)][t]
       /\ \A i \in 1..Len(Company!Tasks) :
            (k.at = "stamp" \/ i < k.task) /\ Company!Tasks[i] \notin k.troubled => Served(k, Company!Tasks[i], sto)
       /\ k.at = "task" /\ Company!Tasks[k.task] \notin k.troubled =>
            \A r \in k.asked[Company!Tasks[k.task]] : r >= k.try

Tables(t) == t \in [Stock -> [Company!Task -> SUBSET (1..Reports)]]

Known(pub, sto) ==
  /\ Tables(pub) /\ Tables(sto)
  /\ \A s \in Stock, k \in Company!Task : pub[s][k] \subseteq 1..Company!Tries(k)

CallIsSound(k, pub, sto) == k \in Company!Call /\ Due(k) /\ InOrder(k, pub, sto)

CompanyInvOf(pub, sto, calls) ==
  /\ Known(pub, sto)
  /\ DOMAIN calls = Caller /\ calls = [c \in Caller |-> calls[c]]
  /\ \A c \in Caller : CallIsSound(calls[c], pub, sto)

CompanyIInv == CompanyInvOf(published, stored, call)

\* A sound call stays so when more is published and stored.
LEMMA SoundStays ==
  ASSUME NEW k, NEW pub, NEW sto, NEW pub2, NEW sto2,
         Known(pub, sto), CallIsSound(k, pub, sto),
         Known(pub2, sto2),
         \A s \in Stock, t \in Company!Task : pub[s][t] \subseteq pub2[s][t] /\ sto[s][t] \subseteq sto2[s][t]
  PROVE  CallIsSound(k, pub2, sto2)
<1>1. k \in Company!Call /\ Due(k) /\ InOrder(k, pub, sto)
  BY DEF CallIsSound
<1>2. k.todo \in Seq(Stock)
  BY <1>1 DEF Company!Call
<1>3. InOrder(k, pub2, sto2)
  <2> SUFFICES ASSUME k.at \in {"task", "stamp"}, k.todo # <<>>
               PROVE  /\ \A t \in Company!Task : k.asked[t] \subseteq pub2[Head(k.todo)][t]
                      /\ \A i \in 1..Len(Company!Tasks) :
                           (k.at = "stamp" \/ i < k.task) /\ Company!Tasks[i] \notin k.troubled
                             => Served(k, Company!Tasks[i], sto2)
                      /\ k.at = "task" /\ Company!Tasks[k.task] \notin k.troubled =>
                           \A r \in k.asked[Company!Tasks[k.task]] : r >= k.try
    BY <1>1 DEF InOrder
  <2>1. Head(k.todo) \in Stock
    BY <1>2
  <2>2. \A t \in Company!Task : Served(k, t, sto) => Served(k, t, sto2)
    BY <2>1 DEF Served
  <2>3. \A i \in 1..Len(Company!Tasks) : Company!Tasks[i] \in Company!Task
    BY TasksListed
  <2> QED BY <1>1, <2>1, <2>2, <2>3 DEF InOrder
<1> QED BY <1>1, <1>3 DEF CallIsSound

\* A call that has not begun is sound.
LEMMA IdleIsSound ==
  ASSUME NEW pub, NEW sto
  PROVE  CallIsSound(Company!Idle, pub, sto)
<1>1. /\ 1 \in 1..Len(Company!Tasks) /\ 1 \in 1..Reports
  BY TasksListed, DataAssumption DEF Company!Limits
<1>2. Company!NoReports \in [Company!Task -> SUBSET (1..Reports)]
  BY DEF Company!NoReports
<1>3. Company!Idle \in Company!Call
  BY <1>1, <1>2 DEF Company!Idle, Company!Call
<1>4. DOMAIN Company!Idle.todo = {}
  BY DEF Company!Idle
<1> QED BY <1>3, <1>4 DEF CallIsSound, Due, InOrder, Company!Idle

LEMMA InitCompany == Company!Init => CompanyIInv
<1> SUFFICES ASSUME Company!Init PROVE CompanyIInv
  OBVIOUS
<1>1. /\ published = [s \in Stock |-> Company!NoReports] /\ stored = [s \in Stock |-> Company!NoReports]
      /\ call = [c \in Caller |-> Company!Idle]
  BY DEF Company!Init
<1>2. Known(published, stored)
  BY <1>1 DEF Known, Tables, Company!NoReports
<1> QED BY <1>1, <1>2, IdleIsSound DEF CompanyIInv, CompanyInvOf

\* The next stock, task and try of a sound call.
LEMMA SoundNextTask ==
  ASSUME NEW k, NEW pub, NEW sto,
         CallIsSound(k, pub, sto), k.at = "task",
         Company!Tasks[k.task] \notin k.troubled => Served(k, Company!Tasks[k.task], sto)
  PROVE  CallIsSound(Company!NextTask(k), pub, sto)
<1> DEFINE n == Len(Company!Tasks)
<1>1. k \in Company!Call /\ Due(k) /\ InOrder(k, pub, sto)
  BY DEF CallIsSound
<1>2. n \in Nat /\ k.task \in 1..n /\ Reports \in Nat \ {0}
  BY <1>1, TasksListed, DataAssumption DEF Company!Call, Company!Limits
<1>3. PICK m : m = Company!NextTask(k)
  OBVIOUS
<1>4. /\ m \in Company!Call /\ m.todo = k.todo /\ m.auto = k.auto
      /\ m.asked = k.asked /\ m.troubled = k.troubled
      /\ IF k.task < n THEN m.at = "task" /\ m.task = k.task + 1 /\ m.try = 1 ELSE m.at = "stamp"
  <2>1. CASE k.task < n
    <3>1. m = [k EXCEPT !.task = k.task + 1, !.try = 1]
      BY <1>3, <2>1 DEF Company!NextTask
    <3>2. k.task + 1 \in 1..n /\ 1 \in 1..Reports
      BY <1>2, <2>1
    <3> QED BY <1>1, <2>1, <3>1, <3>2 DEF Company!Call
  <2>2. CASE ~(k.task < n)
    <3>1. m = [k EXCEPT !.at = "stamp"]
      BY <1>3, <2>2 DEF Company!NextTask
    <3> QED BY <1>1, <2>2, <3>1 DEF Company!Call
  <2> QED BY <2>1, <2>2
<1>5. Due(m)
  BY <1>1, <1>4 DEF Due
<1>6. \A t : Served(m, t, sto) <=> Served(k, t, sto)
  BY <1>4 DEF Served
<1>7. ASSUME NEW i \in 1..n, m.at = "stamp" \/ i < m.task, Company!Tasks[i] \notin m.troubled
      PROVE  Served(m, Company!Tasks[i], sto)
  <2>1. CASE i = k.task
    BY <1>4, <1>6, <1>7, <2>1
  <2>2. CASE i # k.task
    <3>1. i < k.task
      BY <1>2, <1>4, <1>7, <2>2
    <3> QED BY <1>1, <1>4, <1>6, <1>7, <3>1 DEF InOrder
  <2> QED BY <2>1, <2>2
<1>8. m.at = "task" => \A r \in m.asked[Company!Tasks[m.task]] : r >= m.try
  <2> SUFFICES ASSUME m.at = "task" PROVE \A r \in m.asked[Company!Tasks[m.task]] : r >= m.try
    OBVIOUS
  <2>1. m.try = 1 /\ m.task \in 1..n
    BY <1>2, <1>4
  <2>2. m.asked[Company!Tasks[m.task]] \subseteq 1..Reports
    <3>1. m.asked \in [Company!Task -> SUBSET (1..Reports)]
      BY <1>4 DEF Company!Call
    <3>2. Company!Tasks[m.task] \in Company!Task
      BY <2>1, TasksListed
    <3> QED BY <3>1, <3>2
  <2> QED BY <1>2, <2>1, <2>2
<1>9. InOrder(m, pub, sto)
  <2>1. k.todo # <<>> /\ \A t \in Company!Task : k.asked[t] \subseteq pub[Head(k.todo)][t]
    BY <1>1 DEF InOrder
  <2> QED BY <1>4, <1>7, <1>8, <2>1 DEF InOrder
<1> QED BY <1>3, <1>4, <1>5, <1>9 DEF CallIsSound

\* The next try: the report of this one was not there when the stock was begun,
\* or the task is in trouble.
LEMMA SoundNextTry ==
  ASSUME NEW k, NEW pub, NEW sto, Known(pub, sto),
         CallIsSound(k, pub, sto), k.at = "task",
         Company!Tasks[k.task] \notin k.troubled => k.try \notin k.asked[Company!Tasks[k.task]]
  PROVE  CallIsSound(Company!NextTry(k), pub, sto)
<1> DEFINE n == Len(Company!Tasks)
           t == Company!Tasks[k.task]
<1>1. k \in Company!Call /\ Due(k) /\ InOrder(k, pub, sto)
  BY DEF CallIsSound
<1>2. /\ n \in Nat /\ k.task \in 1..n /\ t \in Company!Task /\ Reports \in Nat \ {0}
      /\ k.try \in 1..Reports /\ Company!Tries(t) \in 1..Reports
  <2>1. n \in Nat /\ k.task \in 1..n /\ Reports \in Nat \ {0} /\ k.try \in 1..Reports
    BY <1>1, TasksListed, DataAssumption DEF Company!Call, Company!Limits
  <2>2. t \in Company!Task
    BY <2>1, TasksListed
  <2> QED BY <2>1, <2>2, TasksListed
<1>3. t \notin k.troubled => \A r \in k.asked[t] : r >= k.try /\ r # k.try
  BY <1>1 DEF InOrder
<1> HIDE DEF t
<1>4. k.asked[t] \subseteq 1..Company!Tries(t)
  <2>1. k.todo \in Seq(Stock) /\ k.todo # <<>>
    BY <1>1 DEF Company!Call, InOrder
  <2>2. Head(k.todo) \in Stock
    BY <2>1
  <2>3. k.asked[t] \subseteq pub[Head(k.todo)][t]
    BY <1>1, <1>2 DEF InOrder
  <2> QED BY <1>2, <2>2, <2>3 DEF Known
<1>5. CASE k.try < Company!Tries(t)
  <2>1. PICK m : m = [k EXCEPT !.try = k.try + 1]
    OBVIOUS
  <2>2. m = Company!NextTry(k)
    BY <1>5, <2>1 DEF Company!NextTry, t
  <2>3. k.try + 1 \in 1..Reports
    BY <1>2, <1>5
  <2>4. /\ m \in Company!Call /\ m.todo = k.todo /\ m.auto = k.auto
        /\ m.asked = k.asked /\ m.troubled = k.troubled /\ m.at = k.at /\ m.task = k.task /\ m.try = k.try + 1
    BY <1>1, <2>1, <2>3 DEF Company!Call
  <2>5. Due(m)
    BY <1>1, <2>4 DEF Due
  <2>6. \A x : Served(m, x, sto) <=> Served(k, x, sto)
    BY <2>4 DEF Served
  <2>7. t \notin m.troubled => \A r \in m.asked[t] : r >= m.try
    BY <1>2, <1>3, <1>4, <2>4
  <2>8. InOrder(m, pub, sto)
    BY <1>1, <2>4, <2>6, <2>7 DEF InOrder, t
  <2> QED BY <2>2, <2>4, <2>5, <2>8 DEF CallIsSound
<1>6. CASE ~(k.try < Company!Tries(t))
  <2>1. Company!NextTry(k) = Company!NextTask(k)
    BY <1>6 DEF Company!NextTry, t
  <2>2. t \notin k.troubled => \A r \in k.asked[t] : FALSE
    BY <1>2, <1>3, <1>4, <1>6
  <2>3. t \notin k.troubled => Served(k, t, sto)
    BY <2>2 DEF Served
  <2>4. CallIsSound(Company!NextTask(k), pub, sto)
    BY <2>3, SoundNextTask DEF t
  <2> QED BY <2>1, <2>4
<1> QED BY <1>5, <1>6

\* What is left of a call after a stock.
LEMMA SoundLeft ==
  ASSUME NEW k, NEW pub, NEW sto, CallIsSound(k, pub, sto), k.at = "stamp"
  PROVE  /\ CallIsSound(Company!Left(k), pub, sto)
         /\ \A i \in DOMAIN Company!Left(k).todo : Company!Left(k).todo[i] # Head(k.todo)
<1>1. k \in Company!Call /\ Due(k) /\ k.todo \in Seq(Stock) /\ k.todo # <<>>
  BY DEF CallIsSound, InOrder, Company!Call
<1>2. PICK rest : rest = Tail(k.todo)
  OBVIOUS
<1>3. PICK n \in Nat : n = Len(k.todo) - 1
  <2>1. PICK q \in Seq(Stock) : q = k.todo /\ q # <<>>
    BY <1>1
  <2>2. Len(q) - 1 \in Nat
    BY <2>1
  <2> QED BY <2>1, <2>2
<1>4. /\ rest \in Seq(Stock) /\ DOMAIN rest = 1..n /\ DOMAIN k.todo = 1..(n + 1)
      /\ \A i \in 1..n : rest[i] = k.todo[i + 1]
      /\ Head(k.todo) = k.todo[1]
  BY <1>1, <1>2, <1>3
<1>5. \A i \in 1..n : i + 1 \in 1..(n + 1) /\ 1 \in 1..(n + 1) /\ i + 1 # 1
  OBVIOUS
<1>6. PICK m : m = Company!Left(k)
  OBVIOUS
<1>7. /\ m \in Company!Call /\ m.at = "next" /\ m.auto = k.auto /\ m.todo = rest
      /\ m.task = 1 /\ m.try = 1
  <2>1. Company!Idle \in Company!Call
    BY IdleIsSound DEF CallIsSound
  <2>2. m = [Company!Idle EXCEPT !.at = "next", !.auto = k.auto, !.todo = rest]
    BY <1>2, <1>6 DEF Company!Left
  <2>3. Company!Idle.task = 1 /\ Company!Idle.try = 1
    BY DEF Company!Idle
  <2> QED BY <1>1, <1>4, <2>1, <2>2, <2>3 DEF Company!Call
<1>8. \A i, j \in DOMAIN k.todo : k.todo[i] = k.todo[j] => i = j
  BY <1>1 DEF Due
<1>9. \A i \in 1..n : rest[i] # Head(k.todo)
  BY <1>4, <1>5, <1>8
<1>10. Due(m)
  <2>1. ASSUME NEW i \in 1..n, NEW j \in 1..n, rest[i] = rest[j] PROVE i = j
    <3>1. k.todo[i + 1] = k.todo[j + 1] /\ i + 1 \in 1..(n + 1) /\ j + 1 \in 1..(n + 1)
      BY <1>4, <2>1
    <3>2. i + 1 = j + 1
      BY <1>4, <1>8, <3>1
    <3> QED BY <3>2
  <2> QED BY <1>4, <1>7, <2>1 DEF Due
<1>11. InOrder(m, pub, sto)
  BY <1>7 DEF InOrder
<1> QED BY <1>4, <1>6, <1>7, <1>9, <1>10, <1>11 DEF CallIsSound

LEMMA NextCompany == CompanyIInv /\ [Company!Next]_Company!vars => CompanyIInv'
<1> SUFFICES ASSUME CompanyIInv, [Company!Next]_Company!vars PROVE CompanyIInv'
  OBVIOUS
<1>1. /\ Known(published, stored)
      /\ DOMAIN call = Caller /\ call = [c \in Caller |-> call[c]]
      /\ \A c \in Caller : CallIsSound(call[c], published, stored)
  BY DEF CompanyIInv, CompanyInvOf
\* A caller moves, and nothing that is published or stored is taken back.
<1>2. ASSUME NEW c \in Caller, NEW m, call' = [call EXCEPT ![c] = m],
             Known(published', stored'),
             \A s \in Stock, t \in Company!Task :
               published[s][t] \subseteq published'[s][t] /\ stored[s][t] \subseteq stored'[s][t],
             CallIsSound(m, published', stored')
      PROVE  CompanyIInv'
  <2>1. ASSUME NEW d \in Caller PROVE CallIsSound(call'[d], published', stored')
    <3>1. CASE d = c
      <4>1. call'[d] = m
        BY <1>1, <1>2, <3>1
      <4> QED BY <1>2, <4>1
    <3>2. CASE d # c
      <4>1. call'[d] = call[d]
        BY <1>1, <1>2, <3>2
      <4>2. CallIsSound(call[d], published', stored')
        <5>1. Known(published', stored')
          BY <1>2
        <5> QED BY <1>1, <1>2, <5>1, SoundStays
      <4> QED BY <1>2, <4>1, <4>2
    <3> QED BY <3>1, <3>2
  <2>2. DOMAIN call' = Caller /\ call' = [d \in Caller |-> call'[d]]
    BY <1>1, <1>2
  <2> QED BY <1>2, <2>1, <2>2 DEF CompanyIInv, CompanyInvOf
\* The same, when only the call changes.
<1>3. ASSUME NEW c \in Caller, NEW m, call' = [call EXCEPT ![c] = m],
             published' = published, stored' = stored,
             CallIsSound(m, published, stored)
      PROVE  CompanyIInv'
  <2>1. Known(published', stored')
    BY <1>1, <1>3
  <2> QED BY <1>2, <1>3, <2>1
<1>4. ASSUME NEW c \in Caller
      PROVE  LET k == call[c] IN
             /\ k \in Company!Call /\ Due(k) /\ InOrder(k, published, stored)
             /\ k.todo \in Seq(Stock) /\ (k.todo # <<>> => Head(k.todo) \in Stock)
  <2>1. call[c] \in Company!Call /\ Due(call[c]) /\ InOrder(call[c], published, stored)
    BY <1>1 DEF CallIsSound
  <2>2. call[c].todo \in Seq(Stock)
    BY <2>1 DEF Company!Call
  <2>3. \A q \in Seq(Stock) : q # <<>> => Head(q) \in Stock
    OBVIOUS
  <2> QED BY <2>1, <2>2, <2>3
\* A call begins.
<1>5. ASSUME NEW c \in Caller, NEW auto \in BOOLEAN, NEW todo \in Seq(Stock), Company!Start(c, auto, todo),
             \A i, j \in DOMAIN todo : todo[i] = todo[j] => i = j
      PROVE  CompanyIInv'
  <2>1. PICK m : m = [Company!Idle EXCEPT !.at = "next", !.auto = auto, !.todo = todo]
    OBVIOUS
  <2>2. /\ call' = [call EXCEPT ![c] = m]
        /\ published' = published /\ stored' = stored
    BY <1>5, <2>1 DEF Company!Start
  <2>3. /\ m \in Company!Call /\ m.at = "next" /\ m.auto = auto /\ m.todo = todo /\ m.task = 1 /\ m.try = 1
    <3>1. Company!Idle \in Company!Call
      BY IdleIsSound DEF CallIsSound
    <3>2. Company!Idle.task = 1 /\ Company!Idle.try = 1
      BY DEF Company!Idle
    <3> QED BY <2>1, <3>1, <3>2 DEF Company!Call
  <2>4. CallIsSound(m, published, stored)
    BY <1>5, <2>3 DEF CallIsSound, Due, InOrder
  <2> QED BY <1>3, <2>2, <2>4
<1>6. ASSUME NEW c \in Caller, Company!AutoCollect(c) PROVE CompanyIInv'
  <2>1. PICK q \in Company!Listings : Company!Start(c, TRUE, Company!Cut(q))
    BY <1>6 DEF Company!AutoCollect
  <2>2. PICK todo : todo = Company!Cut(q)
    OBVIOUS
  <2>3. /\ todo \in Seq(Stock) /\ \A i, j \in DOMAIN todo : todo[i] = todo[j] => i = j
    BY <2>2, ListingIsOpen
  <2> QED BY <1>5, <2>1, <2>2, <2>3
<1>7. ASSUME NEW c \in Caller, Company!BatchCollect(c) PROVE CompanyIInv'
  <2>1. PICK s \in Stock : Company!Start(c, FALSE, <<s>>)
    BY <1>7 DEF Company!BatchCollect
  <2>2. PICK todo : todo = <<s>>
    OBVIOUS
  <2>3. todo \in Seq(Stock) /\ \A i, j \in DOMAIN todo : todo[i] = todo[j] => i = j
    BY <2>2
  <2> QED BY <1>5, <2>1, <2>2, <2>3
<1>8. ASSUME NEW c \in Caller, Company!Begin(c) PROVE CompanyIInv'
  <2>1. PICK k : k = call[c]
    OBVIOUS
  <2>2. PICK m : m = [k EXCEPT !.at = "task", !.asked = published[Head(k.todo)]]
    OBVIOUS
  <2>3. /\ call' = [call EXCEPT ![c] = m] /\ k.at = "next" /\ k.todo # <<>>
        /\ published' = published /\ stored' = stored
    BY <1>1, <1>8, <2>1, <2>2 DEF Company!Begin
  <2>4. k \in Company!Call /\ Due(k) /\ Head(k.todo) \in Stock /\ k.task = 1 /\ k.try = 1
    BY <1>4, <2>1, <2>3 DEF InOrder
  <2>5. published[Head(k.todo)] \in [Company!Task -> SUBSET (1..Reports)]
    BY <1>1, <2>4 DEF Known, Tables
  <2>6. /\ m \in Company!Call /\ m.at = "task" /\ m.todo = k.todo /\ m.auto = k.auto
        /\ m.task = 1 /\ m.try = 1 /\ m.asked = published[Head(k.todo)]
    BY <2>2, <2>4, <2>5 DEF Company!Call
  <2>7. Due(m)
    BY <2>4, <2>6 DEF Due
  <2>8. InOrder(m, published, stored)
    <3>1. Company!Tasks[1] \in Company!Task
      BY TasksListed
    <3>2. \A r \in m.asked[Company!Tasks[1]] : r \in 1..Reports
      BY <2>5, <2>6, <3>1
    <3>3. \A r \in m.asked[Company!Tasks[m.task]] : r >= m.try
      BY <2>6, <3>2, DataAssumption DEF Company!Limits
    <3>4. \A i \in 1..Len(Company!Tasks) : ~(i < m.task)
      BY <2>6, TasksListed
    <3> QED BY <2>3, <2>6, <3>3, <3>4 DEF InOrder
  <2> QED BY <1>3, <2>3, <2>6, <2>7, <2>8 DEF CallIsSound
<1>9. ASSUME NEW c \in Caller, Company!Return(c) PROVE CompanyIInv'
  BY <1>3, <1>9, IdleIsSound DEF Company!Return
\* What every step of a task has at hand.
<1>10. ASSUME NEW c \in Caller, Company!Asks(c)
       PROVE  LET k == call[c]
                  s == Head(k.todo)
                  t == Company!Tasks[k.task]
              IN  /\ CallIsSound(k, published, stored) /\ k.at = "task" /\ k \in Company!Call
                  /\ s \in Stock /\ t \in Company!Task /\ k.try \in 1..Reports
                  /\ k.asked[t] \subseteq published[s][t]
                  /\ t \notin k.troubled => \A r \in k.asked[t] : r >= k.try
                  /\ Company!AskedFor(c)[1] = s /\ Company!AskedFor(c)[2] = t
                  /\ published' = published
  <2>1. call[c].at = "task" /\ published' = published
    BY <1>10 DEF Company!Asks
  <2>2. call[c].todo # <<>> /\ Head(call[c].todo) \in Stock
    BY <1>4, <2>1 DEF InOrder
  <2>3. call[c] \in Company!Call /\ call[c].task \in 1..Len(Company!Tasks) /\ call[c].try \in 1..Reports
    BY <1>4 DEF Company!Call
  <2>4. Company!Tasks[call[c].task] \in Company!Task
    <3>1. PICK i \in 1..Len(Company!Tasks) : i = call[c].task
      BY <2>3
    <3>2. Company!Tasks[i] \in Company!Task
      BY TasksListed
    <3> QED BY <3>1, <3>2
  <2>5. /\ call[c].asked[Company!Tasks[call[c].task]] \subseteq published[Head(call[c].todo)][Company!Tasks[call[c].task]]
        /\ Company!Tasks[call[c].task] \notin call[c].troubled =>
             \A r \in call[c].asked[Company!Tasks[call[c].task]] : r >= call[c].try
    BY <1>4, <2>1, <2>4 DEF InOrder
  <2> QED BY <1>1, <2>1, <2>2, <2>3, <2>4, <2>5 DEF Company!AskedFor
<1>11. ASSUME NEW c \in Caller, Company!Found(c) PROVE CompanyIInv'
  <2>1. PICK k : k = call[c]
    OBVIOUS
  <2>2. PICK s : s = Head(k.todo)
    OBVIOUS
  <2>3. PICK t : t = Company!Tasks[k.task]
    OBVIOUS
  <2>4. /\ CallIsSound(k, published, stored) /\ k.at = "task"
        /\ s \in Stock /\ t \in Company!Task /\ k.try \in 1..Reports
        /\ t \notin k.troubled => \A r \in k.asked[t] : r >= k.try
        /\ Company!AskedFor(c)[1] = s /\ Company!AskedFor(c)[2] = t
        /\ published' = published
    BY <1>10, <1>11, <2>1, <2>2, <2>3 DEF Company!Found
  <2>5. /\ stored' = [stored EXCEPT ![s][t] = @ \cup {k.try}]
        /\ call' = [call EXCEPT ![c] = Company!NextTask(k)]
    BY <1>1, <1>11, <2>1, <2>4 DEF Company!Found
  <2>6. Tables(stored') /\ \A x \in Stock, y \in Company!Task : stored[x][y] \subseteq stored'[x][y]
    BY <1>1, <2>4, <2>5 DEF Known, Tables
  <2>7. Known(published', stored')
    BY <1>1, <2>4, <2>6 DEF Known
  <2>9. CallIsSound(k, published', stored')
    <3>1. /\ Known(published, stored')
          /\ \A x \in Stock, y \in Company!Task : published[x][y] \subseteq published[x][y] /\ stored[x][y] \subseteq stored'[x][y]
      BY <2>4, <2>6, <2>7
    <3>2. CallIsSound(k, published, stored')
      BY <1>1, <2>4, <3>1, SoundStays
    <3> QED BY <2>4, <3>2
  <2>10. t \notin k.troubled => Served(k, t, stored')
    <3>1. k.try \in stored'[s][t]
      BY <1>1, <2>4, <2>5 DEF Known, Tables
    <3>2. k.asked[t] \subseteq 1..Reports
      BY <1>10, <1>11, <2>1, <2>3, <2>4 DEF Company!Found, Company!Call
    <3> QED BY <2>2, <2>4, <3>1, <3>2 DEF Served
  <2>11. CallIsSound(Company!NextTask(k), published', stored')
    BY <2>3, <2>4, <2>9, <2>10, SoundNextTask
  <2>12. \A x \in Stock, y \in Company!Task : published[x][y] \subseteq published'[x][y] /\ stored[x][y] \subseteq stored'[x][y]
    BY <2>4, <2>6
  <2> QED BY <1>2, <2>4, <2>5, <2>7, <2>11, <2>12
<1>12. ASSUME NEW c \in Caller, Company!NoData(c) PROVE CompanyIInv'
  <2>1. PICK k : k = call[c]
    OBVIOUS
  <2>2. PICK t : t = Company!Tasks[k.task]
    OBVIOUS
  <2>3. /\ CallIsSound(k, published, stored) /\ k.at = "task"
        /\ k.asked[t] \subseteq published[Head(k.todo)][t]
        /\ Company!AskedFor(c)[1] = Head(k.todo) /\ Company!AskedFor(c)[2] = t
        /\ published' = published
    BY <1>10, <1>12, <2>1, <2>2 DEF Company!NoData
  <2>4. stored' = stored /\ call' = [call EXCEPT ![c] = Company!NextTry(k)]
    BY <1>1, <1>12, <2>1 DEF Company!NoData
  <2>5. k.try \notin k.asked[t]
    BY <1>12, <2>1, <2>3 DEF Company!NoData, Company!IsPublished
  <2>6. CallIsSound(Company!NextTry(k), published, stored)
    BY <1>1, <2>2, <2>3, <2>5, SoundNextTry
  <2> QED BY <1>3, <2>3, <2>4, <2>6
<1>13. ASSUME NEW c \in Caller, Company!Fails(c) PROVE CompanyIInv'
  <2>1. PICK k : k = call[c]
    OBVIOUS
  <2>2. PICK t : t = Company!Tasks[k.task]
    OBVIOUS
  <2>3. /\ CallIsSound(k, published, stored) /\ k.at = "task" /\ t \in Company!Task /\ k \in Company!Call
        /\ published' = published
    BY <1>10, <1>13, <2>1, <2>2 DEF Company!Fails
  <2>4. PICK m : m = [k EXCEPT !.troubled = k.troubled \cup {t}]
    OBVIOUS
  <2>5. stored' = stored /\ call' = [call EXCEPT ![c] = Company!NextTry(m)]
    <3>1. /\ stored' = stored
          /\ call' = [call EXCEPT ![c] = Company!NextTry(Company!InTrouble(call[c]))]
      BY <1>13, Zenon DEF Company!Fails
    <3>2. m = Company!InTrouble(call[c])
      BY <2>1, <2>2, <2>4 DEF Company!InTrouble
    <3> QED BY <3>1, <3>2, Zenon
  <2>6. /\ m \in Company!Call /\ m.at = k.at /\ m.todo = k.todo /\ m.auto = k.auto
        /\ m.task = k.task /\ m.try = k.try /\ m.asked = k.asked /\ m.troubled = k.troubled \cup {t}
    BY <2>3, <2>4 DEF Company!Call
  <2>7. Due(m)
    BY <2>3, <2>6 DEF CallIsSound, Due
  <2>8. \A x : Served(m, x, stored) <=> Served(k, x, stored)
    BY <2>6 DEF Served
  <2>9. InOrder(m, published, stored)
    BY <2>3, <2>6, <2>8 DEF CallIsSound, InOrder
  <2>10. CallIsSound(m, published, stored)
    BY <2>6, <2>7, <2>9 DEF CallIsSound
  <2>11. m.at = "task" /\ Company!Tasks[m.task] \in m.troubled
    BY <2>2, <2>3, <2>6
  <2>12. CallIsSound(Company!NextTry(m), published, stored)
    BY <1>1, <2>10, <2>11, SoundNextTry
  <2> QED BY <1>3, <2>3, <2>5, <2>12
<1>14. ASSUME NEW c \in Caller, Company!Stamp(c) \/ Company!StampFails(c) PROVE CompanyIInv'
  <2>1. /\ call[c].at = "stamp" /\ call' = [call EXCEPT ![c] = Company!Left(call[c])]
        /\ published' = published /\ stored' = stored
    BY <1>1, <1>14 DEF Company!Stamp, Company!StampFails
  <2>2. CallIsSound(Company!Left(call[c]), published, stored)
    BY <1>1, <2>1, SoundLeft
  <2> QED BY <1>3, <2>1, <2>2
\* The calls stay as they are.
<1>15. ASSUME call' = call, Known(published', stored'),
              \A s \in Stock, t \in Company!Task :
                published[s][t] \subseteq published'[s][t] /\ stored[s][t] \subseteq stored'[s][t]
       PROVE  CompanyIInv'
  <2>1. \A c \in Caller : CallIsSound(call[c], published', stored')
    <3>1. Known(published', stored')
      BY <1>15
    <3> QED BY <1>1, <1>15, <3>1, SoundStays
  <2> QED BY <1>1, <1>15, <2>1 DEF CompanyIInv, CompanyInvOf
<1>16. ASSUME NEW s \in Stock, NEW k \in Company!Task, NEW r \in 1..Reports, Company!Publish(s, k, r) PROVE CompanyIInv'
  <2>1. /\ published' = [published EXCEPT ![s][k] = @ \cup {r}] /\ r \in 1..Company!Tries(k)
        /\ stored' = stored /\ call' = call
    BY <1>16 DEF Company!Publish
  <2>2. /\ Tables(published')
        /\ \A x \in Stock, y \in Company!Task : published[x][y] \subseteq published'[x][y]
        /\ \A x \in Stock, y \in Company!Task : published'[x][y] \subseteq 1..Company!Tries(y)
    BY <1>1, <2>1 DEF Known, Tables
  <2>3. Known(published', stored')
    BY <1>1, <2>1, <2>2 DEF Known
  <2> QED BY <1>15, <2>1, <2>2, <2>3
<1>17. CASE Company!Tick
  <2>1. /\ published' = published /\ stored' = stored /\ call' = call
    BY <1>17 DEF Company!Tick
  <2>2. Known(published', stored')
    BY <1>1, <2>1 DEF Known
  <2> QED BY <1>15, <2>1, <2>2
<1>18. CASE Company!Restart
  <2>1. /\ published' = published /\ stored' = stored
        /\ call' = [c \in Caller |-> Company!Idle]
    BY <1>18 DEF Company!Restart
  <2>2. Known(published', stored')
    BY <1>1, <2>1
  <2> QED BY <2>1, <2>2, IdleIsSound DEF CompanyIInv, CompanyInvOf
<1>19. CASE UNCHANGED Company!vars
  <2>1. published' = published /\ stored' = stored /\ call' = call
    BY <1>19 DEF Company!vars
  <2> QED BY <1>1, <2>1 DEF CompanyIInv, CompanyInvOf
<1> QED BY <1>6, <1>7, <1>8, <1>9, <1>11, <1>12, <1>13, <1>14, <1>16, <1>17, <1>18, <1>19
        DEF Company!Next, Company!Step

\* Whatever two calls store meanwhile, and whichever requests fail: a task that
\* met with no failure has rows of the first report that was there, or of an
\* earlier one, when its stock is done.
THEOREM FirstReportIsStored == Company!Spec => []FirstReportStored
<1>1. CompanyIInv => FirstReportStored
  <2> SUFFICES ASSUME CompanyIInv, NEW c \in Caller, call[c].at = "stamp",
                      NEW k \in Company!Task \ call[c].troubled
               PROVE  \A r \in call[c].asked[k] : \E q \in stored[Head(call[c].todo)][k] : q <= r
    BY DEF FirstReportStored, Company!FirstReportStored
  <2>1. InOrder(call[c], published, stored)
    BY DEF CompanyIInv, CompanyInvOf, CallIsSound
  <2>2. PICK i \in 1..Len(Company!Tasks) : Company!Tasks[i] = k
    BY TasksListed
  <2>3. Served(call[c], k, stored)
    BY <2>1, <2>2 DEF InOrder
  <2> QED BY <2>3 DEF Served
<1> QED BY <1>1, InitCompany, NextCompany, PTL DEF Company!Spec

\* How often a stock is begun.  The automatic calls that are at the stock, and
\* those that have it still to do; each of these may begin it once more.
Works(k, s) == k.auto /\ k.at \in {"task", "stamp"} /\ Head(k.todo) = s
Waits(k, s) == k.auto /\ \E i \in (IF k.at = "next" THEN 1 ELSE 2)..Len(k.todo) : k.todo[i] = s
Workers(f, s) == {c \in Caller : Works(f[c], s)}
Waiters(f, s) == {c \in Caller : Waits(f[c], s)}
OpenAt(s, at, time) == at[s] = Company!Never \/ at[s] < time - DAY

\* What is counted and what may still come is one attempt at most; of a stock
\* that is due and on no list, none.
InBounds(n, f, s, open) ==
  /\ n \in Int /\ n + Cardinality(Waiters(f, s)) <= 1
  /\ open /\ Workers(f, s) = {} /\ Waiters(f, s) = {} => n <= 0

AttemptsCounted ==
  /\ collectedAt \in [Stock -> Int] /\ now \in Nat /\ DOMAIN attempts = Stock
  /\ \A s \in Stock : InBounds(attempts[s], call, s, OpenAt(s, collectedAt, now))

\* The callers that wait for a stock, or work on it, are finitely many.
LEMMA CallersCounted ==
  ASSUME NEW S \in SUBSET Caller
  PROVE  /\ Cardinality(S) \in Nat /\ (Cardinality(S) = 0 <=> S = {})
         /\ \A T \in SUBSET S : Cardinality(T) <= Cardinality(S)
         /\ \A c \in Caller \ S : Cardinality(S \cup {c}) = Cardinality(S) + 1
         /\ \A c \in S : Cardinality(S \ {c}) = Cardinality(S) - 1
<1>1. IsFiniteSet(S)
  <2>1. IsFiniteSet(Caller)
    BY DataAssumption DEF Company!Limits, Company!IsFiniteSet, IsFiniteSet
  <2> QED BY <2>1, FS_Subset
<1>2. \A T \in SUBSET S : Cardinality(T) <= Cardinality(S)
  BY <1>1, FS_Subset
<1>3. \A c \in Caller \ S : Cardinality(S \cup {c}) = Cardinality(S) + 1
  BY <1>1, FS_AddElement
<1>4. \A c \in S : Cardinality(S \ {c}) = Cardinality(S) - 1
  BY <1>1, FS_RemoveElement
<1> QED BY <1>1, <1>2, <1>3, <1>4, FS_CardinalityType, FS_EmptySet

\* A caller moves: the others wait and work as before.
Moves(f, g, c) == \A d \in Caller \ {c} : g[d] = f[d]

LEMMA OneMoves ==
  ASSUME NEW f, NEW g, NEW c \in Caller, Moves(f, g, c), NEW s
  PROVE  /\ Workers(g, s) = IF Works(g[c], s) THEN Workers(f, s) \cup {c} ELSE Workers(f, s) \ {c}
         /\ Waiters(g, s) = IF Waits(g[c], s) THEN Waiters(f, s) \cup {c} ELSE Waiters(f, s) \ {c}
  BY DEF Moves, Workers, Waiters

\* A call that neither leaves nor joins either set leaves the count in bounds.
LEMMA SameBounds ==
  ASSUME NEW f, NEW g, NEW c \in Caller, Moves(f, g, c), NEW s, NEW n, NEW open,
         InBounds(n, f, s, open),
         Works(g[c], s) <=> Works(f[c], s), Waits(g[c], s) <=> Waits(f[c], s)
  PROVE  InBounds(n, g, s, open)
<1>1. Workers(g, s) = Workers(f, s) /\ Waiters(g, s) = Waiters(f, s)
  BY DEF Moves, Workers, Waiters
<1> QED BY <1>1 DEF InBounds

\* A call that lists a due stock: if it is the only one, none was counted;
\* otherwise one is taken off.
LEMMA ListsInBounds ==
  ASSUME NEW f, NEW g, NEW c \in Caller, Moves(f, g, c), NEW s, NEW n,
         InBounds(n, f, s, TRUE), ~Works(f[c], s), Waits(g[c], s)
  PROVE  LET one == IF Workers(f, s) \cup Waiters(f, s) # {} THEN 1 ELSE 0
         IN  InBounds(n - one, g, s, TRUE)
<1>1. Waiters(g, s) = Waiters(f, s) \cup {c} /\ Waiters(f, s) \in SUBSET Caller /\ Waiters(g, s) # {}
  <2>1. Waiters(g, s) = Waiters(f, s) \cup {c}
    BY OneMoves
  <2> QED BY <2>1 DEF Waiters
<1>2. Cardinality(Waiters(g, s)) \in Nat /\ Cardinality(Waiters(f, s)) \in Nat
      /\ Cardinality(Waiters(g, s)) <= Cardinality(Waiters(f, s)) + 1
  <2>1. CASE c \in Waiters(f, s)
    <3>1. Waiters(g, s) = Waiters(f, s)
      BY <1>1, <2>1
    <3>2. Cardinality(Waiters(f, s)) \in Nat
      BY <1>1, CallersCounted
    <3> QED BY <3>1, <3>2
  <2>2. CASE c \notin Waiters(f, s)
    BY <1>1, <2>2, CallersCounted
  <2> QED BY <2>1, <2>2
<1>3. n \in Int /\ n + Cardinality(Waiters(f, s)) <= 1
  BY DEF InBounds
<1>4. CASE Workers(f, s) \cup Waiters(f, s) # {}
  BY <1>1, <1>2, <1>3, <1>4 DEF InBounds
<1>5. CASE Workers(f, s) \cup Waiters(f, s) = {}
  <2>1. n <= 0 /\ Cardinality(Waiters(f, s)) = 0
    <3>1. Waiters(f, s) = {} /\ Workers(f, s) = {}
      BY <1>5
    <3> QED BY <3>1, FS_EmptySet DEF InBounds
  <2> QED BY <1>1, <1>2, <1>3, <1>5, <2>1 DEF InBounds
<1> QED BY <1>4, <1>5

\* A call that begins a stock no longer waits for it.
LEMMA BeginsInBounds ==
  ASSUME NEW f, NEW g, NEW c \in Caller, Moves(f, g, c), NEW s, NEW n, NEW open,
         InBounds(n, f, s, open), Waits(f[c], s), ~Waits(g[c], s), Works(g[c], s)
  PROVE  InBounds(n + 1, g, s, open)
<1>1. Waiters(g, s) = Waiters(f, s) \ {c} /\ Workers(g, s) # {} /\ Waiters(f, s) \in SUBSET Caller /\ c \in Waiters(f, s)
  <2>1. Waiters(g, s) = Waiters(f, s) \ {c} /\ Workers(g, s) = Workers(f, s) \cup {c}
    BY OneMoves
  <2> QED BY <2>1 DEF Waiters
<1>2. Cardinality(Waiters(g, s)) = Cardinality(Waiters(f, s)) - 1 /\ Cardinality(Waiters(f, s)) \in Nat
  BY <1>1, CallersCounted
<1>3. n \in Int /\ n + Cardinality(Waiters(f, s)) <= 1
  BY DEF InBounds
<1> QED BY <1>1, <1>2, <1>3 DEF InBounds

\* The stock a call is at, and those it has to do, while it asks.
LEMMA TaskKeepsStock ==
  ASSUME NEW k, k \in Company!Call, k.at = "task", NEW m, m = Company!NextTask(k) \/ m = Company!NextTry(k)
  PROVE  m.at \in {"task", "stamp"} /\ m.todo = k.todo /\ m.auto = k.auto
<1>1. ASSUME NEW x, x = Company!NextTask(k) PROVE x.at \in {"task", "stamp"} /\ x.todo = k.todo /\ x.auto = k.auto
  <2>1. CASE k.task < Len(Company!Tasks)
    <3>1. x = [k EXCEPT !.task = k.task + 1, !.try = 1]
      BY <1>1, <2>1 DEF Company!NextTask
    <3> QED BY <3>1 DEF Company!Call
  <2>2. CASE ~(k.task < Len(Company!Tasks))
    <3>1. x = [k EXCEPT !.at = "stamp"]
      BY <1>1, <2>2 DEF Company!NextTask
    <3> QED BY <3>1 DEF Company!Call
  <2> QED BY <2>1, <2>2
<1>2. CASE m = Company!NextTry(k)
  <2>1. CASE k.try < Company!Tries(Company!Tasks[k.task])
    <3>1. m = [k EXCEPT !.try = k.try + 1]
      BY <1>2, <2>1 DEF Company!NextTry
    <3> QED BY <3>1 DEF Company!Call
  <2>2. CASE ~(k.try < Company!Tries(Company!Tasks[k.task]))
    BY <1>1, <1>2, <2>2 DEF Company!NextTry
  <2> QED BY <2>1, <2>2
<1> QED BY <1>1, <1>2

\* What a call has to do after a stock: what it had to do but the stock.
LEMMA LeftWaits ==
  ASSUME NEW k, k \in Company!Call, k.at = "stamp", k.todo # <<>>, NEW s
  PROVE  /\ ~Works(Company!Left(k), s)
         /\ Waits(Company!Left(k), s) <=> Waits(k, s)
<1>1. PICK m : m = Company!Left(k)
  OBVIOUS
<1>2. m.at = "next" /\ m.auto = k.auto /\ m.todo = Tail(k.todo)
  <2>1. m = [Company!Idle EXCEPT !.at = "next", !.auto = k.auto, !.todo = Tail(k.todo)]
    BY <1>1 DEF Company!Left
  <2> QED BY <2>1 DEF Company!Idle
<1>3. PICK q \in Seq(Stock) : q = k.todo /\ q # <<>>
  BY DEF Company!Call
<1>4. PICK rest : rest = Tail(q)
  OBVIOUS
<1>5. /\ Len(rest) = Len(q) - 1 /\ Len(q) \in Nat \ {0}
      /\ \A i \in 1..(Len(q) - 1) : rest[i] = q[i + 1]
  BY <1>3, <1>4
<1>6. (\E i \in 1..Len(rest) : rest[i] = s) <=> (\E i \in 2..Len(q) : q[i] = s)
  <2>1. ASSUME NEW i \in 1..Len(rest), rest[i] = s PROVE \E j \in 2..Len(q) : q[j] = s
    <3>1. i + 1 \in 2..Len(q) /\ q[i + 1] = s
      BY <1>5, <2>1
    <3> QED BY <3>1
  <2>2. ASSUME NEW i \in 2..Len(q), q[i] = s PROVE \E j \in 1..Len(rest) : rest[j] = s
    <3>1. i - 1 \in 1..Len(rest) /\ rest[i - 1] = q[(i - 1) + 1] /\ (i - 1) + 1 = i
      BY <1>5
    <3> QED BY <2>2, <3>1
  <2> QED BY <2>1, <2>2
<1> QED BY <1>1, <1>2, <1>3, <1>4, <1>6 DEF Works, Waits

LEMMA InitAttempts == Company!Init => AttemptsCounted
<1> SUFFICES ASSUME Company!Init PROVE AttemptsCounted
  OBVIOUS
<1>1. /\ call = [c \in Caller |-> Company!Idle] /\ attempts = [s \in Stock |-> 0]
      /\ collectedAt = [s \in Stock |-> Company!Never] /\ now = 0 /\ Company!Idle.auto = FALSE
  BY DEF Company!Init, Company!Idle
<1>2. \A s \in Stock : Waiters(call, s) = {}
  BY <1>1 DEF Waiters, Waits
<1>3. \A s \in Stock : InBounds(attempts[s], call, s, OpenAt(s, collectedAt, now))
  BY <1>1, <1>2, FS_EmptySet DEF InBounds
<1> QED BY <1>1, <1>3 DEF AttemptsCounted, Company!Never

LEMMA NextAttempts == CompanyIInv /\ AttemptsCounted /\ [Company!Next]_Company!vars => AttemptsCounted'
<1> SUFFICES ASSUME CompanyIInv, AttemptsCounted, [Company!Next]_Company!vars PROVE AttemptsCounted'
  OBVIOUS
<1>1. /\ DOMAIN call = Caller /\ call = [c \in Caller |-> call[c]]
      /\ collectedAt \in [Stock -> Int] /\ now \in Nat /\ DOMAIN attempts = Stock /\ DAY \in Nat
      /\ \A s \in Stock : InBounds(attempts[s], call, s, OpenAt(s, collectedAt, now))
  BY DataAssumption DEF CompanyIInv, CompanyInvOf, AttemptsCounted, Company!Limits
<1>2. ASSUME NEW c \in Caller
      PROVE  LET k == call[c] IN
             /\ k \in Company!Call /\ k.todo \in Seq(Stock)
             /\ \A i, j \in DOMAIN k.todo : k.todo[i] = k.todo[j] => i = j
             /\ k.at = "idle" => k.todo = <<>>
             /\ k.at \in {"task", "stamp"} => k.todo # <<>> /\ Head(k.todo) \in Stock
  <2>1. PICK k \in Company!Call : k = call[c] /\ Due(k) /\ InOrder(k, published, stored)
    BY DEF CompanyIInv, CompanyInvOf, CallIsSound
  <2>2. k.todo \in Seq(Stock)
    BY <2>1 DEF Company!Call
  <2>3. \A q \in Seq(Stock) : q # <<>> => Head(q) \in Stock
    OBVIOUS
  <2> QED BY <2>1, <2>2, <2>3 DEF Due, InOrder
\* The sets of callers are those of the module.
<1>3. /\ \A s : Company!Working(s) = Workers(call, s) /\ Company!Waiting(s) = Waiters(call, s)
      /\ \A s : Company!Listed(s) = Workers(call, s) \cup Waiters(call, s)
      /\ \A s : Company!Open(s) <=> OpenAt(s, collectedAt, now)
      /\ \A S : Company!Cardinality(S) = Cardinality(S)
  BY SameCardinality DEF Company!Working, Company!Waiting, Company!Listed, Company!Open, OpenAt, Workers, Waiters, Works, Waits
\* A caller moves.
<1>m. ASSUME NEW c \in Caller, NEW m, call' = [call EXCEPT ![c] = m] PROVE Moves(call, call', c) /\ call'[c] = m
  BY <1>1, <1>m DEF Moves
\* Enough that each stock's count stays in bounds.
<1>4. ASSUME collectedAt' = collectedAt, now' = now, DOMAIN attempts' = Stock,
             \A s \in Stock : InBounds(attempts'[s], call', s, OpenAt(s, collectedAt, now))
      PROVE  AttemptsCounted'
  <2>1. \A s \in Stock : InBounds(attempts'[s], call', s, OpenAt(s, collectedAt', now'))
    BY <1>4
  <2> QED BY <1>1, <1>4, <2>1 DEF AttemptsCounted
\* A call goes on with what it had to do.
<1>5. ASSUME NEW c \in Caller, NEW m, call' = [call EXCEPT ![c] = m], attempts' = attempts,
             collectedAt' = collectedAt, now' = now,
             \A s \in Stock : (Works(m, s) <=> Works(call[c], s)) /\ (Waits(m, s) <=> Waits(call[c], s))
      PROVE  AttemptsCounted'
  <2>1. Moves(call, call', c) /\ call'[c] = m
    BY <1>5, <1>m
  <2>2. ASSUME NEW s \in Stock PROVE InBounds(attempts[s], call', s, OpenAt(s, collectedAt, now))
    BY <1>1, <1>5, <2>1, SameBounds
  <2> QED BY <1>1, <1>4, <1>5, <2>2
<1>6. ASSUME NEW c \in Caller, NEW auto \in BOOLEAN, NEW todo \in Seq(Stock), Company!Start(c, auto, todo),
             auto => \A i \in DOMAIN todo : Company!Open(todo[i])
      PROVE  AttemptsCounted'
  <2>1. PICK m : m = [Company!Idle EXCEPT !.at = "next", !.auto = auto, !.todo = todo]
    OBVIOUS
  <2>2. m.at = "next" /\ m.auto = auto /\ m.todo = todo
    BY <2>1 DEF Company!Idle
  <2>3. /\ call[c].at = "idle" /\ call' = [call EXCEPT ![c] = m] /\ collectedAt' = collectedAt /\ now' = now
        /\ attempts' = [s \in Stock |-> IF auto /\ s \in Company!ToSet(todo) /\ Company!Listed(s) # {}
                                        THEN attempts[s] - 1 ELSE attempts[s]]
    BY <1>6, <2>1 DEF Company!Start
  <2>m. Moves(call, call', c) /\ call'[c] = m
    BY <1>m, <2>3
  <2>4. \A s : ~Works(call[c], s) /\ ~Waits(call[c], s)
    <3>1. call[c].todo = <<>>
      BY <1>2, <2>3
    <3> QED BY <2>3, <3>1 DEF Works, Waits
  <2>5. \A s : ~Works(m, s) /\ (Waits(m, s) <=> auto /\ s \in Company!ToSet(todo))
    BY <2>2 DEF Works, Waits, Company!ToSet
  <2>6. ASSUME NEW s \in Stock PROVE InBounds(attempts'[s], call', s, OpenAt(s, collectedAt, now))
    <3>1. CASE auto /\ s \in Company!ToSet(todo)
      <4>1. OpenAt(s, collectedAt, now)
        BY <1>3, <1>6, <3>1 DEF Company!ToSet
      <4>2. InBounds(attempts[s], call, s, TRUE)
        BY <1>1, <4>1 DEF InBounds
      <4>3. PICK one : one = IF Workers(call, s) \cup Waiters(call, s) # {} THEN 1 ELSE 0
        OBVIOUS
      <4>4. InBounds(attempts[s] - one, call', s, TRUE)
        BY <1>1, <2>4, <2>5, <3>1, <4>2, <4>3, <2>m, ListsInBounds
      <4>5. attempts'[s] = attempts[s] - one
        BY <1>3, <2>3, <3>1, <4>2, <4>3 DEF InBounds
      <4> QED BY <4>4, <4>5 DEF InBounds
    <3>2. CASE ~(auto /\ s \in Company!ToSet(todo))
      <4>1. attempts'[s] = attempts[s]
        BY <2>3, <3>2
      <4>2. InBounds(attempts[s], call', s, OpenAt(s, collectedAt, now))
        BY <1>1, <2>4, <2>5, <3>2, <2>m, SameBounds
      <4> QED BY <4>1, <4>2
    <3> QED BY <3>1, <3>2
  <2> QED BY <1>4, <2>3, <2>6
<1>7. ASSUME NEW c \in Caller, Company!AutoCollect(c) \/ Company!BatchCollect(c) PROVE AttemptsCounted'
  <2>1. CASE Company!AutoCollect(c)
    <3>1. PICK q \in Company!Listings : Company!Start(c, TRUE, Company!Cut(q))
      BY <2>1 DEF Company!AutoCollect
    <3>2. PICK todo : todo = Company!Cut(q)
      OBVIOUS
    <3>3. todo \in Seq(Stock) /\ \A i \in DOMAIN todo : Company!Open(todo[i])
      BY <3>2, ListingIsOpen
    <3> QED BY <1>6, <3>1, <3>2, <3>3
  <2>2. CASE Company!BatchCollect(c)
    <3>1. PICK s \in Stock : Company!Start(c, FALSE, <<s>>)
      BY <2>2 DEF Company!BatchCollect
    <3>2. <<s>> \in Seq(Stock)
      OBVIOUS
    <3> QED BY <1>6, <3>1, <3>2
  <2> QED BY <1>7, <2>1, <2>2
<1>8. ASSUME NEW c \in Caller, Company!Begin(c) PROVE AttemptsCounted'
  <2>1. PICK k : k = call[c] /\ k \in Company!Call /\ k.todo \in Seq(Stock)
    BY <1>2
  <2>2. PICK m : m = [k EXCEPT !.at = "task", !.asked = published[Head(k.todo)]]
    OBVIOUS
  <2>3. /\ call' = [call EXCEPT ![c] = m] /\ k.at = "next" /\ k.todo # <<>>
        /\ attempts' = [attempts EXCEPT ![Head(k.todo)] = IF k.auto THEN @ + 1 ELSE @]
        /\ collectedAt' = collectedAt /\ now' = now
    BY <1>1, <1>8, <2>1, <2>2 DEF Company!Begin, Company!Counted
  <2>m. Moves(call, call', c) /\ call'[c] = m
    BY <1>m, <2>3
  <2>4. m.at = "task" /\ m.todo = k.todo /\ m.auto = k.auto
    BY <2>1, <2>2 DEF Company!Call
  <2>5. Len(k.todo) \in Nat \ {0} /\ Head(k.todo) = k.todo[1] /\ DOMAIN k.todo = 1..Len(k.todo) /\ Head(k.todo) \in Stock
    <3>1. PICK q \in Seq(Stock) : q = k.todo /\ q # <<>>
      BY <2>1, <2>3
    <3>2. Len(q) \in Nat \ {0} /\ Head(q) = q[1] /\ DOMAIN q = 1..Len(q) /\ Head(q) \in Stock
      BY <3>1
    <3> QED BY <3>1, <3>2
  <2>6. ASSUME NEW s \in Stock PROVE InBounds(attempts'[s], call', s, OpenAt(s, collectedAt, now))
    <3>1. CASE k.auto /\ s = Head(k.todo)
      <4>1. Waits(k, s) /\ Works(m, s)
        BY <2>3, <2>4, <2>5, <3>1 DEF Waits, Works
      <4>2. ~Waits(m, s)
        <5>1. \A i \in 2..Len(k.todo) : k.todo[i] # k.todo[1]
          <6>1. \A i \in 2..Len(k.todo) : i \in DOMAIN k.todo /\ 1 \in DOMAIN k.todo /\ i # 1
            BY <2>5
          <6>2. \A i, j \in DOMAIN k.todo : k.todo[i] = k.todo[j] => i = j
            BY <1>2, <2>1
          <6> QED BY <6>1, <6>2
        <5> QED BY <2>4, <2>5, <3>1, <5>1 DEF Waits
      <4>3. attempts'[s] = attempts[s] + 1
        BY <1>1, <2>3, <3>1
      <4>4. InBounds(attempts[s] + 1, call', s, OpenAt(s, collectedAt, now))
        BY <1>1, <2>1, <4>1, <4>2, <2>m, BeginsInBounds
      <4> QED BY <4>3, <4>4
    <3>2. CASE ~(k.auto /\ s = Head(k.todo))
      <4>1. attempts'[s] = attempts[s]
        BY <1>1, <2>3, <2>5, <3>2
      <4>2. (Works(m, s) <=> Works(k, s)) /\ (Waits(m, s) <=> Waits(k, s))
        <5>1. k.auto => k.todo[1] # s
          BY <2>5, <3>2
        <5>2. k.auto => ((\E i \in 1..Len(k.todo) : k.todo[i] = s) <=> (\E i \in 2..Len(k.todo) : k.todo[i] = s))
          BY <2>5, <5>1
        <5> QED BY <2>3, <2>4, <3>2, <5>2 DEF Works, Waits
      <4>3. InBounds(attempts[s], call', s, OpenAt(s, collectedAt, now))
        BY <1>1, <2>1, <4>2, <2>m, SameBounds
      <4> QED BY <4>1, <4>3
    <3> QED BY <3>1, <3>2
  <2>7. DOMAIN attempts' = Stock
    BY <1>1, <2>3
  <2> QED BY <1>4, <2>3, <2>6, <2>7
<1>9. ASSUME NEW c \in Caller, Company!Return(c) PROVE AttemptsCounted'
  <2>1. /\ call[c].at = "next" /\ call[c].todo = <<>> /\ call' = [call EXCEPT ![c] = Company!Idle]
        /\ attempts' = attempts /\ collectedAt' = collectedAt /\ now' = now /\ Company!Idle.auto = FALSE
    BY <1>9 DEF Company!Return, Company!Idle
  <2>2. \A s \in Stock : (Works(Company!Idle, s) <=> Works(call[c], s)) /\ (Waits(Company!Idle, s) <=> Waits(call[c], s))
    BY <2>1 DEF Works, Waits
  <2> QED BY <1>5, <2>1, <2>2
<1>10. ASSUME NEW c \in Caller, Company!Found(c) \/ Company!NoData(c) \/ Company!Fails(c) PROVE AttemptsCounted'
  <2>1. PICK k : k = call[c] /\ k \in Company!Call
    BY <1>2
  <2>2. k.at = "task" /\ attempts' = attempts /\ collectedAt' = collectedAt /\ now' = now
    BY <1>10, <2>1 DEF Company!Found, Company!NoData, Company!Fails, Company!Asks
  <2>3. PICK j \in Company!Call : /\ j.at = "task" /\ j.todo = k.todo /\ j.auto = k.auto
                                  /\ \/ call' = [call EXCEPT ![c] = Company!NextTask(j)]
                                     \/ call' = [call EXCEPT ![c] = Company!NextTry(j)]
    <3>1. CASE Company!Found(c) \/ Company!NoData(c)
      <4>1. \/ call' = [call EXCEPT ![c] = Company!NextTask(k)]
            \/ call' = [call EXCEPT ![c] = Company!NextTry(k)]
        BY <1>1, <2>1, <3>1 DEF Company!Found, Company!NoData
      <4> QED BY <2>1, <2>2, <4>1
    <3>2. CASE Company!Fails(c)
      <4>1. PICK t : t = Company!Tasks[k.task]
        OBVIOUS
      <4>2. PICK j : j = [k EXCEPT !.troubled = k.troubled \cup {t}]
        OBVIOUS
      <4>3. t \in Company!Task
        <5>1. k.task \in 1..Len(Company!Tasks)
          BY <2>1 DEF Company!Call
        <5> QED BY <4>1, <5>1, TasksListed
      <4>4. j \in Company!Call /\ j.at = k.at /\ j.todo = k.todo /\ j.auto = k.auto
        BY <2>1, <4>2, <4>3 DEF Company!Call
      <4>5. call' = [call EXCEPT ![c] = Company!NextTry(Company!InTrouble(call[c]))]
        BY <3>2, Zenon DEF Company!Fails
      <4>6. j = Company!InTrouble(call[c])
        BY <2>1, <4>1, <4>2 DEF Company!InTrouble
      <4>7. call' = [call EXCEPT ![c] = Company!NextTry(j)]
        BY <4>5, <4>6, Zenon
      <4> QED BY <2>2, <4>4, <4>7
    <3> QED BY <1>10, <3>1, <3>2
  <2>4. PICK m : call' = [call EXCEPT ![c] = m] /\ m.at \in {"task", "stamp"} /\ m.todo = k.todo /\ m.auto = k.auto
    BY <2>3, TaskKeepsStock
  <2>5. \A s \in Stock : (Works(m, s) <=> Works(call[c], s)) /\ (Waits(m, s) <=> Waits(call[c], s))
    BY <2>1, <2>2, <2>4 DEF Works, Waits
  <2> QED BY <1>5, <2>2, <2>4, <2>5
\* The stamp makes its stock one that is not due.
<1>11. ASSUME NEW c \in Caller, Company!Stamp(c) PROVE AttemptsCounted'
  <2>1. PICK k : k = call[c] /\ k \in Company!Call /\ k.at = "stamp" /\ k.todo # <<>> /\ Head(k.todo) \in Stock
    BY <1>2, <1>11 DEF Company!Stamp
  <2>2. PICK m : m = Company!Left(k)
    OBVIOUS
  <2>3. /\ call' = [call EXCEPT ![c] = m] /\ collectedAt' = [collectedAt EXCEPT ![Head(k.todo)] = now]
        /\ attempts' = attempts /\ now' = now
    BY <1>1, <1>11, <2>1, <2>2 DEF Company!Stamp
  <2>m. Moves(call, call', c) /\ call'[c] = m
    BY <1>m, <2>3
  <2>4. \A s : ~Works(m, s) /\ (Waits(m, s) <=> Waits(k, s))
    BY <2>1, <2>2, LeftWaits
  <2>5. ASSUME NEW s \in Stock PROVE InBounds(attempts'[s], call', s, OpenAt(s, collectedAt', now'))
    <3>1. CASE s = Head(k.todo)
      <4>1. ~OpenAt(s, collectedAt', now')
        BY <1>1, <2>1, <2>3, <3>1 DEF OpenAt, Company!Never
      <4>2. Waiters(call', s) = Waiters(call, s)
        BY <2>1, <2>4, <2>m DEF Moves, Waiters
      <4> QED BY <1>1, <2>3, <4>1, <4>2 DEF InBounds
    <3>2. CASE s # Head(k.todo)
      <4>1. OpenAt(s, collectedAt', now') <=> OpenAt(s, collectedAt, now)
        BY <1>1, <2>1, <2>3, <3>2 DEF OpenAt
      <4>2. ~Works(k, s)
        BY <3>2 DEF Works
      <4>3. InBounds(attempts[s], call', s, OpenAt(s, collectedAt, now))
        BY <1>1, <2>1, <2>4, <4>2, <2>m, SameBounds
      <4> QED BY <2>3, <4>1, <4>3 DEF InBounds
    <3> QED BY <3>1, <3>2
  <2>6. collectedAt' \in [Stock -> Int] /\ now' \in Nat /\ DOMAIN attempts' = Stock
    BY <1>1, <2>1, <2>3
  <2> QED BY <2>5, <2>6 DEF AttemptsCounted
<1>12. ASSUME NEW c \in Caller, Company!StampFails(c) PROVE AttemptsCounted'
  <2>1. PICK k : k = call[c] /\ k \in Company!Call /\ k.at = "stamp" /\ k.todo # <<>> /\ Head(k.todo) \in Stock
    BY <1>2, <1>12 DEF Company!StampFails
  <2>2. PICK m : m = Company!Left(k)
    OBVIOUS
  <2>3. /\ call' = [call EXCEPT ![c] = m] /\ collectedAt' = collectedAt /\ now' = now
        /\ attempts' = [attempts EXCEPT ![Head(k.todo)] = IF k.auto THEN @ + (-1) ELSE @]
    BY <1>1, <1>12, <2>1, <2>2 DEF Company!StampFails, Company!Counted
  <2>m. Moves(call, call', c) /\ call'[c] = m
    BY <1>m, <2>3
  <2>4. \A s : ~Works(m, s) /\ (Waits(m, s) <=> Waits(k, s))
    BY <2>1, <2>2, LeftWaits
  <2>5. ASSUME NEW s \in Stock PROVE InBounds(attempts'[s], call', s, OpenAt(s, collectedAt, now))
    <3>1. CASE k.auto /\ s = Head(k.todo)
      <4>1. Waiters(call', s) = Waiters(call, s)
        BY <2>1, <2>4, <2>m DEF Moves, Waiters
      <4>2. attempts[s] \in Int /\ attempts[s] + Cardinality(Waiters(call, s)) <= 1
        BY <1>1 DEF InBounds
      <4>3. Cardinality(Waiters(call, s)) \in Nat
        <5>1. Waiters(call, s) \in SUBSET Caller
          BY DEF Waiters
        <5> QED BY <5>1, CallersCounted
      <4>4. attempts'[s] = attempts[s] - 1
        BY <1>1, <2>3, <3>1, <4>2
      <4> QED BY <4>1, <4>2, <4>3, <4>4 DEF InBounds
    <3>2. CASE ~(k.auto /\ s = Head(k.todo))
      <4>1. attempts'[s] = attempts[s]
        BY <1>1, <2>1, <2>3, <3>2
      <4>2. ~Works(k, s)
        BY <3>2 DEF Works
      <4>3. InBounds(attempts[s], call', s, OpenAt(s, collectedAt, now))
        BY <1>1, <2>1, <2>4, <4>2, <2>m, SameBounds
      <4> QED BY <4>1, <4>3
    <3> QED BY <3>1, <3>2
  <2>6. DOMAIN attempts' = Stock
    BY <1>1, <2>3
  <2> QED BY <1>4, <2>3, <2>5, <2>6
\* A restart: nobody waits any more, and the attempts under way are taken off.
<1>13. CASE Company!Restart
  <2>1. /\ call' = [c \in Caller |-> Company!Idle] /\ collectedAt' = collectedAt /\ now' = now /\ Company!Idle.auto = FALSE
        /\ attempts' = [s \in Stock |-> attempts[s] - Cardinality(Workers(call, s))]
    BY <1>3, <1>13 DEF Company!Restart, Company!Idle
  <2>2. ASSUME NEW s \in Stock PROVE InBounds(attempts'[s], call', s, OpenAt(s, collectedAt, now))
    <3>1. Waiters(call', s) = {} /\ Cardinality(Waiters(call', s)) = 0
      <4>1. Waiters(call', s) = {}
        BY <2>1 DEF Waiters, Waits
      <4> QED BY <4>1, FS_EmptySet
    <3>2. /\ Cardinality(Waiters(call, s)) \in Nat /\ (Cardinality(Waiters(call, s)) = 0 <=> Waiters(call, s) = {})
          /\ Cardinality(Workers(call, s)) \in Nat /\ (Cardinality(Workers(call, s)) = 0 <=> Workers(call, s) = {})
      <4>1. Waiters(call, s) \in SUBSET Caller /\ Workers(call, s) \in SUBSET Caller
        BY DEF Waiters, Workers
      <4> QED BY <4>1, CallersCounted
    <3>3. /\ attempts[s] \in Int /\ attempts[s] + Cardinality(Waiters(call, s)) <= 1
          /\ OpenAt(s, collectedAt, now) /\ Workers(call, s) = {} /\ Waiters(call, s) = {} => attempts[s] <= 0
      BY <1>1 DEF InBounds
    <3>4. attempts'[s] = attempts[s] - Cardinality(Workers(call, s))
      BY <2>1
    <3>5. OpenAt(s, collectedAt, now) => attempts'[s] <= 0
      BY <3>2, <3>3, <3>4
    <3>6. attempts'[s] \in Int /\ attempts'[s] + 0 <= 1
      BY <3>2, <3>3, <3>4
    <3> QED BY <3>1, <3>5, <3>6 DEF InBounds
  <2> QED BY <1>4, <2>1, <2>2
\* A stock that falls due is counted anew.
<1>14. CASE Company!Tick
  <2>1. /\ call' = call /\ collectedAt' = collectedAt /\ now' = now + 1
        /\ attempts' = [s \in Stock |-> IF ~(~Company!Open(s) /\ Company!Open(s)') THEN attempts[s]
                                        ELSE IF Company!Listed(s) = {} THEN 0 ELSE 1 - Company!Cardinality(Company!Waiting(s))]
    BY <1>14 DEF Company!Tick
  <2>2. \A s : Company!Open(s)' <=> OpenAt(s, collectedAt, now')
    BY <2>1 DEF Company!Open, OpenAt
  <2>3. ASSUME NEW s \in Stock PROVE InBounds(attempts'[s], call, s, OpenAt(s, collectedAt, now'))
    <3>1. PICK fallsDue \in BOOLEAN : fallsDue <=> ~OpenAt(s, collectedAt, now) /\ OpenAt(s, collectedAt, now')
      OBVIOUS
    <3>2. attempts'[s] = IF ~fallsDue THEN attempts[s]
                         ELSE IF Workers(call, s) \cup Waiters(call, s) = {} THEN 0 ELSE 1 - Cardinality(Waiters(call, s))
      BY <1>3, <2>1, <2>2, <3>1
    <3>3. Cardinality(Waiters(call, s)) \in Nat
      <4>1. Waiters(call, s) \in SUBSET Caller
        BY DEF Waiters
      <4> QED BY <4>1, CallersCounted
    <3>4. CASE ~fallsDue
      BY <1>1, <3>1, <3>2, <3>4 DEF InBounds
    <3>5. CASE fallsDue /\ Workers(call, s) \cup Waiters(call, s) = {}
      <4>1. Waiters(call, s) = {} /\ Cardinality(Waiters(call, s)) = 0
        BY <3>5, FS_EmptySet
      <4> QED BY <3>2, <3>5, <4>1 DEF InBounds
    <3>6. CASE fallsDue /\ Workers(call, s) \cup Waiters(call, s) # {}
      <4>1. attempts'[s] = 1 - Cardinality(Waiters(call, s)) /\ ~(Workers(call, s) = {} /\ Waiters(call, s) = {})
        BY <3>2, <3>6
      <4> QED BY <3>3, <4>1 DEF InBounds
    <3> QED BY <3>4, <3>5, <3>6
  <2>4. \A s \in Stock : InBounds(attempts'[s], call', s, OpenAt(s, collectedAt', now'))
    BY <2>1, <2>3
  <2>5. collectedAt' \in [Stock -> Int] /\ now' \in Nat /\ DOMAIN attempts' = Stock
    BY <1>1, <2>1
  <2> QED BY <2>4, <2>5 DEF AttemptsCounted
<1>15. ASSUME (\E s \in Stock, k \in Company!Task : \E r \in 1..Reports : Company!Publish(s, k, r)) \/ UNCHANGED Company!vars
       PROVE  AttemptsCounted'
  <2>1. call' = call /\ attempts' = attempts /\ collectedAt' = collectedAt /\ now' = now
    BY <1>15 DEF Company!Publish, Company!vars
  <2> QED BY <1>1, <1>4, <2>1
<1> QED BY <1>7, <1>8, <1>9, <1>10, <1>11, <1>12, <1>13, <1>14, <1>15 DEF Company!Next, Company!Step

\* Of however many automatic calls and clicks at once, over restarts, failures
\* and days: since it was last due a stock was begun by one automatic call, and
\* by one more for each attempt that left no stamp and each call that had listed
\* it beside another.
THEOREM AttemptedOncePerDay == Company!Spec => []OncePerDay
<1>1. AttemptsCounted => OncePerDay
  <2> SUFFICES ASSUME AttemptsCounted, NEW s \in Stock PROVE attempts[s] <= 1
    BY DEF OncePerDay, Company!OncePerDay
  <2>1. attempts[s] \in Int /\ attempts[s] + Cardinality(Waiters(call, s)) <= 1
    BY DEF AttemptsCounted, InBounds
  <2>2. Cardinality(Waiters(call, s)) \in Nat
    <3>1. Waiters(call, s) \in SUBSET Caller
      BY DEF Waiters
    <3> QED BY <3>1, CallersCounted
  <2> QED BY <2>1, <2>2
<1> QED BY <1>1, InitCompany, NextCompany, InitAttempts, NextAttempts, PTL DEF Company!Spec

-----------------------------------------------------------------------------
\* The rows of company data.  A write that is done leaves its key, and no write
\* takes one away; this is so for one write after the other, as well.
After(w, a) == IF w.done THEN Rows!Upsert(a, w) ELSE a

KeyOf(w) == IF w.done THEN {w.key} ELSE {}

KeysOf(s, n) == UNION {KeyOf(s[i]) : i \in 1..n}

\* One write.
LEMMA WriteAddsKey == \A w, a : Rows!Keys(After(w, a)) = Rows!Keys(a) \cup KeyOf(w)
<1> SUFFICES ASSUME NEW w, NEW a, w.done PROVE Rows!Keys(Rows!Upsert(a, w)) = Rows!Keys(a) \cup {w.key}
  BY DEF After, KeyOf
<1>1. CASE w.update \/ w.key \notin Rows!Keys(a)
  <2>1. PICK b : b = {row \in a : row.key # w.key} \cup {[key |-> w.key, item |-> w.item]}
    OBVIOUS
  <2>2. b = Rows!Upsert(a, w)
    BY <1>1, <2>1 DEF Rows!Upsert
  <2>3. {row.key : row \in b} = {row.key : row \in a} \cup {w.key}
    <3>1. ASSUME NEW row \in b PROVE row.key \in {x.key : x \in a} \cup {w.key}
      BY <2>1
    <3>2. ASSUME NEW row \in a PROVE row.key \in {x.key : x \in b}
      <4>1. CASE row.key = w.key
        <5>1. [key |-> w.key, item |-> w.item] \in b /\ [key |-> w.key, item |-> w.item].key = w.key
          BY <2>1
        <5> QED BY <4>1, <5>1
      <4>2. CASE row.key # w.key
        BY <2>1, <4>2
      <4> QED BY <4>1, <4>2
    <3>3. w.key \in {x.key : x \in b}
      <4>1. [key |-> w.key, item |-> w.item] \in b /\ [key |-> w.key, item |-> w.item].key = w.key
        BY <2>1
      <4> QED BY <4>1
    <3> QED BY <3>1, <3>2, <3>3
  <2> QED BY <2>2, <2>3 DEF Rows!Keys
<1>2. CASE ~(w.update \/ w.key \notin Rows!Keys(a))
  BY <1>2 DEF Rows!Upsert
<1> QED BY <1>1, <1>2

Writing(S, before, s, f) ==
  f = [t \in SUBSET S |-> IF t = {} THEN before ELSE LET x == Max(t) IN After(s[x], f[t \ {x}])]

\* A list of writes is the value of such a function.
LEMMA UpsertsIs ==
  ASSUME NEW before, NEW s
  PROVE  Rows!Upserts(before, s) = (CHOOSE f : Writing(DOMAIN s, before, s, f))[DOMAIN s]
<1>1. \A S : Rows!Max(S) = Max(S)
  BY DEF Rows!Max, Max
<1> QED BY <1>1 DEF Rows!Upserts, Rows!FoldLeft, Rows!MapThenFoldSet, Writing, After

\* There is a function that writes one after the other.
LEMMA WritingExists ==
  ASSUME NEW before, NEW s, NEW n \in Nat
  PROVE  \E f : Writing(1..n, before, s, f)
<1> DEFINE G == {m \in Nat : \E f : Writing(1..m, before, s, f)}
<1>1. 0 \in G
  <2>1. 1..0 = {} /\ SUBSET (1..0) = {{}}
    OBVIOUS
  <2> DEFINE f == [t \in SUBSET (1..0) |-> before]
  <2>2. f = [t \in SUBSET (1..0) |-> IF t = {} THEN before ELSE LET x == Max(t) IN After(s[x], f[t \ {x}])]
    BY <2>1
  <2> QED BY <2>2 DEF Writing
<1>2. ASSUME NEW m \in Nat, m \in G PROVE m + 1 \in G
  <2>1. PICK f : Writing(1..m, before, s, f)
    BY <1>2
  <2>2. PICK g : g = [t \in SUBSET (1..(m + 1)) |->
                        IF m + 1 \in t THEN After(s[m + 1], f[t \ {m + 1}]) ELSE f[t]]
    OBVIOUS
  <2>3. ASSUME NEW t \in SUBSET (1..(m + 1))
        PROVE  g[t] = IF t = {} THEN before ELSE LET x == Max(t) IN After(s[x], g[t \ {x}])
    <3>1. CASE m + 1 \in t
      <4>1. Max(t) = m + 1 /\ t \ {m + 1} \in SUBSET (1..m)
        BY <3>1, GreatestOf
      <4>2. g[t] = After(s[m + 1], f[t \ {m + 1}]) /\ g[t \ {m + 1}] = f[t \ {m + 1}]
        BY <2>2, <3>1
      <4> QED BY <3>1, <4>1, <4>2
    <3>2. CASE m + 1 \notin t
      <4>1. t \in SUBSET (1..m) /\ g[t] = f[t]
        BY <2>2, <3>2
      <4>2. f[t] = IF t = {} THEN before ELSE LET x == Max(t) IN After(s[x], f[t \ {x}])
        BY <2>1, <4>1 DEF Writing
      <4>3. \A x : g[t \ {x}] = f[t \ {x}]
        BY <2>2, <3>2
      <4> QED BY <4>1, <4>2, <4>3
    <3> QED BY <3>1, <3>2
  <2>4. g = [t \in SUBSET (1..(m + 1)) |-> IF t = {} THEN before ELSE LET x == Max(t) IN After(s[x], g[t \ {x}])]
    BY <2>2, <2>3
  <2>5. Writing(1..(m + 1), before, s, g)
    BY <2>4 DEF Writing
  <2> QED BY <2>5
<1>3. n \in G
  <2> HIDE DEF G
  <2> QED BY <1>1, <1>2, InductionOnSets
<1> QED BY <1>3

\* However long the list is: the keys after its writes are those before them
\* and those of the writes that are done.
LEMMA UpsertsAddKeys ==
  ASSUME NEW before, NEW n \in Nat, NEW s, DOMAIN s = 1..n
  PROVE  Rows!Keys(Rows!Upserts(before, s)) = Rows!Keys(before) \cup KeysOf(s, n)
<1>1. PICK f : Writing(1..n, before, s, f) /\ Rows!Upserts(before, s) = f[1..n]
  <2>1. \E h : Writing(1..n, before, s, h)
    BY WritingExists
  <2> QED BY <2>1, UpsertsIs
<1>2. \A t \in SUBSET (1..n) : f[t] = IF t = {} THEN before ELSE LET x == Max(t) IN After(s[x], f[t \ {x}])
  BY <1>1 DEF Writing
<1> DEFINE G == {k \in Nat : k <= n =>
                   Rows!Keys(f[1..k]) = Rows!Keys(before) \cup KeysOf(s, k)}
<1>3. 0 \in G
  <2>1. f[{}] = before
    BY <1>2
  <2>2. 1..0 = {} /\ KeysOf(s, 0) = {}
    BY DEF KeysOf
  <2> QED BY <2>1, <2>2
<1>4. ASSUME NEW k \in Nat, k \in G PROVE k + 1 \in G
  <2> SUFFICES ASSUME k + 1 <= n
               PROVE  Rows!Keys(f[1..(k + 1)]) = Rows!Keys(before) \cup KeysOf(s, k + 1)
    OBVIOUS
  <2>1. k + 1 \in 1..(k + 1) /\ (1..(k + 1)) \ {k + 1} = 1..k /\ 1..(k + 1) \in SUBSET (1..n)
    OBVIOUS
  <2>2. Max(1..(k + 1)) = k + 1
    BY <2>1, GreatestOf
  <2>3. f[1..(k + 1)] = After(s[k + 1], f[1..k])
    BY <1>2, <2>1, <2>2
  <2>4. Rows!Keys(f[1..(k + 1)]) = Rows!Keys(f[1..k]) \cup KeyOf(s[k + 1])
    BY <2>3, WriteAddsKey
  <2>5. KeysOf(s, k + 1) = KeysOf(s, k) \cup KeyOf(s[k + 1])
    <3>1. 1..(k + 1) = (1..k) \cup {k + 1}
      OBVIOUS
    <3>2. \A x : x \in KeysOf(s, k + 1) <=> \E i \in 1..(k + 1) : x \in KeyOf(s[i])
      BY DEF KeysOf
    <3>3. \A x : x \in KeysOf(s, k) <=> \E i \in 1..k : x \in KeyOf(s[i])
      BY DEF KeysOf
    <3>4. \A x : x \in KeysOf(s, k + 1) <=> x \in KeysOf(s, k) \/ x \in KeyOf(s[k + 1])
      BY <3>1, <3>2, <3>3
    <3> QED BY <3>4
  <2>6. Rows!Keys(f[1..k]) = Rows!Keys(before) \cup KeysOf(s, k)
    BY <1>4
  <2> QED BY <2>4, <2>5, <2>6
<1>5. n \in G
  <2> HIDE DEF G
  <2> QED BY <1>3, <1>4, InductionOnSets
<1> QED BY <1>1, <1>5

\* So is a collection: what it adds does not depend on what is there.
LEMMA CollectAddsKeys ==
  ASSUME NEW t \in Rows!Table, NEW n \in Nat, NEW items, DOMAIN items = 1..n, NEW r, NEW at
  PROVE  \E added : \A before :
           Rows!Keys(Rows!Collect(t, before, items, r, at)) = Rows!Keys(before) \cup added
<1>1. PICK s : s = Rows!Writes(t, items, r, at)
  OBVIOUS
<1>2. \E m \in Nat : DOMAIN s = 1..m
  <2>1. \A key : \E m \in Nat : DOMAIN Rows!UpsertSum(items, key) = 1..m
    <3> SUFFICES ASSUME NEW key PROVE \E m \in Nat : DOMAIN Rows!UpsertSum(items, key) = 1..m
      OBVIOUS
    <3>1. CASE items = <<>>
      <4>1. DOMAIN <<>> = 1..0 /\ 0 \in Nat
        OBVIOUS
      <4> QED BY <3>1, <4>1 DEF Rows!UpsertSum
    <3>2. CASE items # <<>>
      <4>1. PICK w : w = Rows!Write(key, Rows!Last(items))
        OBVIOUS
      <4>2. DOMAIN <<w>> = 1..1 /\ 1 \in Nat
        OBVIOUS
      <4> QED BY <3>2, <4>1, <4>2 DEF Rows!UpsertSum
    <3> QED BY <3>1, <3>2
  <2>2. CASE t \in {"employees", "financialSummaries"}
    BY <1>1, <2>1, <2>2 DEF Rows!Writes, Rows!CollectEmployees, Rows!CollectFinancialSummary
  <2>3. CASE t \notin {"employees", "financialSummaries"}
    <3>1. DOMAIN s = 1..n
      BY <1>1, <2>3 DEF Rows!Writes, Rows!Table, Rows!CollectExecutives, Rows!CollectOutsideDirectors,
         Rows!CollectMajorShareholders, Rows!CollectLargeHoldings, Rows!CollectDividends, Rows!CollectAuditOpinion,
         Rows!CollectCapitalChanges, Rows!CollectTreasuryStock, Rows!CollectInsiderTrading, Rows!CollectMajorEvents
    <3> QED BY <3>1
  <2> QED BY <2>2, <2>3
<1>3. PICK m \in Nat : DOMAIN s = 1..m
  BY <1>2
<1>4. \A before : Rows!Keys(Rows!Upserts(before, s)) = Rows!Keys(before) \cup KeysOf(s, m)
  <2> SUFFICES ASSUME NEW before
               PROVE  Rows!Keys(Rows!Upserts(before, s)) = Rows!Keys(before) \cup KeysOf(s, m)
    OBVIOUS
  <2> QED BY <1>3, UpsertsAddKeys
<1> QED BY <1>1, <1>4 DEF Rows!Collect

\* And what an item is filed under does not depend on when it is collected.
LEMMA KeysAreLasting ==
  ASSUME NEW t \in Rows!Table, NEW items, NEW r, NEW at, NEW at2, t # "insiderTradings",
         t \in {"capitalChanges", "treasuryStocks"} => \A i \in DOMAIN items : items[i].date # NoDate
  PROVE  Rows!Writes(t, items, r, at) = Rows!Writes(t, items, r, at2)
<1>1. CASE t \in {"capitalChanges", "treasuryStocks"}
  <2>1. \A i \in DOMAIN items : Rows!Dated(items[i].date, at, i) = Rows!Dated(items[i].date, at2, i)
    BY <1>1 DEF Rows!Dated
  <2>2. Rows!CollectCapitalChanges(items, r, at) = Rows!CollectCapitalChanges(items, r, at2)
    BY <2>1 DEF Rows!CollectCapitalChanges
  <2>3. Rows!CollectTreasuryStock(items, r, at) = Rows!CollectTreasuryStock(items, r, at2)
    BY <2>1 DEF Rows!CollectTreasuryStock
  <2> QED BY <1>1, <2>2, <2>3 DEF Rows!Writes
<1>2. CASE t \notin {"capitalChanges", "treasuryStocks"}
  BY <1>2 DEF Rows!Writes, Rows!Table, Rows!CollectExecutives, Rows!CollectOutsideDirectors,
     Rows!CollectMajorShareholders, Rows!CollectLargeHoldings, Rows!CollectDividends, Rows!CollectAuditOpinion,
     Rows!CollectMajorEvents, Rows!CollectEmployees, Rows!CollectFinancialSummary
<1> QED BY <1>1, <1>2

RowsIInv ==
  /\ table \in Rows!Table
  /\ \E n \in Nat : DOMAIN list = 1..n
  /\ \E n \in Nat : DOMAIN amended = 1..n

\* Whatever the lists, their failures and what was collected in between: a
\* report that is collected again finds all its rows.
THEOREM RowsAreFoundAgain == Rows!Spec => []RecollectionAddsNoRow
<1>1. Rows!Init => RowsIInv
  <2> SUFFICES ASSUME Rows!Init PROVE RowsIInv
    OBVIOUS
  <2>1. ASSUME NEW S, NEW k \in Nat, NEW s \in Rows!BoundedSeq(S, k) PROVE \E n \in Nat : DOMAIN s = 1..n
    <3>1. PICK n \in 0..k : s \in [1..n -> S]
      BY DEF Rows!BoundedSeq, Rows!SeqOf
    <3> QED BY <3>1
  <2> QED BY <2>1 DEF Rows!Init, RowsIInv
<1>2. RowsIInv /\ [FALSE]_Rows!vars => RowsIInv'
  BY DEF RowsIInv, Rows!vars
<1>3. RowsIInv => RecollectionAddsNoRow
  <2> SUFFICES ASSUME RowsIInv, table # "insiderTradings",
                      ~(table \in {"capitalChanges", "treasuryStocks"} /\ Rows!Undated)
               PROVE  Rows!Keys(Rows!Third) = Rows!Keys(Rows!Second)
    BY DEF RecollectionAddsNoRow, Rows!RecollectionAddsNoRow
  <2>a. PICK n \in Nat : DOMAIN list = 1..n
    BY DEF RowsIInv
  <2>b. PICK m \in Nat : DOMAIN amended = 1..m
    BY DEF RowsIInv
  <2>1. PICK added : \A before :
          Rows!Keys(Rows!Collect(table, before, list, report, 1)) = Rows!Keys(before) \cup added
    BY <2>a, CollectAddsKeys DEF RowsIInv
  <2>2. PICK more : \A before :
          Rows!Keys(Rows!Collect(table, before, amended, amendedReport, 2)) = Rows!Keys(before) \cup more
    BY <2>b, CollectAddsKeys DEF RowsIInv
  <2>3. Rows!Writes(table, list, report, 1) = Rows!Writes(table, list, report, 3)
    BY KeysAreLasting DEF RowsIInv, Rows!Undated
  <2>4. \A before : Rows!Collect(table, before, list, report, 3) = Rows!Collect(table, before, list, report, 1)
    BY <2>3 DEF Rows!Collect
  <2>5. added \subseteq Rows!Keys(Rows!First)
    BY <2>1 DEF Rows!First
  <2>6. Rows!Keys(Rows!Second) = Rows!Keys(Rows!First) \cup more
    BY <2>2 DEF Rows!Second
  <2>7. Rows!Keys(Rows!Third) = Rows!Keys(Rows!Second) \cup added
    BY <2>1, <2>4 DEF Rows!Third
  <2> QED BY <2>5, <2>6, <2>7
<1> QED BY <1>1, <1>2, <1>3, PTL DEF Rows!Spec
=============================================================================
