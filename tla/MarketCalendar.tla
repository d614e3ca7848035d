--------------------------- MODULE MarketCalendar ---------------------------
(***************************************************************************)
(* MarketHoursService: the sessions of a market's day, the next opening,   *)
(* and the jobs that follow the Korean market through the year 2026.  The  *)
(* clock goes from one minute that matters to the next; days are numbered  *)
(* from 1 January.  active is the state in which the jobs have left the    *)
(* rows of a user who does nothing himself.                                *)
(***************************************************************************)
EXTENDS Integers

CONSTANTS
  FirstDay, LastDay,   \* the part of the year that is looked at
  MaxOutages           \* bound: how often the process ends

ASSUME CalendarAssumption == FirstDay \in Int /\ LastDay \in Int

\* KRX_HOLIDAYS_2026
KrxHolidays == {1, 27, 28, 29, 60, 125, 144, 157, 227, 267, 268, 269, 276, 282, 359}

At(h, m) == 60 * h + m
Hours(pre, open, closing, close, after) ==
  [preMarketStart |-> pre, marketOpen |-> open, closingStart |-> closing,
   marketClose |-> close, afterHoursEnd |-> after]

US == Hours(At(4, 0), At(9, 30), At(15, 50), At(16, 0), At(20, 0))

MARKET_HOURS ==
  [KRX    |-> Hours(At(8, 0), At(9, 0),  At(15, 20), At(15, 30), At(18, 0)),
   NYSE   |-> US,
   NASDAQ |-> US,
   HKG    |-> Hours(At(9, 0), At(9, 30), At(15, 50), At(16, 0), At(17, 0)),
   TYO    |-> Hours(At(8, 0), At(9, 0),  At(14, 50), At(15, 0), At(16, 0))]

Market == DOMAIN MARKET_HOURS

\* The minutes at which a session of a market begins, and one minute before.
Boundaries == UNION {{MARKET_HOURS[m][f] : f \in DOMAIN MARKET_HOURS[m]} : m \in Market}
Minutes    == {0} \cup Boundaries \cup {b - 1 : b \in Boundaries}
LastMinute == CHOOSE t \in Minutes : \A u \in Minutes : u <= t

VARIABLES
  day, minute,
  up,        \* the process runs
  due,       \* jobs of this minute that have not run
  cached,    \* currentSessions.get('KRX')
  active,    \* the rows say RUNNING, not PAUSED
  missed,    \* history: a sweep of the rows was missed since the last one
  outages

vars == <<day, minute, up, due, cached, active, missed, outages>>

-----------------------------------------------------------------------------
\* getDay() of the day: 1 January 2026 is a Thursday.
DayOfWeek(d) == (d + 3) % 7
Weekend(d)   == DayOfWeek(d) \in {0, 6}

\* Only the Korean holidays are known.
IsHoliday(m, d) == m = "KRX" /\ d \in KrxHolidays

\* getCurrentSession.  The time is the server's, for every market.
SessionAt(m, d, t) ==
  LET h == MARKET_HOURS[m]
      Within(from, to) == from <= t /\ t < to
  IN  IF IsHoliday(m, d) \/ Weekend(d) THEN "CLOSED"
      ELSE CASE Within(h.preMarketStart, h.marketOpen) -> "PRE_MARKET"
             [] Within(h.marketOpen, h.closingStart)   -> "REGULAR"
             [] Within(h.closingStart, h.marketClose)  -> "CLOSING"
             [] Within(h.marketClose, h.afterHoursEnd) -> "AFTER_HOURS"
             [] OTHER                                  -> "CLOSED"

IsOpenAt(m, d, t) == SessionAt(m, d, t) \in {"REGULAR", "CLOSING"}

\* Mutated form: the days that follow are not looked up in the list of holidays.
NextOpenOnWeekday(m, d, t) ==
  LET open == MARKET_HOURS[m].marketOpen
      next == {i \in 1..7 : ~Weekend(d + i)}
  IN  IF t < open /\ ~IsHoliday(m, d) /\ ~Weekend(d) THEN <<d, open>>
      ELSE <<d + (CHOOSE i \in next : \A j \in next : i <= j), open>>

\* getNextMarketOpen: <<day, minute>>; seven days on, at this time of the day, if
\* the market does not open on any of them.
NextMarketOpen(m, d, t) ==
  LET open == MARKET_HOURS[m].marketOpen
      next == {i \in 1..7 : ~Weekend(d + i) /\ ~IsHoliday(m, d + i)}
  IN  IF t < open /\ ~IsHoliday(m, d) /\ ~Weekend(d) THEN <<d, open>>
      ELSE IF next # {} THEN <<d + (CHOOSE i \in next : \A j \in next : i <= j), open>>
      ELSE <<d + 7, t>>

\* The crons: the check of every minute, and those of the weekdays.
Sweeps(d, t) ==
  IF Weekend(d) THEN {}
  ELSE CASE t = At(9, 0)   -> {"open"}
         [] t = At(15, 20) -> {"closing"}
         [] t = At(15, 30) -> {"close"}
         [] OTHER          -> {}
Jobs(d, t) == {"check"} \cup Sweeps(d, t)

\* Its sweeps that write rows.
Writes(d, t) == Sweeps(d, t) \ {"closing"} # {} /\ ~IsHoliday("KRX", d)

-----------------------------------------------------------------------------
Init ==
  /\ day \in FirstDay..LastDay /\ minute \in Minutes
  /\ up = TRUE /\ due = {} /\ outages = 0
  /\ cached = SessionAt("KRX", day, minute)
  /\ active \in BOOLEAN
  /\ missed = (active # IsOpenAt("KRX", day, minute))

Ran(j) == up /\ j \in due /\ due' = due \ {j} /\ UNCHANGED <<day, minute, up, outages>>

\* Mutated form: the weekday cron does not ask for holidays.
MarketOpensOnHolidays ==
  /\ Ran("open")
  /\ cached' = "REGULAR" /\ active' = TRUE /\ missed' = FALSE

\* onMarketOpen and activateAutoTradingSessions
MarketOpens ==
  /\ Ran("open")
  /\ IF IsHoliday("KRX", day) THEN UNCHANGED <<cached, active, missed>>
     ELSE cached' = "REGULAR" /\ active' = TRUE /\ missed' = FALSE

\* onClosingStart: the rows stay, nobody listens to 'trading.close-positions'.
ClosingStarts ==
  /\ Ran("closing")
  /\ cached' = IF IsHoliday("KRX", day) THEN cached ELSE "CLOSING"
  /\ UNCHANGED <<active, missed>>

\* onMarketClose and pauseAutoTradingSessions
MarketCloses ==
  /\ Ran("close")
  /\ IF IsHoliday("KRX", day) THEN UNCHANGED <<cached, active, missed>>
     ELSE cached' = "AFTER_HOURS" /\ active' = FALSE /\ missed' = FALSE

\* checkSessionChanges
CheckSessionChanges ==
  /\ Ran("check")
  /\ cached' = SessionAt("KRX", day, minute)
  /\ UNCHANGED <<active, missed>>

\* The clock moves on when the jobs of the minute have run.
NextMinute ==
  /\ due = {}
  /\ IF minute = LastMinute
     THEN day < LastDay /\ day' = day + 1 /\ minute' = 0
     ELSE day' = day /\ minute' = CHOOSE t \in Minutes :
            t > minute /\ \A u \in Minutes : u > minute => t <= u
  /\ due' = IF up THEN Jobs(day', minute') ELSE {}
  /\ missed' = (missed \/ (~up /\ Writes(day', minute')))
  /\ UNCHANGED <<up, cached, active, outages>>

\* The process ends, at worst before the jobs of the minute have run.
End ==
  /\ up /\ outages < MaxOutages /\ outages' = outages + 1
  /\ up' = FALSE /\ due' = {}
  /\ missed' = (missed \/ (due \cap {"open", "close"} # {} /\ ~IsHoliday("KRX", day)))
  /\ UNCHANGED <<day, minute, cached, active>>

\* onModuleInit
Begin ==
  /\ ~up /\ up' = TRUE
  /\ cached' = SessionAt("KRX", day, minute)
  /\ UNCHANGED <<day, minute, due, active, missed, outages>>

Next ==
  \/ MarketOpens \/ ClosingStarts \/ MarketCloses \/ CheckSessionChanges
  \/ NextMinute \/ End \/ Begin

Spec == Init /\ [][Next]_vars

-----------------------------------------------------------------------------
\* The jobs are told by the weekday and the hour, the sessions by the calendar,
\* and the two agree: whatever the order in which the jobs of a minute run, and
\* over restarts, the cached session is the one of the calendar, and the rows say
\* RUNNING exactly while the market is open, unless a sweep was missed.
SessionsFollowCalendar ==
  up /\ due = {} =>
    /\ cached = SessionAt("KRX", day, minute)
    /\ ~missed => (active <=> IsOpenAt("KRX", day, minute))

\* The next opening that is shown for a closed market is one, whatever holidays
\* and weekends come together, and the market does not open before it.
NextOpenIsNext ==
  \A m \in Market : ~IsOpenAt(m, day, minute) =>
    LET next == NextMarketOpen(m, day, minute) IN
    /\ SessionAt(m, next[1], next[2]) = "REGULAR"
    /\ \A d \in day..next[1], t \in Boundaries :
         (d > day \/ t > minute) /\ IsOpenAt(m, d, t) => d = next[1] /\ t >= next[2]
=============================================================================
