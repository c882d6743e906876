----------------------------- MODULE PDTWindow -----------------------------
(***************************************************************************)
(* The Pattern Day Trader count (internal/engine/pdt.go) over the rows     *)
(* DayTradeStore.ListRecent returns (internal/db/day_trades.go), while the *)
(* clock runs and round trips are recorded.                                *)
(*                                                                         *)
(* Days are numbered from a Monday; an instant is a day and a slot of it,  *)
(* slot 0 being midnight. trade_date is a DATE, read back as midnight UTC; *)
(* weekdays and AddDate go by the gateway's local clock.                   *)
(***************************************************************************)
EXTENDS Integers, Sequences, FiniteSets

CONSTANTS
    SlotsPerDay,   \* resolution of the clock
    UTCOffset,     \* slots the gateway's local clock is ahead of UTC
    FirstDay,      \* the days the clock runs through
    LastDay,
    MaxTrades      \* day_trades rows in all

ASSUME PDTAssumption ==
    /\ SlotsPerDay \in Nat \ {0}
    /\ UTCOffset \in -SlotsPerDay..SlotsPerDay
    /\ FirstDay \in Nat /\ LastDay \in Nat /\ FirstDay <= LastDay
    /\ MaxTrades \in Nat

VARIABLES
    now,      \* the current instant, on the gateway's local clock
    equity,   \* Account.Equity as Alpaca reports it
    trades    \* trade_date of the user's and broker's rows, as recorded

vars == <<now, equity, trades>>

PDTEquityThreshold == 25000
PDTDayTradeLimit == 3
PrefetchDays == 14

Midnight(d) == d * SlotsPerDay
\* Mutant of TradeDate: a date stands for a later instant of its day.
TradeDateAtOpen(d) == Midnight(d) + UTCOffset + 1

\* A trade_date as an instant of the local clock.
TradeDate(d) == Midnight(d) + UTCOffset
DateOf(t) == t \div SlotsPerDay
IsBusinessDay(d) == (d % 7) \notin {5, 6}

\* The loop of businessDaysBack, on a day and the weekdays still to count:
\* back a day at a time.
BusinessDaysBack[s \in Int \X Nat] ==
    IF s[2] = 0 THEN s[1]
    ELSE BusinessDaysBack[<<s[1] - 1, IF IsBusinessDay(s[1] - 1) THEN s[2] - 1 ELSE s[2]>>]

\* Mutant of WindowStart: five calendar days.
WindowStartByCalendar(asOf) == asOf - 5 * SlotsPerDay

\* AddDate keeps the time of day, so the window starts at asOf's time of day.
WindowStart(asOf) ==
    Midnight(BusinessDaysBack[<<DateOf(asOf), 5>>]) + (asOf % SlotsPerDay)

InWindow(d, asOf) == WindowStart(asOf) <= TradeDate(d) /\ TradeDate(d) <= asOf

\* Mutant of ListRecent: as many days as the window has business days.
ListRecentFiveDays(asOf) == {n \in DOMAIN trades : trades[n] >= DateOf(asOf) - 5}

\* DayTrades.ListRecent: the bound is a timestamp compared with a DATE, so
\* only its date counts.
ListRecent(asOf) == {n \in DOMAIN trades : trades[n] >= DateOf(asOf) - PrefetchDays}

CountDayTradesInWindow(rows, asOf) == Cardinality({n \in rows : InWindow(trades[n], asOf)})

\* Mutant of CheckPDT: > for >=.
CheckPDTOneTooMany(account, rows, asOf) ==
    /\ account < PDTEquityThreshold
    /\ CountDayTradesInWindow(rows, asOf) > PDTDayTradeLimit

CheckPDT(account, rows, asOf) ==
    /\ account < PDTEquityThreshold
    /\ CountDayTradesInWindow(rows, asOf) >= PDTDayTradeLimit

\* The verdict of the order handler at this instant.
Restricted == CheckPDT(equity, ListRecent(now), now)

-----------------------------------------------------------------------------
Init ==
    /\ now = Midnight(FirstDay)
    /\ equity \in {PDTEquityThreshold - 1, PDTEquityThreshold}
    /\ trades = <<>>

\* Time passes.
Tick ==
    /\ now + 1 < Midnight(LastDay + 1)
    /\ now' = now + 1
    /\ UNCHANGED <<equity, trades>>

\* Mutant of RecordDayTrade: dated by a clock a day ahead.
RecordDayTradeAhead ==
    /\ IsBusinessDay(DateOf(now))
    /\ Len(trades) < MaxTrades
    /\ trades' = Append(trades, DateOf(now) + 1)
    /\ UNCHANGED <<now, equity>>

\* Whatever fills day_trades records a round trip of the current session.
RecordDayTrade ==
    /\ IsBusinessDay(DateOf(now))
    /\ Len(trades) < MaxTrades
    /\ trades' = Append(trades, DateOf(now))
    /\ UNCHANGED <<now, equity>>

EquityCrosses ==
    /\ equity' \in {PDTEquityThreshold - 1, PDTEquityThreshold} \ {equity}
    /\ UNCHANGED <<now, trades>>

Next == Tick \/ RecordDayTrade \/ EquityCrosses

Spec == Init /\ [][Next]_vars

-----------------------------------------------------------------------------
TypeOK ==
    /\ now \in Midnight(FirstDay)..Midnight(LastDay + 1) - 1
    /\ equity \in {PDTEquityThreshold - 1, PDTEquityThreshold}
    /\ trades \in Seq(FirstDay..DateOf(now)) /\ Len(trades) <= MaxTrades

\* The reference: d is one of the five most recent business days, today
\* included when it is one.
OneOfLastFive(d, asOf) ==
    /\ IsBusinessDay(d) /\ d <= DateOf(asOf)
    /\ Cardinality({e \in d..DateOf(asOf) : IsBusinessDay(e)}) <= 5

TradesOfLastFive(asOf) == Cardinality({n \in DOMAIN trades : OneOfLastFive(trades[n], asOf)})

\* During a business day (past its first instant) the code counts exactly
\* the trades of the last five business days: the time of day that AddDate
\* carries into the start of the window is what drops the sixth day
\* (pdt.go:22-48).
ExactOnBusinessDays ==
    IsBusinessDay(DateOf(now)) /\ now % SlotsPerDay # 0 =>
        CountDayTradesInWindow(DOMAIN trades, now) = TradesOfLastFive(now)

\* On a business day the gate errs on one side only: an account under the
\* threshold with three trades in the last five business days is restricted,
\* at midnight too.
NoMissedRestriction ==
    /\ IsBusinessDay(DateOf(now))
    /\ equity < PDTEquityThreshold
    /\ TradesOfLastFive(now) >= PDTDayTradeLimit
    => Restricted

\* The 14 calendar days ListRecent fetches are enough on any day
\* (day_trades.go:21-23): the rows it leaves out never change the count.
PrefetchSuffices ==
    CountDayTradesInWindow(ListRecent(now), now) = CountDayTradesInWindow(DOMAIN trades, now)

\* Time alone lifts a restriction only at the turn of the oldest counted
\* business day: never within a day past its first instant.
LiftsOnlyAtDayTurn ==
    [][Restricted /\ ~Restricted' /\ equity' < PDTEquityThreshold
          => now' # now /\ now' % SlotsPerDay <= 1]_vars

\* pdt.go:34-35: "executed at broker within the trailing 5-business-day window
\* ending at asOf": no day of that window goes uncounted.
CountsFiveBusinessDays ==
    CountDayTradesInWindow(DOMAIN trades, now) >= TradesOfLastFive(now)
=============================================================================
