-------------------------- MODULE PDTWindowProofs --------------------------
(***************************************************************************)
(* Theorems about the Pattern Day Trader count, for any resolution of the  *)
(* clock, any span of days and any number of rows.                         *)
(*                                                                         *)
(* Three layers: the days the loop of businessDaysBack returns; the dates  *)
(* the window then holds, as an interval of days; the count of the rows of *)
(* that interval against the five last business days.                      *)
(***************************************************************************)
EXTENDS PDTWindow, FiniteSetTheorems, TLAPS

USE PDTAssumption

-----------------------------------------------------------------------------
(* The loop of businessDaysBack.                                           *)

\* Where the loop ends when it starts on a weekday.
BackFromWeekday(d, days) ==
    d - 7 * (days \div 5) - (IF days % 5 <= d % 7 THEN days % 5 ELSE (days % 5) + 2)

\* Where it ends: a weekend is left through its Friday.
Back(d, days) ==
    IF days = 0 THEN d
    ELSE IF d % 7 = 5 THEN BackFromWeekday(d - 1, days - 1)
    ELSE IF d % 7 = 6 THEN BackFromWeekday(d - 2, days - 1)
    ELSE BackFromWeekday(d, days)

\* One turn of the loop leaves the end of it unchanged.
LEMMA BackTurn ==
    ASSUME NEW d \in Int, NEW days \in Nat, days # 0
    PROVE  Back(d, days) = Back(d - 1, IF IsBusinessDay(d - 1) THEN days - 1 ELSE days)
BY SMT DEF Back, BackFromWeekday, IsBusinessDay

\* The loop ends: some function satisfies the equation of the recursion.
LEMMA LoopEnds ==
    BusinessDaysBack =
        [s \in Int \X Nat |->
            IF s[2] = 0 THEN s[1]
            ELSE BusinessDaysBack[<<s[1] - 1, IF IsBusinessDay(s[1] - 1) THEN s[2] - 1 ELSE s[2]>>]]
<1> DEFINE f == [s \in Int \X Nat |-> Back(s[1], s[2])]
<1>1. f = [s \in Int \X Nat |->
              IF s[2] = 0 THEN s[1]
              ELSE f[<<s[1] - 1, IF IsBusinessDay(s[1] - 1) THEN s[2] - 1 ELSE s[2]>>]]
  <2>1. SUFFICES ASSUME NEW s \in Int \X Nat
                 PROVE  Back(s[1], s[2]) =
                            IF s[2] = 0 THEN s[1]
                            ELSE f[<<s[1] - 1, IF IsBusinessDay(s[1] - 1) THEN s[2] - 1 ELSE s[2]>>]
    OBVIOUS
  <2>2. CASE s[2] = 0
    BY <2>2 DEF Back
  <2>3. CASE s[2] # 0
    <3> DEFINE left == IF IsBusinessDay(s[1] - 1) THEN s[2] - 1 ELSE s[2]
    <3>1. s[1] \in Int /\ s[2] \in Nat /\ s[1] - 1 \in Int /\ left \in Nat
      BY <2>3
    <3>2. f[<<s[1] - 1, left>>] = Back(s[1] - 1, left)
      BY <3>1
    <3> QED
      BY <2>3, <3>1, <3>2, BackTurn
  <2> QED
    BY <2>2, <2>3
<1>2. \E g : g = [s \in Int \X Nat |->
                     IF s[2] = 0 THEN s[1]
                     ELSE g[<<s[1] - 1, IF IsBusinessDay(s[1] - 1) THEN s[2] - 1 ELSE s[2]>>]]
  <2> HIDE DEF f
  <2> QED
    BY <1>1, Zenon
<1> QED
  BY <1>2, Zenon DEF BusinessDaysBack

\* The loop stops when no weekday is left to count.
LEMMA LoopStops ==
    ASSUME NEW d \in Int
    PROVE  BusinessDaysBack[<<d, 0>>] = d
BY LoopEnds

\* A turn of the loop that counts a weekday.
LEMMA LoopCounts ==
    ASSUME NEW d \in Int, NEW days \in Nat \ {0}, IsBusinessDay(d - 1)
    PROVE  BusinessDaysBack[<<d, days>>] = BusinessDaysBack[<<d - 1, days - 1>>]
BY LoopEnds

\* A turn of the loop that skips a day of the weekend.
LEMMA LoopSkips ==
    ASSUME NEW d \in Int, NEW days \in Nat \ {0}, ~IsBusinessDay(d - 1)
    PROVE  BusinessDaysBack[<<d, days>>] = BusinessDaysBack[<<d - 1, days>>]
BY LoopEnds

PreviousBusinessDay(d) ==
    IF d % 7 = 0 THEN d - 3 ELSE IF d % 7 = 6 THEN d - 2 ELSE d - 1

\* The loop goes from one business day to the one before it.
LEMMA LoopGoesToPrevious ==
    ASSUME NEW d \in Int, NEW days \in Nat \ {0}
    PROVE  /\ PreviousBusinessDay(d) \in Int
           /\ BusinessDaysBack[<<d, days>>] =
                  BusinessDaysBack[<<PreviousBusinessDay(d), days - 1>>]
<1>1. CASE d % 7 = 0
  <2>1. ~IsBusinessDay(d - 1) /\ ~IsBusinessDay(d - 1 - 1) /\ IsBusinessDay(d - 1 - 1 - 1)
    BY <1>1 DEF IsBusinessDay
  <2>2. BusinessDaysBack[<<d, days>>] = BusinessDaysBack[<<d - 1, days>>]
    BY <2>1, LoopSkips
  <2>3. BusinessDaysBack[<<d - 1, days>>] = BusinessDaysBack[<<d - 1 - 1, days>>]
    BY <2>1, LoopSkips
  <2>4. BusinessDaysBack[<<d - 1 - 1, days>>] = BusinessDaysBack[<<d - 1 - 1 - 1, days - 1>>]
    BY <2>1, LoopCounts
  <2>5. d - 1 - 1 - 1 = PreviousBusinessDay(d)
    BY <1>1 DEF PreviousBusinessDay
  <2> QED
    BY <2>2, <2>3, <2>4, <2>5
<1>2. CASE d % 7 = 6
  <2>1. ~IsBusinessDay(d - 1) /\ IsBusinessDay(d - 1 - 1)
    BY <1>2 DEF IsBusinessDay
  <2>2. BusinessDaysBack[<<d, days>>] = BusinessDaysBack[<<d - 1, days>>]
    BY <2>1, LoopSkips
  <2>3. BusinessDaysBack[<<d - 1, days>>] = BusinessDaysBack[<<d - 1 - 1, days - 1>>]
    BY <2>1, LoopCounts
  <2>4. d - 1 - 1 = PreviousBusinessDay(d)
    BY <1>2 DEF PreviousBusinessDay
  <2> QED
    BY <2>2, <2>3, <2>4
<1>3. CASE d % 7 \notin {0, 6}
  <2>1. IsBusinessDay(d - 1)
    BY <1>3 DEF IsBusinessDay
  <2>2. d - 1 = PreviousBusinessDay(d)
    BY <1>3 DEF PreviousBusinessDay
  <2> QED
    BY <2>1, <2>2, LoopCounts
<1> QED
  BY <1>1, <1>2, <1>3

\* Five business days back: a week before a weekday, the Monday before a
\* Saturday or a Sunday.
LEMMA FiveBack ==
    ASSUME NEW d \in Int
    PROVE  BusinessDaysBack[<<d, 5>>] =
               IF d % 7 = 5 THEN d - 5 ELSE IF d % 7 = 6 THEN d - 6 ELSE d - 7
<1> DEFINE d1 == PreviousBusinessDay(d)
           d2 == PreviousBusinessDay(d1)
           d3 == PreviousBusinessDay(d2)
           d4 == PreviousBusinessDay(d3)
           d5 == PreviousBusinessDay(d4)
<1>1. d1 \in Int /\ BusinessDaysBack[<<d, 5>>] = BusinessDaysBack[<<d1, 4>>]
  BY LoopGoesToPrevious
<1>2. d2 \in Int /\ BusinessDaysBack[<<d1, 4>>] = BusinessDaysBack[<<d2, 3>>]
  BY <1>1, LoopGoesToPrevious
<1>3. d3 \in Int /\ BusinessDaysBack[<<d2, 3>>] = BusinessDaysBack[<<d3, 2>>]
  BY <1>2, LoopGoesToPrevious
<1>4. d4 \in Int /\ BusinessDaysBack[<<d3, 2>>] = BusinessDaysBack[<<d4, 1>>]
  BY <1>3, LoopGoesToPrevious
<1>5. d5 \in Int /\ BusinessDaysBack[<<d4, 1>>] = BusinessDaysBack[<<d5, 0>>]
  BY <1>4, LoopGoesToPrevious
<1>6. BusinessDaysBack[<<d, 5>>] = d5
  <2> HIDE DEF d1, d2, d3, d4, d5
  <2> QED
    BY <1>1, <1>2, <1>3, <1>4, <1>5, LoopStops
<1>7. d2 = IF d % 7 \in 0..1 THEN d - 4 ELSE IF d % 7 = 6 THEN d - 3 ELSE d - 2
  BY DEF PreviousBusinessDay
<1>8. d3 = IF d % 7 \in 0..2 THEN d - 5 ELSE IF d % 7 = 6 THEN d - 4 ELSE d - 3
  <2> HIDE DEF d2
  <2> QED
    BY <1>7 DEF PreviousBusinessDay
<1>9. d4 = IF d % 7 \in 0..3 THEN d - 6 ELSE IF d % 7 = 6 THEN d - 5 ELSE d - 4
  <2> HIDE DEF d3
  <2> QED
    BY <1>8 DEF PreviousBusinessDay
<1>10. d5 = IF d % 7 \in 0..4 THEN d - 7 ELSE IF d % 7 = 6 THEN d - 6 ELSE d - 5
  <2> HIDE DEF d4
  <2> QED
    BY <1>9 DEF PreviousBusinessDay
<1> HIDE DEF d5
<1> QED
  BY <1>6, <1>10

-----------------------------------------------------------------------------
(* Instants and dates.                                                     *)

LEMMA MidnightIsInstant ==
    ASSUME NEW d \in Int
    PROVE  Midnight(d) \in Int
BY DEF Midnight

\* Day d begins at least y slots before day e begins iff the days between
\* them hold y slots, y being at most a day long.
LEMMA MidnightOrder ==
    ASSUME NEW d \in Int, NEW e \in Int, NEW y \in 1..SlotsPerDay
    PROVE  /\ Midnight(d) + y <= Midnight(e) <=> d < e
           /\ Midnight(e) <= Midnight(d) + y => e <= d + 1
           /\ Midnight(e) <= Midnight(d) + y <=> (e <= d \/ (e = d + 1 /\ y = SlotsPerDay))
<1>1. /\ Midnight(d) + y <= Midnight(e) <=> y <= (e - d) * SlotsPerDay
      /\ Midnight(e) <= Midnight(d) + y <=> (e - d) * SlotsPerDay <= y
  BY DEF Midnight
<1>2. /\ e - d >= 1 => (e - d) * SlotsPerDay >= SlotsPerDay
      /\ e - d <= 0 => (e - d) * SlotsPerDay <= 0
      /\ e - d >= 2 => (e - d) * SlotsPerDay >= SlotsPerDay + SlotsPerDay
      /\ e - d = 1 => (e - d) * SlotsPerDay = SlotsPerDay
      /\ (e - d) * SlotsPerDay \in Int
  OBVIOUS
<1> HIDE DEF Midnight
<1> QED
  BY <1>1, <1>2

\* An instant is a day and a slot of it.
LEMMA DateAndTime ==
    ASSUME NEW t \in Int
    PROVE  /\ DateOf(t) \in Int
           /\ t % SlotsPerDay \in 0..SlotsPerDay - 1
           /\ t = Midnight(DateOf(t)) + (t % SlotsPerDay)
<1>1. t % SlotsPerDay \in 0..SlotsPerDay - 1
  OBVIOUS
<1>2. t \div SlotsPerDay \in Int
  OBVIOUS
<1>3. ASSUME NEW q \in Int, NEW r \in Int, q = t \div SlotsPerDay, r = t % SlotsPerDay
      PROVE  t = q * SlotsPerDay + r
  BY <1>3
<1> QED
  BY <1>1, <1>2, <1>3 DEF DateOf, Midnight

\* An instant past the first of its day is on the day of the instant before.
LEMMA WithinDay ==
    ASSUME NEW t \in Int, (t + 1) % SlotsPerDay # 0
    PROVE  DateOf(t + 1) = DateOf(t) /\ (t + 1) % SlotsPerDay = (t % SlotsPerDay) + 1
<1>1. (t + 1) % SlotsPerDay > 0
  OBVIOUS
<1> QED
  BY <1>1 DEF DateOf

LEMMA DatesGrow ==
    ASSUME NEW t \in Int
    PROVE  DateOf(t) \in Int /\ DateOf(t + 1) \in Int /\ DateOf(t) <= DateOf(t + 1)
BY DEF DateOf

-----------------------------------------------------------------------------
(* The dates of the window.                                                *)

\* The day whose time of day the window starts at.
StartDay(t) == BusinessDaysBack[<<DateOf(t), 5>>]

LEMMA StartDayInWeek ==
    ASSUME NEW t \in Int
    PROVE  /\ StartDay(t) \in Int /\ DateOf(t) - 7 <= StartDay(t)
           /\ IsBusinessDay(DateOf(t)) => StartDay(t) = DateOf(t) - 7
<1>1. DateOf(t) \in Int
  BY DateAndTime
<1> QED
  BY <1>1, FiveBack DEF StartDay, IsBusinessDay

LEMMA Instants ==
    ASSUME NEW t \in Int
    PROVE  /\ DateOf(t) \in Int /\ StartDay(t) \in Int /\ t % SlotsPerDay \in Int
           /\ Midnight(DateOf(t)) \in Int /\ Midnight(StartDay(t)) \in Int
<1>1. DateOf(t) \in Int /\ t % SlotsPerDay \in Int
  BY DateAndTime
<1>2. StartDay(t) \in Int
  BY StartDayInWeek
<1> QED
  BY <1>1, <1>2, MidnightIsInstant

LEMMA WindowBounds ==
    ASSUME NEW t \in Int, NEW d \in Int
    PROVE  InWindow(d, t) <=>
               /\ Midnight(StartDay(t)) + (t % SlotsPerDay) <= Midnight(d) + UTCOffset
               /\ Midnight(d) + UTCOffset <= Midnight(DateOf(t)) + (t % SlotsPerDay)
BY DateAndTime DEF InWindow, WindowStart, TradeDate, StartDay

\* While the UTC date is the local one, past the midnight of both, the
\* window holds the dates after the day it starts on.
LEMMA WindowDates ==
    ASSUME NEW t \in Int, NEW d \in Int, d <= DateOf(t),
           (t % SlotsPerDay) - UTCOffset \in 1..SlotsPerDay
    PROVE  InWindow(d, t) <=> StartDay(t) < d
<1> DEFINE y == (t % SlotsPerDay) - UTCOffset
<1>1. /\ DateOf(t) \in Int /\ StartDay(t) \in Int /\ t % SlotsPerDay \in Int
      /\ Midnight(d) \in Int /\ Midnight(DateOf(t)) \in Int /\ Midnight(StartDay(t)) \in Int
  BY Instants, MidnightIsInstant
<1>2. Midnight(StartDay(t)) + y <= Midnight(d) <=> StartDay(t) < d
  BY <1>1, MidnightOrder
<1>3. Midnight(d) <= Midnight(DateOf(t)) + y
  BY <1>1, MidnightOrder
<1>4. /\ Midnight(StartDay(t)) + (t % SlotsPerDay) <= Midnight(d) + UTCOffset
          <=> Midnight(StartDay(t)) + y <= Midnight(d)
      /\ Midnight(d) + UTCOffset <= Midnight(DateOf(t)) + (t % SlotsPerDay)
          <=> Midnight(d) <= Midnight(DateOf(t)) + y
  BY <1>1
<1> QED
  BY <1>2, <1>3, <1>4, WindowBounds

\* At the midnight of both it holds those dates too, and one more.
LEMMA WindowDatesAtMidnight ==
    ASSUME NEW t \in Int, NEW d \in Int, d <= DateOf(t), StartDay(t) < d,
           t % SlotsPerDay = UTCOffset
    PROVE  InWindow(d, t)
<1>1. /\ DateOf(t) \in Int /\ StartDay(t) \in Int /\ UTCOffset \in 0..SlotsPerDay
      /\ Midnight(d) \in Int /\ Midnight(DateOf(t)) \in Int /\ Midnight(StartDay(t)) \in Int
  BY Instants, MidnightIsInstant, DateAndTime
<1>2. Midnight(StartDay(t)) + SlotsPerDay <= Midnight(d)
  BY <1>1, MidnightOrder
<1>3. DateOf(t) = d \/ d < DateOf(t)
  BY <1>1
<1>4. Midnight(d) <= Midnight(DateOf(t))
  <2>1. CASE d = DateOf(t)
    BY <2>1, <1>1
  <2>2. CASE d < DateOf(t)
    <3>1. Midnight(d) + SlotsPerDay <= Midnight(DateOf(t))
      BY <2>2, <1>1, MidnightOrder
    <3> QED
      BY <3>1, <1>1
  <2> QED
    BY <1>3, <2>1, <2>2
<1> QED
  BY <1>1, <1>2, <1>4, WindowBounds

\* Whatever the offset, no date of the window is older than the prefetch.
LEMMA WindowInPrefetch ==
    ASSUME NEW t \in Int, NEW d \in Int, InWindow(d, t)
    PROVE  d >= DateOf(t) - PrefetchDays
<1>1. /\ DateOf(t) \in Int /\ StartDay(t) \in Int /\ t % SlotsPerDay \in 0..SlotsPerDay - 1
      /\ Midnight(d) \in Int /\ Midnight(StartDay(t)) \in Int
      /\ DateOf(t) - 7 <= StartDay(t)
  BY DateAndTime, Instants, MidnightIsInstant, StartDayInWeek
<1>2. Midnight(StartDay(t)) <= Midnight(d) + SlotsPerDay
  BY <1>1, WindowBounds
<1>3. StartDay(t) <= d + 1
  BY <1>1, <1>2, MidnightOrder
<1> QED
  BY <1>1, <1>3 DEF PrefetchDays

-----------------------------------------------------------------------------
(* The five last business days.                                            *)

BusinessDays(d, e) == {day \in d..e : IsBusinessDay(day)}

\* Seven days in a row hold five business days.
LEMMA WeekHasFive ==
    ASSUME NEW e \in Int
    PROVE  IsFiniteSet(BusinessDays(e - 6, e)) /\ Cardinality(BusinessDays(e - 6, e)) = 5
<1> DEFINE week == (e - 6)..e
           saturday == e - ((e + 2) % 7)
           sunday == e - ((e + 1) % 7)
<1>1. IsFiniteSet(week) /\ Cardinality(week) = 7
  BY FS_Interval
<1>2. saturday \in week /\ sunday \in week /\ saturday # sunday
  OBVIOUS
<1>3. BusinessDays(e - 6, e) = (week \ {saturday}) \ {sunday}
  BY DEF BusinessDays, IsBusinessDay
<1> HIDE DEF week, saturday, sunday
<1>4. /\ IsFiniteSet(week \ {saturday})
      /\ Cardinality(week \ {saturday}) = 6
  BY <1>1, <1>2, FS_RemoveElement
<1>5. sunday \in week \ {saturday}
  BY <1>2
<1>6. /\ IsFiniteSet((week \ {saturday}) \ {sunday})
      /\ Cardinality((week \ {saturday}) \ {sunday}) = 5
  BY <1>4, <1>5, FS_RemoveElement
<1> QED
  BY <1>3, <1>6

\* On a business day, one of the last five is less than a week old.
LEMMA LastFive ==
    ASSUME NEW t \in Int, NEW d \in Int, d <= DateOf(t), IsBusinessDay(d),
           IsBusinessDay(DateOf(t))
    PROVE  OneOfLastFive(d, t) <=> DateOf(t) - 7 < d
<1> DEFINE D == DateOf(t)
           five == BusinessDays(D - 6, D)
<1>1. D \in Int
  BY DateAndTime
<1>2. OneOfLastFive(d, t) <=> Cardinality(BusinessDays(d, D)) <= 5
  BY DEF OneOfLastFive, BusinessDays
<1>3. IsFiniteSet(five) /\ Cardinality(five) = 5
  BY <1>1, WeekHasFive
<1>4. CASE D - 7 < d
  <2>1. BusinessDays(d, D) \subseteq five
    BY <1>1, <1>4 DEF BusinessDays
  <2>2. Cardinality(BusinessDays(d, D)) <= Cardinality(five)
    BY <2>1, <1>3, FS_Subset
  <2> QED
    BY <1>2, <1>3, <1>4, <2>2
<1>5. CASE ~(D - 7 < d)
  <2>1. IsBusinessDay(D - 7)
    BY <1>1 DEF IsBusinessDay
  <2>2. D - 7 \notin five /\ five \union {D - 7} \subseteq BusinessDays(d, D)
    BY <1>1, <1>5, <2>1 DEF BusinessDays
  <2>3. IsFiniteSet(BusinessDays(d, D)) /\ Cardinality(BusinessDays(d, D)) \in Nat
    <3>1. BusinessDays(d, D) \subseteq d..D /\ IsFiniteSet(d..D)
      BY <1>1, FS_Interval DEF BusinessDays
    <3> QED
      BY <3>1, FS_Subset, FS_CardinalityType
  <2>4. Cardinality(five \union {D - 7}) = 6
    BY <1>3, <2>2, FS_AddElement
  <2>5. Cardinality(five \union {D - 7}) <= Cardinality(BusinessDays(d, D))
    BY <2>2, <2>3, FS_Subset
  <2> QED
    BY <1>2, <1>5, <2>3, <2>4, <2>5
<1> QED
  BY <1>4, <1>5

-----------------------------------------------------------------------------
(* The inductive invariant.                                                *)

\* Whatever records day trades runs during sessions only.
RowsOnBusinessDays == \A n \in DOMAIN trades : IsBusinessDay(trades[n])

Inv == TypeOK /\ RowsOnBusinessDays

LEMMA Elements ==
    ASSUME NEW S, NEW s \in Seq(S)
    PROVE  /\ Len(s) \in Nat /\ DOMAIN s = 1..Len(s)
           /\ \A n \in 1..Len(s) : s[n] \in S
OBVIOUS

LEMMA SeqOfMore ==
    ASSUME NEW S, NEW T, S \subseteq T, NEW s \in Seq(S)
    PROVE  s \in Seq(T)
OBVIOUS

LEMMA Typing ==
    ASSUME TypeOK
    PROVE  /\ now \in Int /\ DateOf(now) \in Int /\ FirstDay <= DateOf(now)
           /\ DOMAIN trades = 1..Len(trades) /\ Len(trades) \in Nat
           /\ \A n \in DOMAIN trades : trades[n] \in Int /\ trades[n] <= DateOf(now)
<1>1. now \in Int /\ now >= FirstDay * SlotsPerDay
  BY MidnightIsInstant DEF TypeOK, Midnight
<1>2. DateOf(now) \in Int /\ FirstDay <= DateOf(now)
  BY <1>1 DEF DateOf
<1>3. trades \in Seq(FirstDay..DateOf(now))
  BY DEF TypeOK
<1>4. /\ DOMAIN trades = 1..Len(trades) /\ Len(trades) \in Nat
      /\ \A n \in 1..Len(trades) : trades[n] \in FirstDay..DateOf(now)
  BY <1>3, Elements
<1> QED
  BY <1>1, <1>2, <1>4

LEMMA InvInit == Init => Inv
<1> SUFFICES ASSUME Init PROVE Inv
  OBVIOUS
<1>1. /\ Midnight(FirstDay) \in Int /\ Midnight(LastDay + 1) \in Int
      /\ Midnight(FirstDay) + SlotsPerDay <= Midnight(LastDay + 1)
  BY MidnightOrder, MidnightIsInstant
<1>2. now \in Midnight(FirstDay)..Midnight(LastDay + 1) - 1
  BY <1>1 DEF Init
<1>3. trades \in Seq(FirstDay..DateOf(now)) /\ Len(trades) = 0 /\ DOMAIN trades = {}
  BY DEF Init
<1>4. equity \in {PDTEquityThreshold - 1, PDTEquityThreshold}
  BY DEF Init
<1> QED
  BY <1>2, <1>3, <1>4 DEF Inv, TypeOK, RowsOnBusinessDays

LEMMA InvNext == Inv /\ [Next]_vars => Inv'
<1> SUFFICES ASSUME Inv, [Next]_vars PROVE Inv'
  OBVIOUS
<1> USE DEF Inv, RowsOnBusinessDays
<1>1. CASE Tick
  <2>1. now' \in Midnight(FirstDay)..Midnight(LastDay + 1) - 1
    <3>1. Midnight(FirstDay) \in Int /\ Midnight(LastDay + 1) \in Int
      BY MidnightIsInstant
    <3> QED
      BY <3>1, <1>1 DEF Tick, TypeOK
  <2>2. DateOf(now') \in Int /\ DateOf(now) <= DateOf(now')
    BY <1>1, Typing, DatesGrow DEF Tick
  <2>3. trades' \in Seq(FirstDay..DateOf(now'))
    <3>1. FirstDay..DateOf(now) \subseteq FirstDay..DateOf(now')
      BY <2>2, Typing
    <3>2. trades \in Seq(FirstDay..DateOf(now))
      BY DEF TypeOK
    <3>3. trades \in Seq(FirstDay..DateOf(now'))
      BY <3>1, <3>2, SeqOfMore
    <3> QED
      BY <3>3, <1>1 DEF Tick
  <2> QED
    BY <1>1, <2>1, <2>3 DEF Tick, TypeOK
<1>2. CASE RecordDayTrade
  <2>1. DateOf(now) \in FirstDay..DateOf(now) /\ trades \in Seq(FirstDay..DateOf(now))
    BY Typing DEF TypeOK
  <2>2. /\ trades' \in Seq(FirstDay..DateOf(now)) /\ Len(trades') = Len(trades) + 1
        /\ DOMAIN trades' = 1..Len(trades) + 1
        /\ \A n \in 1..Len(trades) : trades'[n] = trades[n]
        /\ trades'[Len(trades) + 1] = DateOf(now)
    BY <1>2, <2>1 DEF RecordDayTrade
  <2>3. TypeOK'
    BY <1>2, <2>2, Typing DEF RecordDayTrade, TypeOK
  <2>4. \A n \in DOMAIN trades' : IsBusinessDay(trades'[n])
    BY <1>2, <2>2, Typing DEF RecordDayTrade
  <2> QED
    BY <2>3, <2>4
<1>3. CASE EquityCrosses
  BY <1>3 DEF EquityCrosses, TypeOK
<1>4. CASE UNCHANGED vars
  BY <1>4 DEF vars, TypeOK
<1> QED
  BY <1>1, <1>2, <1>3, <1>4 DEF Next

LEMMA Invariance == Spec => []Inv
BY InvInit, InvNext, PTL DEF Spec

\* The clock stays within its days, no row is dated after today, and there
\* are never more rows than the bound: RecordDayTrade dates a round trip by
\* its day.
THEOREM TypeCorrect == Spec => []TypeOK
<1>1. Inv => TypeOK
  BY DEF Inv
<1> QED
  BY <1>1, Invariance, PTL

-----------------------------------------------------------------------------
(* The count.                                                              *)

\* The rows dated after the day the window starts on.
RowsAfter(day) == {n \in DOMAIN trades : day < trades[n]}

\* The rows the count counts.
RowsInWindow == {n \in DOMAIN trades : InWindow(trades[n], now)}

LEMMA RowsAreFinite ==
    ASSUME TypeOK, NEW rows \in SUBSET DOMAIN trades
    PROVE  IsFiniteSet(rows) /\ Cardinality(rows) \in Nat
<1>1. Len(trades) \in Int /\ DOMAIN trades = 1..Len(trades)
  BY Typing
<1>2. IsFiniteSet(DOMAIN trades)
  BY <1>1, FS_Interval
<1>3. IsFiniteSet(rows)
  BY <1>2, FS_Subset
<1> QED
  BY <1>3, FS_CardinalityType

\* The rows ListRecent leaves out are not in the window.
LEMMA PrefetchHoldsWindow ==
    ASSUME TypeOK
    PROVE  {n \in ListRecent(now) : InWindow(trades[n], now)} = RowsInWindow
<1>1. \A n \in DOMAIN trades :
          InWindow(trades[n], now) => trades[n] >= DateOf(now) - PrefetchDays
  BY Typing, WindowInPrefetch
<1> QED
  BY <1>1 DEF ListRecent, RowsInWindow

LEMMA CountedRows ==
    ASSUME TypeOK
    PROVE  /\ CountDayTradesInWindow(DOMAIN trades, now) = Cardinality(RowsInWindow)
           /\ CountDayTradesInWindow(ListRecent(now), now) = Cardinality(RowsInWindow)
BY PrefetchHoldsWindow DEF CountDayTradesInWindow, RowsInWindow

LEMMA RestrictedByRows ==
    ASSUME TypeOK
    PROVE  Restricted <=> /\ equity < PDTEquityThreshold
                          /\ Cardinality(RowsInWindow) >= PDTDayTradeLimit
BY CountedRows DEF Restricted, CheckPDT

\* The rows of the five last business days, on a business day.
LEMMA LastFiveRows ==
    ASSUME Inv, IsBusinessDay(DateOf(now))
    PROVE  TradesOfLastFive(now) = Cardinality(RowsAfter(StartDay(now)))
<1>1. StartDay(now) = DateOf(now) - 7
  BY Typing, StartDayInWeek DEF Inv
<1>2. ASSUME NEW n \in DOMAIN trades
      PROVE  OneOfLastFive(trades[n], now) <=> DateOf(now) - 7 < trades[n]
  <2>1. /\ now \in Int /\ trades[n] \in Int /\ trades[n] <= DateOf(now)
        /\ IsBusinessDay(trades[n])
    BY Typing DEF Inv, RowsOnBusinessDays
  <2> QED
    BY <2>1, LastFive
<1>3. {n \in DOMAIN trades : OneOfLastFive(trades[n], now)} = RowsAfter(StartDay(now))
  BY <1>1, <1>2 DEF RowsAfter
<1> QED
  BY <1>3 DEF TradesOfLastFive

-----------------------------------------------------------------------------
(* What the gate sees.                                                     *)

\* The 14 calendar days ListRecent fetches never change the count, whatever
\* the offset of the gateway's clock (day_trades.go:21-23).
THEOREM FourteenDaysSuffice == Spec => []PrefetchSuffices
<1>1. Inv => PrefetchSuffices
  BY CountedRows DEF Inv, PrefetchSuffices
<1> QED
  BY <1>1, Invariance, PTL

\* The hours of a local day that fall on the UTC day of the same date, its
\* first instant there left out.
DatesAgree == (now % SlotsPerDay) - UTCOffset \in 1..SlotsPerDay

LEMMA WindowRows ==
    ASSUME TypeOK, DatesAgree
    PROVE  RowsInWindow = RowsAfter(StartDay(now))
<1>1. ASSUME NEW n \in DOMAIN trades
      PROVE  InWindow(trades[n], now) <=> StartDay(now) < trades[n]
  <2>1. now \in Int /\ trades[n] \in Int /\ trades[n] <= DateOf(now)
    BY Typing
  <2> QED
    BY <2>1, WindowDates DEF DatesAgree
<1> QED
  BY <1>1 DEF RowsInWindow, RowsAfter

\* Wherever the gateway runs, it counts exactly the five last business days
\* in the hours whose local date is the UTC date trade_date is read back in.
THEOREM ExactWhileDatesAgree ==
    Spec => [](IsBusinessDay(DateOf(now)) /\ DatesAgree =>
                   CountDayTradesInWindow(DOMAIN trades, now) = TradesOfLastFive(now))
<1>1. Inv => (IsBusinessDay(DateOf(now)) /\ DatesAgree =>
                  CountDayTradesInWindow(DOMAIN trades, now) = TradesOfLastFive(now))
  BY CountedRows, WindowRows, LastFiveRows DEF Inv
<1> QED
  BY <1>1, Invariance, PTL

\* A gateway on UTC counts them exactly past the first instant of a day.
THEOREM ExactOnUTC == ASSUME UTCOffset = 0 PROVE Spec => []ExactOnBusinessDays
<1>1. Inv => ExactOnBusinessDays
  <2> SUFFICES ASSUME Inv, IsBusinessDay(DateOf(now)), now % SlotsPerDay # 0
               PROVE  CountDayTradesInWindow(DOMAIN trades, now) = TradesOfLastFive(now)
    BY DEF ExactOnBusinessDays
  <2>1. TypeOK /\ now % SlotsPerDay \in 0..SlotsPerDay - 1
    BY Typing, DateAndTime DEF Inv
  <2>2. DatesAgree
    BY <2>1 DEF DatesAgree
  <2> QED
    BY <2>1, <2>2, CountedRows, WindowRows, LastFiveRows
<1> QED
  BY <1>1, Invariance, PTL

\* A gateway on UTC never lets an account under the threshold with three
\* trades of the last five business days pass on a business day.
THEOREM NothingMissedOnUTC == ASSUME UTCOffset = 0 PROVE Spec => []NoMissedRestriction
<1>1. Inv => NoMissedRestriction
  <2> SUFFICES ASSUME Inv, IsBusinessDay(DateOf(now)), equity < PDTEquityThreshold,
                      TradesOfLastFive(now) >= PDTDayTradeLimit
               PROVE  Restricted
    BY DEF NoMissedRestriction
  <2>1. TypeOK /\ now \in Int /\ now % SlotsPerDay \in 0..SlotsPerDay - 1
    BY Typing, DateAndTime DEF Inv
  <2>2. RowsAfter(StartDay(now)) \subseteq RowsInWindow
    <3>1. CASE now % SlotsPerDay = 0
      <4>1. ASSUME NEW n \in DOMAIN trades, StartDay(now) < trades[n]
            PROVE  InWindow(trades[n], now)
        <5>1. trades[n] \in Int /\ trades[n] <= DateOf(now)
          BY <2>1, Typing
        <5> QED
          BY <5>1, <4>1, <3>1, <2>1, WindowDatesAtMidnight
      <4> QED
        BY <4>1 DEF RowsAfter, RowsInWindow
    <3>2. CASE now % SlotsPerDay # 0
      <4>1. DatesAgree
        BY <2>1, <3>2 DEF DatesAgree
      <4> QED
        BY <4>1, <2>1, WindowRows
    <3> QED
      BY <3>1, <3>2
  <2>3. IsFiniteSet(RowsInWindow) /\ Cardinality(RowsInWindow) \in Nat
    <3>1. RowsInWindow \in SUBSET DOMAIN trades
      BY DEF RowsInWindow
    <3> QED
      BY <3>1, <2>1, RowsAreFinite
  <2>4. /\ Cardinality(RowsAfter(StartDay(now))) <= Cardinality(RowsInWindow)
        /\ Cardinality(RowsAfter(StartDay(now))) \in Nat
    BY <2>2, <2>3, FS_Subset, FS_CardinalityType
  <2>5. Cardinality(RowsAfter(StartDay(now))) >= PDTDayTradeLimit
    BY LastFiveRows
  <2>6. Cardinality(RowsInWindow) >= PDTDayTradeLimit
    BY <2>3, <2>4, <2>5 DEF PDTDayTradeLimit
  <2> QED
    BY <2>1, <2>6, RestrictedByRows
<1> QED
  BY <1>1, Invariance, PTL

-----------------------------------------------------------------------------
(* What lifts a restriction.                                               *)

\* Past the first instant of a day, time does not move the window.
LEMMA TickKeepsWindow ==
    ASSUME UTCOffset = 0, TypeOK, Tick, now' % SlotsPerDay > 1
    PROVE  DatesAgree /\ DatesAgree' /\ StartDay(now') = StartDay(now)
<1>1. now \in Int /\ now' = now + 1
  BY Typing DEF Tick
<1>2. DateOf(now') = DateOf(now) /\ now' % SlotsPerDay = (now % SlotsPerDay) + 1
  BY <1>1, WithinDay
<1>3. now % SlotsPerDay \in 0..SlotsPerDay - 1 /\ now' % SlotsPerDay \in 0..SlotsPerDay - 1
  <2>1. now + 1 \in Int
    BY <1>1
  <2>2. (now + 1) % SlotsPerDay \in 0..SlotsPerDay - 1
    BY <2>1, DateAndTime
  <2> QED
    BY <1>1, <2>2, DateAndTime
<1> QED
  BY <1>2, <1>3 DEF DatesAgree, StartDay

\* A row more takes none out of the window.
LEMMA RecordKeepsRows ==
    ASSUME TypeOK, RecordDayTrade
    PROVE  RowsInWindow \subseteq RowsInWindow'
<1>1. Len(trades) \in Nat /\ DOMAIN trades = 1..Len(trades) /\ trades \in Seq(FirstDay..DateOf(now))
  BY Typing DEF TypeOK
<1>2. /\ DOMAIN trades' = 1..Len(trades) + 1
      /\ \A n \in DOMAIN trades : trades'[n] = trades[n]
  <2>1. DateOf(now) \in FirstDay..DateOf(now)
    BY Typing
  <2> QED
    BY <1>1, <2>1 DEF RecordDayTrade
<1>3. now' = now
  BY DEF RecordDayTrade
<1>4. ASSUME NEW n \in DOMAIN trades, InWindow(trades[n], now)
      PROVE  n \in DOMAIN trades' /\ InWindow(trades'[n], now')
  BY <1>1, <1>2, <1>3, <1>4
<1> QED
  BY <1>4 DEF RowsInWindow

\* What a step needs of the states around it.
RowsDecide ==
    TypeOK =>
        /\ Restricted <=> /\ equity < PDTEquityThreshold
                          /\ Cardinality(RowsInWindow) >= PDTDayTradeLimit
        /\ DatesAgree => RowsInWindow = RowsAfter(StartDay(now))
        /\ IsFiniteSet(RowsInWindow) /\ Cardinality(RowsInWindow) \in Nat

LEMMA RowsAlwaysDecide == RowsDecide
<1>1. RowsInWindow \in SUBSET DOMAIN trades
  BY DEF RowsInWindow
<1> QED
  BY <1>1, RestrictedByRows, WindowRows, RowsAreFinite DEF RowsDecide

\* On a gateway on UTC, an account that stays under the threshold is let
\* through again only by the clock, at the turn of a day or the instant after.
THEOREM LiftedByDayTurnOnUTC == ASSUME UTCOffset = 0 PROVE Spec => LiftsOnlyAtDayTurn
<1> DEFINE Lifts == Restricted /\ ~Restricted' /\ equity' < PDTEquityThreshold
<1>1. RowsDecide
  BY RowsAlwaysDecide
<1>2. RowsDecide'
  BY RowsAlwaysDecide, PTL
<1>3. Inv /\ Inv' /\ [Next]_vars /\ Lifts => now' # now /\ now' % SlotsPerDay <= 1
  <2> SUFFICES ASSUME Inv, Inv', [Next]_vars, Lifts
               PROVE  now' # now /\ now' % SlotsPerDay <= 1
    OBVIOUS
  <2>1. TypeOK /\ TypeOK' /\ now \in Int
    BY Typing DEF Inv
  <2>2. /\ equity < PDTEquityThreshold /\ Cardinality(RowsInWindow) >= PDTDayTradeLimit
        /\ equity' < PDTEquityThreshold /\ ~(Cardinality(RowsInWindow') >= PDTDayTradeLimit)
    BY <1>1, <1>2, <2>1 DEF RowsDecide
  <2>3. CASE Tick
    <3>1. now' = now + 1 /\ trades' = trades
      BY <2>3 DEF Tick
    <3>2. now' % SlotsPerDay \in Int
      BY <2>1, <3>1, DateAndTime
    <3>3. ASSUME now' % SlotsPerDay > 1 PROVE FALSE
      <4>1. DatesAgree /\ DatesAgree' /\ StartDay(now') = StartDay(now)
        BY <2>1, <2>3, <3>3, TickKeepsWindow
      <4>2. RowsAfter(StartDay(now))' = RowsAfter(StartDay(now))
        BY <3>1, <4>1 DEF RowsAfter, StartDay
      <4>3. RowsInWindow' = RowsInWindow
        BY <1>1, <1>2, <2>1, <4>1, <4>2 DEF RowsDecide
      <4> QED
        BY <2>2, <4>3
    <3> QED
      BY <2>1, <3>1, <3>2, <3>3
  <2>4. CASE RecordDayTrade
    <3>1. RowsInWindow \subseteq RowsInWindow'
      BY <2>1, <2>4, RecordKeepsRows
    <3>2. IsFiniteSet(RowsInWindow') /\ Cardinality(RowsInWindow') \in Nat
      BY <1>2, <2>1 DEF RowsDecide
    <3>3. Cardinality(RowsInWindow) <= Cardinality(RowsInWindow')
      BY <3>1, <3>2, FS_Subset
    <3>4. Cardinality(RowsInWindow) \in Nat
      BY <1>1, <2>1 DEF RowsDecide
    <3> QED
      BY <2>2, <3>2, <3>3, <3>4 DEF PDTDayTradeLimit
  <2>5. CASE EquityCrosses
    BY <2>1, <2>2, <2>5 DEF EquityCrosses, TypeOK, PDTEquityThreshold
  <2>6. CASE UNCHANGED vars
    <3>1. RowsInWindow' = RowsInWindow
      BY <2>6 DEF vars, RowsInWindow
    <3> QED
      BY <2>2, <3>1
  <2> QED
    BY <2>3, <2>4, <2>5, <2>6 DEF Next
<1>4. Inv /\ Inv' /\ [Next]_vars =>
          [Restricted /\ ~Restricted' /\ equity' < PDTEquityThreshold
              => now' # now /\ now' % SlotsPerDay <= 1]_vars
  BY <1>3
<1> QED
  BY <1>4, Invariance, PTL DEF Spec, LiftsOnlyAtDayTurn
=============================================================================
