--------------------------- MODULE Booking_proofs ---------------------------
(***************************************************************************)
(* For any number of bookings, cells and postamats, any opening hours and  *)
(* any setting of the deadlines: the deadlines of Schedule, the invariants *)
(* of Booking, and that Booking implements CellLease.                      *)
(***************************************************************************)
EXTENDS Booking, Deadlines, FiniteSets, FiniteSetTheorems, WellFoundedInduction, TLAPS

(* Deadlines.                                                              *)

(* Every non-empty set of naturals has a least member.                     *)
LEMMA LeastNatural ==
    ASSUME NEW S \in SUBSET Nat, S # {}
    PROVE  \E x \in S : \A y \in S : x <= y
<1> DEFINE R == OpToRel(<, Nat)
<1>1. IsWellFoundedOn(R, Nat)
    BY NatLessThanWellFounded
<1>2. \A x, y \in Nat : y < x => <<y, x>> \in R
    BY DEF OpToRel
<1> HIDE DEF R
<1>3. PICK x \in S : \A y \in S : ~(<<y, x>> \in R)
    BY <1>1, WFMin
<1>4. \A y \in S : ~(y < x)
    BY <1>2, <1>3
<1> QED BY <1>3, <1>4

(* The offset next_opening_after searches for exists where any offset does.*)
LEMMA FirstOffset ==
    ASSUME NEW h, NEW m, Offsets(h, m) # {}
    PROVE  LET k == CHOOSE k \in Offsets(h, m) : \A j \in Offsets(h, m) : k <= j
           IN  k \in Offsets(h, m) /\ \A j \in Offsets(h, m) : k <= j
<1>1. Offsets(h, m) \in SUBSET Nat
    BY ScheduleAssumption DEF Offsets
<1> QED BY <1>1, LeastNatural

(* A day number and a weekday are what their names say.                    *)
LEMMA DayType ==
    ASSUME NEW m \in Nat
    PROVE  /\ m \div DayLength \in Nat
           /\ m % DayLength \in 0 .. DayLength - 1
           /\ m = DayLength * (m \div DayLength) + (m % DayLength)
           /\ Weekday(m) \in Weekdays
<1>1. DayLength \in Nat \ {0} /\ WeekDays \in Nat \ {0}
    BY ScheduleAssumption
<1>2. /\ m \div DayLength \in Nat
      /\ m % DayLength \in 0 .. DayLength - 1
      /\ m = DayLength * (m \div DayLength) + (m % DayLength)
    BY <1>1
<1>3. Weekday(m) \in Weekdays
    BY <1>1, <1>2 DEF Weekday, Weekdays
<1> QED BY <1>2, <1>3

(* An opening that is still to come is an instant after moment.            *)
LEMMA NextOpeningType ==
    ASSUME NEW h \in PostamatHours, NEW m \in Nat
    PROVE  LET next == next_opening_after(h, m)
           IN  next = NULL \/ (next \in Nat /\ next >= m)
<1>1. CASE h.round_the_clock
    BY <1>1 DEF next_opening_after
<1>2. CASE ~h.round_the_clock /\ Offsets(h, m) = {}
    BY <1>2 DEF next_opening_after
<1>3. CASE ~h.round_the_clock /\ Offsets(h, m) # {}
    <2> DEFINE k == CHOOSE k \in Offsets(h, m) : \A j \in Offsets(h, m) : k <= j
    <2>1. k \in Offsets(h, m)
        BY <1>3, FirstOffset
    <2>2. next_opening_after(h, m) = Candidate(h, m, k)
        BY <1>3 DEF next_opening_after
    <2> HIDE DEF k
    <2>3. k \in Nat /\ Candidate(h, m, k) > m
          /\ h.schedule[Weekday(m + k * DayLength)] # NULL
        BY <2>1, ScheduleAssumption DEF Offsets
    <2> DEFINE day == m + k * DayLength
    <2>4. day \in Nat
        BY <2>3, ScheduleAssumption
    <2> HIDE DEF day
    <2>5. h.schedule[Weekday(day)] \in Slot
        BY <2>3, <2>4, DayType DEF PostamatHours, day
    <2>6. Candidate(h, m, k) \in Nat
        <3>1. h.schedule[Weekday(day)].opens_at \in Nat
            BY <2>5, ScheduleAssumption DEF Slot
        <3>2. (day \div DayLength) * DayLength \in Nat
            BY <2>4, DayType, ScheduleAssumption
        <3> QED BY <3>1, <3>2 DEF Candidate, day
    <2> QED BY <2>2, <2>3, <2>6
<1> QED BY <1>1, <1>2, <1>3

(* Pushing a deadline never brings it forward: the hours a customer paid   *)
(* for, and the grace periods of the README, are never cut short.          *)
THEOREM ReachableNotBefore ==
    ASSUME NEW h \in PostamatHours, NEW m \in Nat
    PROVE  Reachable(h, m) \in Nat /\ Reachable(h, m) >= m
BY NextOpeningType DEF Reachable
-----------------------------------------------------------------------------
(* Days and weeks, of any length.                                          *)

LEMMA TimesGrows ==
    ASSUME NEW d \in Nat, NEW a \in Int, NEW b \in Int, a < b
    PROVE  d * a + d <= d * b
<1>1. d * (b - a - 1) >= 0
    OBVIOUS
<1> QED BY <1>1

LEMMA Division ==
    ASSUME NEW d \in Nat \ {0}, NEW m \in Nat
    PROVE  m \div d \in Nat /\ m % d \in 0 .. d - 1 /\ m = d * (m \div d) + (m % d)
OBVIOUS

(* A number has one quotient and one remainder.                            *)
LEMMA DivisionIs ==
    ASSUME NEW d \in Nat \ {0}, NEW m \in Nat, NEW q \in Nat, NEW r \in 0 .. d - 1,
           m = d * q + r
    PROVE  m \div d = q /\ m % d = r
<1> DEFINE p == m \div d
           s == m % d
<1>1. p \in Nat /\ s \in 0 .. d - 1 /\ m = d * p + s
    BY Division
<1> HIDE DEF p, s
<1>2. CASE p < q
    BY <1>1, <1>2, TimesGrows
<1>3. CASE q < p
    BY <1>1, <1>3, TimesGrows
<1> QED BY <1>1, <1>2, <1>3 DEF p, s

(* So many days later it is the same time of day.                          *)
LEMMA DivisionLater ==
    ASSUME NEW d \in Nat \ {0}, NEW m \in Nat, NEW k \in Nat
    PROVE  /\ m + k * d \in Nat
           /\ (m + k * d) \div d = (m \div d) + k
           /\ (m + k * d) % d = m % d
<1>1. m \div d \in Nat /\ m % d \in 0 .. d - 1 /\ m = d * (m \div d) + (m % d)
    BY Division
<1>2. m + k * d = d * ((m \div d) + k) + (m % d)
    BY <1>1
<1>3. m + k * d \in Nat /\ (m \div d) + k \in Nat
    BY <1>1
<1> QED BY <1>1, <1>2, <1>3, DivisionIs

LEMMA DivisionOrder ==
    ASSUME NEW d \in Nat \ {0}, NEW m \in Nat, NEW t \in Nat
    PROVE  /\ m <= t => m \div d <= t \div d
           /\ m \div d < t \div d => m < d * (t \div d)
<1> DEFINE p == m \div d
           q == t \div d
<1>1. /\ p \in Nat /\ m % d \in 0 .. d - 1 /\ m = d * p + (m % d)
      /\ q \in Nat /\ t % d \in 0 .. d - 1 /\ t = d * q + (t % d)
    BY Division
<1> HIDE DEF p, q
<1>2. ASSUME q < p PROVE t < m
    BY <1>1, <1>2, TimesGrows
<1>3. ASSUME p < q PROVE m < d * q
    BY <1>1, <1>3, TimesGrows
<1> QED BY <1>1, <1>2, <1>3 DEF p, q

(* The opening of a day is an instant of that day, and open.               *)
LEMMA DayOpens ==
    ASSUME NEW h \in PostamatHours, NEW m \in Nat, NEW k \in Nat,
           h.schedule[Weekday(m + k * DayLength)] # NULL
    PROVE  LET o == Candidate(h, m, k)
           IN  /\ o \in Nat
               /\ o \div DayLength = (m \div DayLength) + k
               /\ o <= m + (k + 1) * DayLength
               /\ is_open_at(h, o)
<1> DEFINE day == m + k * DayLength
           slot == h.schedule[Weekday(day)]
           q == (m \div DayLength) + k
           o == Candidate(h, m, k)
<1>1. DayLength \in Nat \ {0} /\ WeekDays \in Nat \ {0}
    BY ScheduleAssumption
<1>2. day \in Nat /\ day \div DayLength = q
    BY <1>1, DivisionLater
<1>3. slot \in Slot
    <2>1. Weekday(day) \in Weekdays
        BY <1>2, DayType
    <2> QED BY <2>1 DEF PostamatHours
<1>4. slot.opens_at \in 0 .. DayLength - 1 /\ slot.opens_at < slot.closes_at
    BY <1>3 DEF Slot
<1>5. o = q * DayLength + slot.opens_at
    BY <1>2 DEF Candidate
<1>6. /\ m \div DayLength \in Nat /\ m % DayLength \in 0 .. DayLength - 1
      /\ m = DayLength * (m \div DayLength) + (m % DayLength)
      /\ q \in Nat
    <2>1. /\ m \div DayLength \in Nat /\ m % DayLength \in 0 .. DayLength - 1
          /\ m = DayLength * (m \div DayLength) + (m % DayLength)
        BY <1>1, Division
    <2> QED BY <2>1
<1> HIDE DEF day, q, o
<1>7. o \in Nat /\ o = DayLength * q + slot.opens_at
    BY <1>1, <1>4, <1>5, <1>6
<1>8. o \div DayLength = q /\ o % DayLength = slot.opens_at
    <2> DEFINE r == slot.opens_at
    <2>1. r \in 0 .. DayLength - 1 /\ o = DayLength * q + r
        BY <1>4, <1>7
    <2> HIDE DEF r, slot
    <2>2. o \div DayLength = q /\ o % DayLength = r
        BY <1>1, <1>6, <1>7, <2>1, DivisionIs
    <2> QED BY <2>2 DEF r
<1>9. Weekday(o) = Weekday(day)
    BY <1>2, <1>8 DEF Weekday
<1>10. is_open_at(h, o)
    BY <1>4, <1>8, <1>9 DEF is_open_at, TimeOfDay, day
<1>11. o <= m + (k + 1) * DayLength
    <2>1. o <= DayLength * q + DayLength
        BY <1>1, <1>4, <1>6, <1>7
    <2>2. DayLength * q = DayLength * (m \div DayLength) + k * DayLength
        BY <1>1, <1>6 DEF q
    <2>3. (k + 1) * DayLength = k * DayLength + DayLength
        BY <1>1
    <2> QED BY <1>1, <1>6, <1>7, <2>1, <2>2, <2>3
<1> QED BY <1>7, <1>8, <1>10, <1>11 DEF o, q

(* From behind a locked door, an open instant so many days on lies after   *)
(* an opening that the search looks at.                                    *)
LEMMA OpeningBefore ==
    ASSUME NEW h \in PostamatHours, NEW m \in Nat, NEW t \in Nat, m < t,
           ~is_open_at(h, m), is_open_at(h, t),
           (t \div DayLength) - (m \div DayLength) <= WeekDays
    PROVE  LET k == (t \div DayLength) - (m \div DayLength)
           IN  k \in Offsets(h, m) /\ Candidate(h, m, k) <= t
<1> DEFINE p == m \div DayLength
           q == t \div DayLength
           k == q - p
           day == m + k * DayLength
           slot == h.schedule[Weekday(t)]
<1>1. DayLength \in Nat \ {0} /\ WeekDays \in Nat \ {0}
    BY ScheduleAssumption
<1>2. /\ p \in Nat /\ m % DayLength \in 0 .. DayLength - 1
      /\ m = DayLength * p + (m % DayLength)
      /\ q \in Nat /\ t % DayLength \in 0 .. DayLength - 1
      /\ t = DayLength * q + (t % DayLength)
    BY <1>1, Division
<1>3. p <= q /\ k \in 0 .. WeekDays /\ q = p + k
    <2>1. p <= q
        BY <1>1, DivisionOrder
    <2>2. k <= WeekDays
        OBVIOUS
    <2> HIDE DEF p, q
    <2> QED BY <1>1, <1>2, <2>1, <2>2
<1>4. day \div DayLength = q
    <2> HIDE DEF k
    <2>1. k \in Nat
        BY <1>1, <1>3
    <2>2. day \div DayLength = p + k
        BY <1>1, <2>1, DivisionLater
    <2> QED BY <1>3, <2>2
<1>5. Weekday(day) = Weekday(t)
    BY <1>4 DEF Weekday
<1>6. /\ ~h.round_the_clock /\ slot # NULL
      /\ slot.opens_at <= t % DayLength /\ t % DayLength < slot.closes_at
    BY DEF is_open_at, TimeOfDay
<1>7. slot.opens_at \in Nat /\ slot.closes_at \in Nat
    <2>1. slot \in Slot
        BY <1>6, DayType DEF PostamatHours
    <2> QED BY <1>1, <2>1 DEF Slot
<1>8. Candidate(h, m, k) = q * DayLength + slot.opens_at
    BY <1>4, <1>5 DEF Candidate
<1> HIDE DEF p, q, k, day
<1>9. q * DayLength = DayLength * q
    BY <1>1, <1>2
<1>10. Candidate(h, m, k) <= t
    BY <1>1, <1>2, <1>6, <1>7, <1>8, <1>9
<1>11. Candidate(h, m, k) > m
    <2>1. CASE p < q
        <3>1. m < DayLength * q
            BY <1>1, <2>1, DivisionOrder DEF p, q
        <3> QED BY <1>1, <1>2, <1>7, <1>8, <1>9, <3>1
    <2>2. CASE p = q
        <3>1. Weekday(m) = Weekday(t) /\ m % DayLength < t % DayLength
            BY <1>1, <1>2, <2>2 DEF Weekday, p, q
        <3>2. m % DayLength < slot.closes_at
            BY <1>2, <1>6, <1>7, <3>1
        <3>3. ~(slot.opens_at <= m % DayLength)
            BY <1>6, <3>1, <3>2 DEF is_open_at, TimeOfDay
        <3> QED BY <1>1, <1>2, <1>7, <1>8, <1>9, <2>2, <3>3
    <2> QED BY <1>2, <1>3, <2>1, <2>2
<1>12. k \in Offsets(h, m)
    BY <1>3, <1>5, <1>6, <1>11 DEF Offsets, day
<1> QED BY <1>10, <1>12 DEF k, p, q

(* Open instants from moment on, over more than a week.                    *)
Openings(h, m) == {t \in m .. m + (WeekDays + 1) * DayLength : is_open_at(h, t)}

(* Nothing on eight days means nothing on one of seven.                    *)
LEMMA NoOpening ==
    ASSUME NEW h \in PostamatHours, NEW m \in Nat, ~is_open_at(h, m), Offsets(h, m) = {}
    PROVE  Openings(h, m) = {}
<1> SUFFICES ASSUME NEW t \in Openings(h, m) PROVE FALSE
    OBVIOUS
<1> DEFINE p == m \div DayLength
           q == t \div DayLength
<1>1. DayLength \in Nat \ {0} /\ WeekDays \in Nat \ {0} /\ WeekDays + 1 \in Nat
    BY ScheduleAssumption
<1>2. t \in Nat /\ m < t /\ is_open_at(h, t) /\ t <= m + (WeekDays + 1) * DayLength
    <2>1. t \in m .. m + (WeekDays + 1) * DayLength /\ t # m /\ is_open_at(h, t)
        BY DEF Openings
    <2>2. (WeekDays + 1) * DayLength \in Nat
        BY <1>1
    <2> QED BY <2>1, <2>2
<1>3. q <= p + (WeekDays + 1) /\ p \in Nat /\ q \in Nat
    <2>1. m + (WeekDays + 1) * DayLength \in Nat
          /\ (m + (WeekDays + 1) * DayLength) \div DayLength = p + (WeekDays + 1)
        BY <1>1, DivisionLater
    <2>2. p \in Nat /\ q \in Nat
        BY <1>1, <1>2, Division
    <2> QED BY <1>1, <1>2, <2>1, <2>2, DivisionOrder
<1>4. q - p = WeekDays + 1
    <2>1. ~(q - p <= WeekDays)
        BY <1>2, OpeningBefore
    <2> HIDE DEF p, q
    <2> QED BY <1>1, <1>3, <2>1
<1>5. Weekday(t) = Weekday(m + 1 * DayLength)
    <2>1. (m + 1 * DayLength) \div DayLength = p + 1
        BY <1>1, DivisionLater
    <2>2. (p + 1 + 1 * WeekDays) % WeekDays = (p + 1) % WeekDays
        <3>1. p + 1 \in Nat
            BY <1>3
        <3> HIDE DEF p
        <3> QED BY <1>1, <3>1, DivisionLater
    <2>3. q = p + 1 + 1 * WeekDays
        <3> HIDE DEF p, q
        <3> QED BY <1>1, <1>3, <1>4
    <2> QED BY <2>1, <2>2, <2>3 DEF Weekday
<1>6. h.schedule[Weekday(m + 1 * DayLength)] # NULL
    <2>1. ~h.round_the_clock
        BY DEF is_open_at
    <2> QED BY <1>2, <1>5, <2>1 DEF is_open_at
<1>7. Candidate(h, m, 1) > m
    <2> DEFINE o == Candidate(h, m, 1)
    <2>1. o \in Nat /\ o \div DayLength = p + 1
        BY <1>6, DayOpens
    <2> HIDE DEF o
    <2>2. m < DayLength * (o \div DayLength)
        <3>1. p < o \div DayLength
            <4> HIDE DEF p
            <4> QED BY <1>3, <2>1
        <3> QED BY <1>1, <2>1, <3>1, DivisionOrder
    <2>3. o \div DayLength \in Nat /\ o % DayLength \in Nat
          /\ o = DayLength * (o \div DayLength) + (o % DayLength)
        <3>1. /\ o \div DayLength \in Nat /\ o % DayLength \in 0 .. DayLength - 1
              /\ o = DayLength * (o \div DayLength) + (o % DayLength)
            BY <1>1, <2>1, Division
        <3> QED BY <1>1, <3>1
    <2>4. DayLength * (o \div DayLength) \in Nat
        BY <1>1, <2>3
    <2> QED BY <2>1, <2>2, <2>3, <2>4 DEF o
<1>8. 1 \in Offsets(h, m)
    BY <1>1, <1>6, <1>7 DEF Offsets
<1> QED BY <1>8

(* The opening that the search finds is the first there is.                *)
LEMMA FirstOpening ==
    ASSUME NEW h \in PostamatHours, NEW m \in Nat, ~is_open_at(h, m), Offsets(h, m) # {}
    PROVE  /\ next_opening_after(h, m) \in Openings(h, m)
           /\ \A t \in Openings(h, m) : next_opening_after(h, m) <= t
<1> DEFINE k == CHOOSE k \in Offsets(h, m) : \A j \in Offsets(h, m) : k <= j
           o == Candidate(h, m, k)
<1>1. k \in Offsets(h, m) /\ \A j \in Offsets(h, m) : k <= j
    BY FirstOffset
<1>2. next_opening_after(h, m) = o
    BY DEF next_opening_after, is_open_at
<1> HIDE DEF k
<1>3. DayLength \in Nat \ {0} /\ WeekDays \in Nat \ {0} /\ k \in 0 .. WeekDays
      /\ o > m /\ h.schedule[Weekday(m + k * DayLength)] # NULL
    BY <1>1, ScheduleAssumption DEF Offsets
<1>4. /\ o \in Nat /\ o \div DayLength = (m \div DayLength) + k
      /\ o <= m + (k + 1) * DayLength /\ is_open_at(h, o)
    <2>1. k \in Nat
        BY <1>3
    <2> QED BY <1>3, <2>1, DayOpens
<1> HIDE DEF o
<1>5. o \in Openings(h, m)
    <2>1. (k + 1) * DayLength <= (WeekDays + 1) * DayLength
        <3>1. (WeekDays - k) * DayLength >= 0
            BY <1>3
        <3> QED BY <1>3, <3>1
    <2>2. (k + 1) * DayLength \in Nat /\ (WeekDays + 1) * DayLength \in Nat
        BY <1>3
    <2>3. o \in m .. m + (WeekDays + 1) * DayLength
        BY <1>3, <1>4, <2>1, <2>2
    <2> QED BY <1>4, <2>3 DEF Openings
<1>6. ASSUME NEW t \in Openings(h, m), t < o PROVE FALSE
    <2> DEFINE p == m \div DayLength
               q == t \div DayLength
    <2>1. t \in Nat /\ m < t /\ is_open_at(h, t)
        <3>1. t \in m .. m + (WeekDays + 1) * DayLength /\ is_open_at(h, t) /\ t # m
            BY DEF Openings
        <3> QED BY <1>3, <3>1
    <2>2. q <= o \div DayLength
        <3>1. t <= o
            BY <1>4, <1>6, <2>1
        <3> QED BY <1>3, <1>4, <2>1, <3>1, DivisionOrder
    <2>3. p \in Nat /\ q \in Nat
        BY <1>3, <2>1, Division
    <2>4. q - p <= k
        <3> HIDE DEF p, q
        <3>1. q <= p + k
            BY <1>4, <2>2 DEF p
        <3> QED BY <1>3, <2>3, <3>1
    <2>5. q - p <= WeekDays
        <3> HIDE DEF p, q
        <3> QED BY <1>3, <2>3, <2>4
    <2>6. q - p \in Offsets(h, m) /\ Candidate(h, m, q - p) <= t
        BY <2>1, <2>5, OpeningBefore
    <2>7. q - p = k
        <3> HIDE DEF p, q
        <3>1. k <= q - p
            BY <1>1, <2>6
        <3> QED BY <1>3, <2>3, <2>4, <3>1
    <2> QED BY <1>4, <1>6, <2>1, <2>6, <2>7 DEF o
<1>7. \A t \in Openings(h, m) : t \in Nat
    <2>1. (WeekDays + 1) * DayLength \in Nat
        BY <1>3
    <2> QED BY <2>1 DEF Openings
<1> QED BY <1>2, <1>4, <1>5, <1>6, <1>7

(* Where the door stands open a deadline stays; else it moves to the next  *)
(* opening, and where there is none it stays as well.                      *)
LEMMA ReachableIs ==
    ASSUME NEW h \in PostamatHours, NEW m \in Nat
    PROVE  /\ Openings(h, m) = {} => Reachable(h, m) = m
           /\ Openings(h, m) # {} =>
                 /\ Reachable(h, m) \in Openings(h, m)
                 /\ \A t \in Openings(h, m) : Reachable(h, m) <= t
<1>1. (WeekDays + 1) * DayLength \in Nat
    BY ScheduleAssumption
<1>2. CASE is_open_at(h, m)
    <2>1. Reachable(h, m) = m
        BY <1>2 DEF Reachable
    <2>2. m \in Openings(h, m) /\ \A t \in Openings(h, m) : m <= t
        BY <1>1, <1>2 DEF Openings
    <2> QED BY <2>1, <2>2
<1>3. CASE ~is_open_at(h, m) /\ Offsets(h, m) = {}
    <2>1. next_opening_after(h, m) = NULL
        BY <1>3 DEF next_opening_after, is_open_at
    <2> QED BY <1>3, <2>1, NoOpening DEF Reachable
<1>4. CASE ~is_open_at(h, m) /\ Offsets(h, m) # {}
    <2>1. /\ next_opening_after(h, m) \in Openings(h, m)
          /\ \A t \in Openings(h, m) : next_opening_after(h, m) <= t
        BY <1>4, FirstOpening
    <2>2. next_opening_after(h, m) # NULL
        BY <2>1, ScheduleAssumption DEF Openings
    <2> QED BY <1>4, <2>1, <2>2 DEF Reachable
<1> QED BY <1>2, <1>3, <1>4

LEMMA ReachableOrder ==
    ASSUME NEW h \in PostamatHours, NEW m \in Nat, NEW n \in Nat, m <= n
    PROVE  Reachable(h, m) <= Reachable(h, n)
<1> DEFINE r == Reachable(h, m)
           s == Reachable(h, n)
           week == (WeekDays + 1) * DayLength
<1>1. week \in Nat
    BY ScheduleAssumption
<1>2. r \in Nat /\ r >= m /\ s \in Nat /\ s >= n
    BY ReachableNotBefore
<1>3. ASSUME Openings(h, m) # {}, n < r, s < r PROVE FALSE
    <2>1. r \in m .. m + week /\ is_open_at(h, r) /\ \A t \in Openings(h, m) : r <= t
        BY <1>3, ReachableIs DEF Openings
    <2> HIDE DEF r, s, week
    <2>2. r \in n .. n + week
        BY <1>1, <1>2, <1>3, <2>1
    <2>3. Openings(h, n) # {}
        BY <2>1, <2>2 DEF Openings, week
    <2>4. s \in n .. n + week /\ is_open_at(h, s)
        BY <2>3, ReachableIs DEF Openings, s, week
    <2>5. s \in m .. m + week
        BY <1>1, <1>2, <1>3, <2>1, <2>4
    <2>6. s \in Openings(h, m)
        BY <2>4, <2>5 DEF Openings, week
    <2> QED BY <1>2, <1>3, <2>1, <2>6
<1>4. CASE Openings(h, m) = {}
    <2>1. r = m
        BY <1>4, ReachableIs
    <2> HIDE DEF r, s
    <2>2. r <= s
        BY <1>2, <2>1
    <2> QED BY <2>2 DEF r, s
<1> HIDE DEF r, s
<1>5. r <= s
    BY <1>2, <1>3, <1>4 DEF r, s
<1> QED BY <1>5 DEF r, s
-----------------------------------------------------------------------------
(* The same as Deadlines states it.                                        *)

LEMMA DeadlinesTyped == DeadlinesSpec => [](openingHours \in PostamatHours /\ instant \in Nat)
<1> DEFINE Typed == openingHours \in PostamatHours /\ instant \in Nat
<1>1. DeadlinesInit => Typed
    BY DEF DeadlinesInit
<1>2. Typed /\ [DeadlinesNext]_deadlineVars => Typed'
    BY DEF DeadlinesNext, deadlineVars
<1> QED BY <1>1, <1>2, PTL DEF DeadlinesSpec

(* Storage ends at the first open instant not before the hours paid for    *)
(* have passed, at any site, at any instant and for any length of rental   *)
(* (storage_expiry with _reachable and next_opening_after).                *)
THEOREM ExpiryIsFirst == DeadlinesSpec => []ExpiryIsFirstReachable
<1>1. ASSUME openingHours \in PostamatHours, instant \in Nat, NEW d \in Lengths
      PROVE  storage_expiry(openingHours, instant, d) =
                 IF OpenFrom(instant + d) = {} THEN instant + d ELSE FirstOpen(instant + d)
    <2> DEFINE t == instant + d
    <2>1. t \in Nat
        BY <1>1, DeadlinesAssumption
    <2>2. /\ storage_expiry(openingHours, instant, d) = Reachable(openingHours, t)
          /\ OpenFrom(t) = Openings(openingHours, t)
        BY DEF storage_expiry, OpenFrom, Openings
    <2> HIDE DEF t
    <2>3. CASE OpenFrom(t) = {}
        BY <1>1, <2>1, <2>2, <2>3, ReachableIs DEF t
    <2>4. CASE OpenFrom(t) # {}
        <3>1. /\ Reachable(openingHours, t) \in OpenFrom(t)
              /\ \A u \in OpenFrom(t) : Reachable(openingHours, t) <= u
            BY <1>1, <2>1, <2>2, <2>4, ReachableIs
        <3>2. FirstOpen(t) \in OpenFrom(t) /\ \A u \in OpenFrom(t) : FirstOpen(t) <= u
            BY <3>1 DEF FirstOpen
        <3>3. \A u \in OpenFrom(t) : u \in Nat
            <4>1. (WeekDays + 1) * DayLength \in Nat
                BY ScheduleAssumption
            <4> QED BY <2>1, <4>1 DEF OpenFrom
        <3>4. Reachable(openingHours, t) = FirstOpen(t)
            BY <3>1, <3>2, <3>3
        <3> QED BY <2>2, <2>4, <3>4 DEF t
    <2> QED BY <2>3, <2>4
<1>2. openingHours \in PostamatHours /\ instant \in Nat => ExpiryIsFirstReachable
    BY <1>1 DEF ExpiryIsFirstReachable
<1> QED BY <1>2, DeadlinesTyped, PTL

(* Pushing deadlines to openings never reorders them, at any site: what    *)
(* expires earlier is never escalated later, and grace never ends after    *)
(* the overdue deadline (_reachable).                                      *)
THEOREM DeadlinesOrdered == DeadlinesSpec => []DeadlinesKeepOrder
<1>1. ASSUME openingHours \in PostamatHours, instant \in Nat
      PROVE  DeadlinesKeepOrder
    <2> DEFINE h == openingHours
               m == instant
    <2>1. m + 1 \in Nat /\ m <= m + 1
        BY <1>1
    <2>2. Reachable(h, m) <= Reachable(h, m + 1)
        BY <1>1, <2>1, ReachableOrder
    <2>3. /\ m + GraceLength \in Nat /\ m + 2 * GraceLength \in Nat
          /\ m <= m + GraceLength /\ m + GraceLength <= m + 2 * GraceLength
        BY <1>1, ScheduleAssumption
    <2>4. Reachable(h, m + GraceLength) \in Nat
          /\ m + GraceLength <= Reachable(h, m + GraceLength)
        BY <1>1, <2>3, ReachableNotBefore
    <2>5. m <= Reachable(h, m + GraceLength)
        BY <1>1, <2>3, <2>4
    <2>6. Reachable(h, m + GraceLength) <= Reachable(h, m + 2 * GraceLength)
        BY <1>1, <2>3, ReachableOrder
    <2> QED BY <2>2, <2>5, <2>6 DEF DeadlinesKeepOrder, grace_ends, overdue_at
<1> QED BY <1>1, DeadlinesTyped, PTL
-----------------------------------------------------------------------------
(* The transition table, in the direction the proofs use it.               *)
LEMMA Transitions ==
    ASSUME NEW s \in BookingStatus, NEW t, can_transition(s, t)
    PROVE  \/ s = "pending_payment" /\ t \in {"awaiting_deposit", "cancelled", "payment_failed"}
           \/ s = "awaiting_deposit" /\ t \in {"awaiting_pickup", "cancelled"}
           \/ s = "awaiting_pickup" /\ t \in {"completed", "expired"}
           \/ s = "expired" /\ t \in {"completed", "grace"}
           \/ s = "grace" /\ t \in {"completed", "overdue"}
           \/ s = "overdue" /\ t \in {"completed", "to_remove"}
           \/ s = "to_remove" /\ t \in {"completed", "removed"}
           \/ s = "removed" /\ t = "closed"
BY DEF can_transition, ALLOWED_TRANSITIONS, BookingStatus

LEMMA TransitionType ==
    ASSUME NEW s \in BookingStatus, NEW t, can_transition(s, t)
    PROVE  t \in BookingStatus
BY Transitions DEF BookingStatus
-----------------------------------------------------------------------------
(* Type correctness.  The storage clock is computed from the row's         *)
(* postamat and duration, so the row of a booking has to be filled.        *)
RowsFilled ==
    \A b \in Bookings : status[b] # NULL =>
        cell[b] \in Cells /\ site[b] \in Postamats /\ duration[b] \in Durations

TypeInv == TypeOK /\ RowsFilled

LEMMA TypeInit == Init => TypeInv
BY BookingAssumption DEF Init, TypeInv, TypeOK, RowsFilled

LEMMA ExpiryType ==
    ASSUME TypeInv, NEW b \in Bookings, status[b] # NULL
    PROVE  storage_expiry(hours[site[b]], now, duration[b]) \in Nat
<1>1. hours[site[b]] \in PostamatHours /\ duration[b] \in Nat /\ now \in Nat
    BY BookingAssumption DEF TypeInv, TypeOK, RowsFilled
<1> QED BY <1>1, ReachableNotBefore DEF storage_expiry

LEMMA TypeStep == TypeInv /\ [Next]_vars => TypeInv'
<1> SUFFICES ASSUME TypeInv, [Next]_vars PROVE TypeInv'
    OBVIOUS
<1> USE BookingAssumption DEF TypeInv
<1>1. ASSUME NEW b \in Bookings, NEW p \in Postamats, NEW d \in Durations,
             create_booking(b, p, d)
      PROVE  TypeInv'
    <2>1. \A c \in free_cell_ids(p) : c \in Cells
        BY DEF free_cell_ids
    <2> QED
        BY <1>1, <2>1 DEF create_booking, TypeOK, RowsFilled, BookingStatus,
            storageVars, custodyVars, cellVars
<1>2. ASSUME NEW b \in Bookings, extend_hold(b)
      PROVE  TypeInv'
    BY <1>2 DEF extend_hold, HoldRunning, ExtensionsLeft, TypeOK, RowsFilled,
        rowVars, storageVars, custodyVars, cellVars
<1>3. ASSUME NEW b \in Bookings, mark_paid(b)
      PROVE  TypeInv'
    BY <1>3 DEF mark_paid, Move, TypeOK, RowsFilled, BookingStatus, Stamp,
        rowVars, storageVars, custodyVars, cellVars
<1>4. ASSUME NEW b \in Bookings, payment_failed(b) \/ cancel(b)
      PROVE  TypeInv'
    <2>1. CASE payment_failed(b)
        BY <2>1 DEF payment_failed, Move, TypeOK, RowsFilled, BookingStatus,
            rowVars, holdVars, storageVars, custodyVars, cellVars
    <2>2. CASE cancel(b)
        BY <2>2 DEF cancel, Move, TypeOK, RowsFilled, BookingStatus,
            rowVars, holdVars, storageVars, custodyVars, cellVars
    <2> QED BY <1>4, <2>1, <2>2
<1>5. ASSUME release_expired_holds
      PROVE  TypeInv'
    BY <1>5 DEF release_expired_holds, Stale, TypeOK, RowsFilled, BookingStatus,
        rowVars, holdVars, storageVars, custodyVars, cellVars
<1>6. ASSUME NEW b \in Bookings, mark_deposited(b)
      PROVE  TypeInv'
    BY <1>6, ExpiryType DEF mark_deposited, Move, TypeOK, RowsFilled, BookingStatus,
        Stamp, rowVars, holdVars, custodyVars, cellVars
<1>7. ASSUME NEW b \in Bookings, mark_collected(b)
      PROVE  TypeInv'
    BY <1>7 DEF mark_collected, Move, TypeOK, RowsFilled, BookingStatus, Stamp,
        rowVars, holdVars, storageVars, custodyVars, cellVars
<1>8. ASSUME run_escalation
      PROVE  TypeInv'
    <2>1. \A b \in Bookings : NextStage(b) \in BookingStatus \cup {NULL}
        BY DEF NextStage, TypeOK, BookingStatus
    <2>2. \A b \in Bookings : status[b] = NULL => NextStage(b) = NULL
        <3>1. NULL \notin WATCHED
            BY DEF WATCHED, BookingStatus
        <3> QED BY <3>1 DEF NextStage, Watched
    <2>3. status' \in [Bookings -> BookingStatus \cup {NULL}]
        BY <1>8, <2>1 DEF run_escalation
    <2>4. stamps' \in [Bookings -> SUBSET Stamp]
        BY <1>8 DEF run_escalation, TypeOK, Stamp
    <2>5. removeAfter' \in [Bookings -> Nat \cup {NULL}]
        BY <1>8 DEF run_escalation, TypeOK
    <2>6. RowsFilled'
        BY <1>8, <2>2 DEF run_escalation, RowsFilled, rowVars
    <2> QED
        BY <1>8, <2>3, <2>4, <2>5, <2>6 DEF run_escalation, TypeOK,
            rowVars, holdVars, custodyVars, cellVars
<1>9. ASSUME NEW b \in Bookings, file_removal(b)
      PROVE  TypeInv'
    BY <1>9 DEF file_removal, Move, TypeOK, RowsFilled, BookingStatus, CustodyStatus,
        rowVars, holdVars, storageVars, cellVars
<1>10. ASSUME NEW b \in Bookings, NEW outcome \in CustodyStatus,
              hand_over(b) \/ dispose(b, outcome)
       PROVE  TypeInv'
    <2>1. Move(b, "closed") /\ UNCHANGED <<now, rowVars, holdVars, stamps, storageVars,
                                           disposalDue, cellVars, hours>>
        BY <1>10 DEF hand_over, dispose
    <2>2. custody' \in [Bookings -> CustodyStatus \cup {NULL}]
        BY <1>10 DEF hand_over, dispose, TypeOK, CustodyStatus
    <2> QED
        BY <2>1, <2>2 DEF Move, TypeOK, RowsFilled, BookingStatus,
            rowVars, holdVars, storageVars, cellVars
<1>11. ASSUME AdminStep
       PROVE  TypeInv'
    <2>1. UNCHANGED <<now, bookingVars>>
        BY <1>11 DEF AdminStep, block_cell, unblock_cell, StartMaintenance,
            EndMaintenance, MoveCell, set_schedule
    <2>2. /\ cellSite' \in [Cells -> Postamats]
          /\ blocked' \subseteq Cells
          /\ maintenance' \subseteq Cells
          /\ hours' \in [Postamats -> Hours]
        <3>1. CASE \E c \in Serviced : block_cell(c) \/ unblock_cell(c)
            BY <3>1 DEF block_cell, unblock_cell, TypeOK
        <3>2. CASE \E c \in Serviced : StartMaintenance(c) \/ EndMaintenance(c)
            BY <3>2 DEF StartMaintenance, EndMaintenance, TypeOK
        <3>3. CASE \E c \in Serviced, p \in Postamats : MoveCell(c, p)
            BY <3>3 DEF MoveCell, TypeOK
        <3>4. CASE \E p \in Postamats, h \in Hours : set_schedule(p, h)
            BY <3>4 DEF set_schedule, TypeOK, cellVars
        <3> QED BY <1>11, <3>1, <3>2, <3>3, <3>4 DEF AdminStep
    <2> QED
        BY <2>1, <2>2 DEF TypeOK, RowsFilled, bookingVars, rowVars, holdVars,
            storageVars, custodyVars
<1>12. ASSUME Tick
       PROVE  TypeInv'
    <2>1. now' \in Nat /\ UNCHANGED <<bookingVars, cellVars, hours>>
        BY <1>12 DEF Tick, TypeOK
    <2> QED
        BY <2>1 DEF TypeOK, RowsFilled, bookingVars, rowVars, holdVars, storageVars,
            custodyVars, cellVars
<1>13. ASSUME UNCHANGED vars
       PROVE  TypeInv'
    BY <1>13 DEF vars, TypeOK, RowsFilled, bookingVars,
        rowVars, holdVars, storageVars, custodyVars, cellVars
<1> QED
    BY <1>1, <1>2, <1>3, <1>4, <1>5, <1>6, <1>7, <1>8, <1>9, <1>10, <1>11, <1>12, <1>13
       DEF Next, BookingStep, OwnStep, CustodyStep, Workers, ClientCancel, AdminCancel, CustodyStatus

(* Every column keeps its type, the storage deadlines pushed to openings   *)
(* included.                                                               *)
THEOREM TypeCorrect == Spec => []TypeOK
<1>1. TypeInv => TypeOK
    BY DEF TypeInv
<1> QED BY TypeInit, TypeStep, <1>1, PTL DEF Spec
-----------------------------------------------------------------------------
(* What one step may do to one booking, whoever takes the step.  Every     *)
(* invariant below is about these effects, not about the actions.          *)

(* The columns an effect leaves alone unless it says otherwise.            *)
SameStamps(b)  == stamps'[b] \ {"reminded_at"} = stamps[b] \ {"reminded_at"}
SameStorage(b) == expires'[b] = expires[b] /\ removeAfter'[b] = removeAfter[b]
SameCustody(b) == custody'[b] = custody[b] /\ disposalDue'[b] = disposalDue[b]

Idle(b) ==
    /\ status'[b] = status[b] /\ cell'[b] = cell[b]
    /\ SameStamps(b) /\ SameStorage(b) /\ SameCustody(b)

Created(b) ==
    /\ status[b] = NULL /\ status'[b] = "pending_payment"
    /\ cell'[b] \in Cells \ maintenance /\ IndexAdmits(cell'[b])
    /\ SameStamps(b) /\ SameStorage(b) /\ SameCustody(b)

Paid(b) ==
    /\ status[b] = "pending_payment" /\ status'[b] = "awaiting_deposit"
    /\ cell'[b] = cell[b] /\ stamps'[b] = stamps[b] \cup {"paid_at"}
    /\ SameStorage(b) /\ SameCustody(b)

GivenUp(b) ==
    /\ status[b] \in {"pending_payment", "awaiting_deposit"}
    /\ status'[b] \in {"cancelled", "payment_failed"}
    /\ cell'[b] = cell[b] /\ SameStamps(b) /\ SameStorage(b) /\ SameCustody(b)

Stored(b) ==
    /\ status[b] = "awaiting_deposit" /\ status'[b] = "awaiting_pickup"
    /\ cell'[b] = cell[b] /\ stamps'[b] = stamps[b] \cup {"deposited_at"}
    /\ expires'[b] \in Nat /\ removeAfter'[b] = removeAfter[b] /\ SameCustody(b)

Collected(b) ==
    /\ status[b] \in {"awaiting_pickup", "expired", "grace", "overdue", "to_remove"}
    /\ status'[b] = "completed"
    /\ cell'[b] = cell[b] /\ stamps'[b] = stamps[b] \cup {"collected_at"}
    /\ SameStorage(b) /\ SameCustody(b)

Escalated(b) ==
    /\ \/ /\ <<status[b], status'[b]>> \in
                {<<"awaiting_pickup", "expired">>, <<"expired", "grace">>}
          /\ removeAfter'[b] = removeAfter[b]
       \/ /\ status[b] = "grace" /\ status'[b] = "overdue"
          /\ now >= overdue_at(hours[site[b]], expires[b])
          /\ removeAfter'[b] = now + RemovalAfter
       \/ /\ status[b] = "overdue" /\ status'[b] = "to_remove"
          /\ removeAfter[b] # NULL /\ now >= removeAfter[b]
          /\ removeAfter'[b] = removeAfter[b]
    /\ cell'[b] = cell[b] /\ SameStamps(b) /\ expires'[b] = expires[b] /\ SameCustody(b)

Removed(b) ==
    /\ status[b] = "to_remove" /\ status'[b] = "removed"
    /\ custody[b] = NULL /\ custody'[b] = "at_counter"
    /\ disposalDue'[b] = now + DisposalWait
    /\ cell'[b] = cell[b] /\ SameStamps(b) /\ SameStorage(b)

Closed(b) ==
    /\ status[b] = "removed" /\ status'[b] = "closed"
    /\ custody[b] = "at_counter" /\ custody'[b] \in CustodyStatus \ {"at_counter"}
    /\ custody'[b] # "handed_over" => DisposalAllowed(b)
    /\ disposalDue'[b] = disposalDue[b]
    /\ cell'[b] = cell[b] /\ SameStamps(b) /\ SameStorage(b)

Effect(b) ==
    \/ Idle(b) \/ Created(b) \/ Paid(b) \/ GivenUp(b) \/ Stored(b) \/ Collected(b)
    \/ Escalated(b) \/ Removed(b) \/ Closed(b)

(* How the effects of one step combine: quiet ones may hit several         *)
(* bookings at once (the overdue worker), and so may the end of unpaid     *)
(* holds (the hold worker); of the others there is one in a step.          *)
Quiet(b) == Idle(b) \/ Paid(b) \/ Escalated(b) \/ Closed(b)

Only(x) == \A b \in Bookings \ {x} : Idle(b)

Shape ==
    \/ \A b \in Bookings : Quiet(b)
    \/ \E x \in Bookings : Created(x) /\ Only(x)
    \/ \E x \in Bookings : Stored(x) /\ Only(x)
    \/ \E x \in Bookings : (Collected(x) \/ Removed(x)) /\ Only(x)
    \/ \E S \in SUBSET Bookings : /\ S # {} /\ \A b \in S : GivenUp(b)
                                 /\ \A b \in Bookings \ S : Idle(b)

(* A booking none of whose columns change is idle.                         *)
LEMMA Untouched ==
    ASSUME NEW b, UNCHANGED <<status, rowVars, stamps, storageVars, custodyVars>>
    PROVE  Idle(b)
BY DEF Idle, SameStamps, SameStorage, SameCustody, rowVars, storageVars, custodyVars

(* Every step of the system has one of these shapes.                       *)
LEMMA Shapes ==
    ASSUME TypeInv, [Next]_vars
    PROVE  Shape
<1> USE BookingAssumption DEF TypeInv
<1>1. ASSUME NEW x \in Bookings, NEW p \in Postamats, NEW d \in Durations,
             create_booking(x, p, d)
      PROVE  Shape
    <2>1. ASSUME NEW b \in Bookings \ {x} PROVE Idle(b)
        BY <1>1, <2>1 DEF create_booking, TypeOK, Idle, SameStamps, SameStorage,
            SameCustody, storageVars, custodyVars
    <2>2. Created(x)
        BY <1>1 DEF create_booking, free_cell_ids, TypeOK, Created, SameStamps, SameStorage,
            SameCustody, storageVars, custodyVars
    <2> QED BY <2>1, <2>2 DEF Shape, Only
<1>2. ASSUME NEW x \in Bookings, extend_hold(x)
      PROVE  Shape
    BY <1>2, Untouched DEF extend_hold, Shape, Quiet
<1>3. ASSUME NEW x \in Bookings, mark_paid(x)
      PROVE  Shape
    <2>1. ASSUME NEW b \in Bookings \ {x} PROVE Idle(b)
        BY <1>3, <2>1 DEF mark_paid, Move, TypeOK, Idle, SameStamps, SameStorage,
            SameCustody, rowVars, storageVars, custodyVars
    <2>2. Paid(x)
        BY <1>3 DEF mark_paid, Move, TypeOK, Paid, SameStorage,
            SameCustody, rowVars, storageVars, custodyVars
    <2> QED BY <2>1, <2>2 DEF Shape, Quiet
<1>4. ASSUME NEW x \in Bookings, payment_failed(x) \/ cancel(x)
      PROVE  Shape
    <2>1. ASSUME NEW b \in Bookings \ {x} PROVE Idle(b)
        BY <1>4, <2>1 DEF payment_failed, cancel, Move, TypeOK, Idle, SameStamps,
            SameStorage, SameCustody, rowVars, storageVars, custodyVars
    <2>2. PICK target \in {"cancelled", "payment_failed"} : Move(x, target)
        BY <1>4 DEF payment_failed, cancel
    <2>3. status[x] \in {"pending_payment", "awaiting_deposit"}
        BY <2>2, Transitions DEF Move, TypeOK
    <2>4. GivenUp(x)
        BY <1>4, <2>2, <2>3 DEF payment_failed, cancel, Move, TypeOK, GivenUp, SameStamps,
            SameStorage, SameCustody, rowVars, storageVars, custodyVars
    <2>5. \E S \in SUBSET Bookings : /\ S # {} /\ \A b \in S : GivenUp(b)
                                     /\ \A b \in Bookings \ S : Idle(b)
        <3> WITNESS {x} \in SUBSET Bookings
        <3> QED BY <2>1, <2>4
    <2> QED BY <2>5 DEF Shape
<1>5. ASSUME release_expired_holds
      PROVE  Shape
    <2>1. ASSUME NEW b \in Stale PROVE GivenUp(b)
        BY <1>5, <2>1 DEF release_expired_holds, Stale, TypeOK, GivenUp, SameStamps,
            SameStorage, SameCustody, rowVars, storageVars, custodyVars
    <2>2. ASSUME NEW b \in Bookings \ Stale PROVE Idle(b)
        BY <1>5, <2>2 DEF release_expired_holds, Stale, TypeOK, Idle, SameStamps,
            SameStorage, SameCustody, rowVars, storageVars, custodyVars
    <2>3. Stale # {} /\ Stale \in SUBSET Bookings
        BY <1>5 DEF release_expired_holds, Stale
    <2> QED BY <2>1, <2>2, <2>3 DEF Shape
<1>6. ASSUME NEW x \in Bookings, mark_deposited(x)
      PROVE  Shape
    <2>1. ASSUME NEW b \in Bookings \ {x} PROVE Idle(b)
        BY <1>6, <2>1 DEF mark_deposited, Move, TypeOK, Idle, SameStamps, SameStorage,
            SameCustody, rowVars, custodyVars
    <2>2. status[x] = "awaiting_deposit"
        BY <1>6, Transitions DEF mark_deposited, Move, TypeOK
    <2>3. Stored(x)
        BY <1>6, <2>2, ExpiryType DEF mark_deposited, Move, TypeOK, Stored,
            SameCustody, rowVars, custodyVars
    <2> QED BY <2>1, <2>3 DEF Shape, Only
<1>7. ASSUME NEW x \in Bookings, mark_collected(x)
      PROVE  Shape
    <2>1. ASSUME NEW b \in Bookings \ {x} PROVE Idle(b)
        BY <1>7, <2>1 DEF mark_collected, Move, TypeOK, Idle, SameStamps, SameStorage,
            SameCustody, rowVars, storageVars, custodyVars
    <2>2. status[x] \in {"awaiting_pickup", "expired", "grace", "overdue", "to_remove"}
        BY <1>7, Transitions DEF mark_collected, Move, TypeOK
    <2>3. Collected(x)
        BY <1>7, <2>2 DEF mark_collected, Move, TypeOK, Collected, SameStorage,
            SameCustody, rowVars, storageVars, custodyVars
    <2> QED BY <2>1, <2>3 DEF Shape, Only
<1>8. ASSUME run_escalation, NEW b \in Bookings
      PROVE  Quiet(b)
    <2>1. /\ status'[b] = NextStage(b)
          /\ removeAfter'[b] = IF NextStage(b) = "overdue" /\ status[b] # "overdue"
                               THEN now + RemovalAfter ELSE removeAfter[b]
          /\ cell'[b] = cell[b] /\ SameStamps(b)
          /\ expires'[b] = expires[b] /\ SameCustody(b)
        BY <1>8 DEF run_escalation, SameStamps, SameCustody, rowVars, custodyVars
    <2>2. CASE NextStage(b) = status[b]
        BY <2>1, <2>2 DEF Quiet, Idle, SameStorage
    <2>3. CASE NextStage(b) # status[b]
        <3>1. \/ ExpiryDue(b) /\ NextStage(b) = "expired"
              \/ GraceDue(b) /\ NextStage(b) = "grace"
              \/ OverdueDue(b) /\ NextStage(b) = "overdue"
              \/ RemovalDue(b) /\ NextStage(b) = "to_remove"
            BY <2>3 DEF NextStage
        <3>2. Escalated(b)
            BY <2>1, <3>1 DEF Escalated, ExpiryDue, GraceDue, OverdueDue, RemovalDue
        <3> QED BY <3>2 DEF Quiet
    <2> QED BY <2>2, <2>3
<1>9. ASSUME NEW x \in Bookings, file_removal(x)
      PROVE  Shape
    <2>1. ASSUME NEW b \in Bookings \ {x} PROVE Idle(b)
        BY <1>9, <2>1 DEF file_removal, Move, TypeOK, Idle, SameStamps, SameStorage,
            SameCustody, rowVars, storageVars
    <2>2. Removed(x)
        BY <1>9 DEF file_removal, REMOVABLE, Move, TypeOK, Removed, SameStamps,
            SameStorage, rowVars, storageVars
    <2> QED BY <2>1, <2>2 DEF Shape, Only
<1>10. ASSUME NEW x \in Bookings, NEW outcome \in {"returned_to_sender", "disposed"},
              hand_over(x) \/ dispose(x, outcome)
       PROVE  Shape
    <2>1. ASSUME NEW b \in Bookings \ {x} PROVE Idle(b)
        BY <1>10, <2>1 DEF hand_over, dispose, Move, TypeOK, Idle, SameStamps, SameStorage,
            SameCustody, rowVars, storageVars
    <2>2. status[x] = "removed"
        BY <1>10, Transitions DEF hand_over, dispose, Move, TypeOK
    <2>3. Closed(x)
        BY <1>10, <2>2 DEF hand_over, dispose, Move, TypeOK, CustodyStatus, Closed,
            SameStamps, SameStorage, rowVars, storageVars
    <2> QED BY <2>1, <2>3 DEF Shape, Quiet
<1>11. ASSUME AdminStep \/ Tick \/ UNCHANGED vars
       PROVE  Shape
    <2>1. UNCHANGED bookingVars
        BY <1>11 DEF AdminStep, block_cell, unblock_cell, StartMaintenance, EndMaintenance,
            MoveCell, set_schedule, Tick, vars
    <2> QED BY <2>1, Untouched DEF bookingVars, Shape, Quiet
<1> QED
    BY <1>1, <1>2, <1>3, <1>4, <1>5, <1>6, <1>7, <1>8, <1>9, <1>10, <1>11
       DEF Shape, Next, BookingStep, OwnStep, CustodyStep, Workers, ClientCancel, AdminCancel

LEMMA Effects ==
    ASSUME TypeInv, [Next]_vars
    PROVE  \A b \in Bookings : Effect(b)
BY Shapes DEF Shape, Quiet, Only, Effect
-----------------------------------------------------------------------------
(* One cell, one booking.  The index is what makes this inductive: the     *)
(* list of held cells is looked up by postamat, and a cell that was moved  *)
(* to another postamat is missing from it.                                 *)
LEMMA HeldCellsStay ==
    ASSUME TypeInv, NEW b \in Bookings, Effect(b), Held(b)'
    PROVE  \/ Held(b) /\ cell'[b] = cell[b]
           \/ /\ Created(b)
              /\ \A other \in Bookings : Held(other) => cell[other] # cell'[b]
BY DEF Effect, Idle, Created, Paid, GivenUp, Stored, Collected, Escalated, Removed,
    Closed, Held, CELL_HELD_STATUSES, IndexAdmits

(* At most one booking is created in a step.                               *)
LEMMA OneCreated ==
    ASSUME TypeInv, [Next]_vars, NEW b1 \in Bookings, NEW b2 \in Bookings,
           Created(b1), Created(b2)
    PROVE  b1 = b2
<1>1. \A b \in Bookings : Created(b) =>
          ~ (Idle(b) \/ Paid(b) \/ GivenUp(b) \/ Stored(b) \/ Collected(b) \/ Escalated(b)
             \/ Removed(b) \/ Closed(b))
    BY BookingAssumption DEF BookingStatus, Created, Idle, Paid, GivenUp, Stored, Collected,
        Escalated, Removed, Closed
<1> QED BY <1>1, Shapes DEF Shape, Quiet, Only

LEMMA ExclusiveStep ==
    ASSUME TypeInv, CellExclusive, [Next]_vars
    PROVE  CellExclusive'
<1> SUFFICES ASSUME NEW b1 \in Bookings, NEW b2 \in Bookings,
                    Held(b1)', Held(b2)', cell'[b1] = cell'[b2]
             PROVE  b1 = b2
    BY DEF CellExclusive
<1>1. \/ Held(b1) /\ cell'[b1] = cell[b1]
      \/ Created(b1) /\ \A other \in Bookings : Held(other) => cell[other] # cell'[b1]
    BY Effects, HeldCellsStay
<1>2. \/ Held(b2) /\ cell'[b2] = cell[b2]
      \/ Created(b2) /\ \A other \in Bookings : Held(other) => cell[other] # cell'[b2]
    BY Effects, HeldCellsStay
<1> QED BY <1>1, <1>2, OneCreated DEF CellExclusive

(* No cell is ever held by two bookings (create_booking, the partial       *)
(* unique index and update_cell together).                                 *)
THEOREM CellsExclusive == Spec => []CellExclusive
<1>1. Init => CellExclusive
    BY BookingAssumption DEF Init, CellExclusive, Held, CELL_HELD_STATUSES, BookingStatus
<1>2. TypeInv /\ CellExclusive /\ [Next]_vars => TypeInv' /\ CellExclusive'
    BY TypeStep, ExclusiveStep
<1> QED BY TypeInit, <1>1, <1>2, PTL DEF Spec
-----------------------------------------------------------------------------
(* Planned work.  A held booking is never finished, so StartMaintenance    *)
(* sees it; allocation skips cells under maintenance.                      *)
LEMMA MaintenanceStep ==
    ASSUME TypeInv, MaintenanceIsEmpty, [Next]_vars
    PROVE  MaintenanceIsEmpty'
<1> USE DEF TypeInv
<1> SUFFICES ASSUME NEW b \in Bookings, Held(b)' PROVE cell'[b] \notin maintenance'
    BY DEF MaintenanceIsEmpty
<1>1. \/ Held(b) /\ cell'[b] = cell[b]
      \/ Created(b)
    BY Effects, HeldCellsStay
<1>2. cell'[b] \notin maintenance
    BY <1>1 DEF MaintenanceIsEmpty, Created
<1>3. CASE \E c \in Serviced : StartMaintenance(c)
    <2>1. PICK c \in Serviced : StartMaintenance(c)
        BY <1>3
    <2>2. UNCHANGED <<status, cell>>
        BY <2>1 DEF StartMaintenance, bookingVars, rowVars
    <2>3. Held(b) /\ status[b] # NULL /\ status[b] \notin FINISHED_STATUSES
        BY <2>2, BookingAssumption
           DEF Held, CELL_HELD_STATUSES, FINISHED_STATUSES, BookingStatus
    <2>4. cell[b] # c
        BY <2>1, <2>3 DEF StartMaintenance, LiveBooking
    <2> QED BY <2>1, <2>2, <2>4, <1>2 DEF StartMaintenance
<1>4. CASE ~ \E c \in Serviced : StartMaintenance(c)
    <2>1. maintenance' \subseteq maintenance
        BY <1>4 DEF Next, BookingStep, OwnStep, CustodyStep, Workers, AdminStep, create_booking, extend_hold,
            mark_paid, payment_failed, ClientCancel, AdminCancel, cancel, mark_deposited,
            mark_collected, file_removal, hand_over, dispose, release_expired_holds,
            run_escalation, block_cell, unblock_cell, EndMaintenance, MoveCell,
            set_schedule, Tick, vars, cellVars
    <2> QED BY <2>1, <1>2
<1> QED BY <1>3, <1>4

(* Nobody books, or keeps, a cell that staff are working on                *)
(* (set_maintenance against create_booking).                               *)
THEOREM MaintainedCellsEmpty == Spec => []MaintenanceIsEmpty
<1>1. Init => MaintenanceIsEmpty
    BY DEF Init, MaintenanceIsEmpty
<1>2. TypeInv /\ MaintenanceIsEmpty /\ [Next]_vars => TypeInv' /\ MaintenanceIsEmpty'
    BY TypeStep, MaintenanceStep
<1> QED BY TypeInit, <1>1, <1>2, PTL DEF Spec
-----------------------------------------------------------------------------
(* The story of a parcel: what the stamps, the stage and the custody act   *)
(* say of one booking agree.  The conjuncts need each other: a deposited   *)
(* parcel whose booking is neither collected nor at the counter must be in *)
(* a stage that only the recipient or an act can end.                      *)
Story(b) ==
    /\ ParcelInside(b) =>
          status[b] \in {"awaiting_pickup", "expired", "grace", "overdue", "to_remove"}
    /\ custody[b] = "at_counter" <=> status[b] = "removed"
    /\ custody[b] \in CustodyStatus \ {"at_counter"} <=> status[b] = "closed"
    /\ Deposited(b) => "paid_at" \in stamps[b] /\ expires[b] # NULL
    /\ status[b] = "awaiting_deposit" => "paid_at" \in stamps[b]
    /\ status[b] \in {"awaiting_pickup", "expired", "grace", "overdue", "to_remove",
                      "removed", "closed", "completed"} => Deposited(b)
    /\ "collected_at" \in stamps[b] <=> status[b] = "completed"

StoryInv == \A b \in Bookings : Story(b)

LEMMA StoryInit == Init => StoryInv
BY BookingAssumption DEF Init, StoryInv, Story, ParcelInside, Deposited, BookingStatus,
    CustodyStatus

LEMMA StampsKept ==
    ASSUME NEW b, SameStamps(b), NEW s \in Stamp \ {"reminded_at"}
    PROVE  s \in stamps'[b] <=> s \in stamps[b]
BY DEF SameStamps

LEMMA StoryStep ==
    ASSUME TypeInv, StoryInv, [Next]_vars
    PROVE  StoryInv'
<1> SUFFICES ASSUME NEW b \in Bookings PROVE Story(b)'
    BY DEF StoryInv
<1>1. Effect(b) /\ Story(b)
    BY Effects DEF StoryInv
<1>2. status[b] \in BookingStatus \cup {NULL} /\ custody[b] \in CustodyStatus \cup {NULL}
    BY DEF TypeInv, TypeOK
<1>3. NULL \notin BookingStatus \cup CustodyStatus \cup Nat
    BY BookingAssumption, ScheduleAssumption
<1> USE DEF Story, ParcelInside, Deposited, BookingStatus, CustodyStatus, Stamp,
        SameStorage, SameCustody
<1>4. CASE Idle(b)
    BY <1>1, <1>4, StampsKept DEF Idle
<1>5. CASE Created(b)
    BY <1>1, <1>3, <1>5, StampsKept DEF Created
<1>6. CASE Paid(b)
    BY <1>1, <1>6 DEF Paid
<1>7. CASE GivenUp(b)
    BY <1>1, <1>2, <1>3, <1>7, StampsKept DEF GivenUp
<1>8. CASE Stored(b)
    BY <1>1, <1>2, <1>3, <1>8 DEF Stored
<1>9. CASE Collected(b)
    BY <1>1, <1>2, <1>3, <1>9 DEF Collected
<1>10. CASE Escalated(b)
    BY <1>1, <1>2, <1>3, <1>10, StampsKept DEF Escalated
<1>11. CASE Removed(b)
    BY <1>1, <1>3, <1>11, StampsKept DEF Removed
<1>12. CASE Closed(b)
    BY <1>1, <1>3, <1>12, StampsKept DEF Closed
<1> QED
    BY <1>1, <1>4, <1>5, <1>6, <1>7, <1>8, <1>9, <1>10, <1>11, <1>12 DEF Effect

LEMMA StoryHolds == Spec => [](TypeInv /\ StoryInv)
<1>1. TypeInv /\ StoryInv /\ [Next]_vars => TypeInv' /\ StoryInv'
    BY TypeStep, StoryStep
<1> QED BY TypeInit, StoryInit, <1>1, PTL DEF Spec

(* No parcel is ever behind a door that its booking has given up.          *)
THEOREM ParcelsTraceable == Spec => []ParcelTraceable
<1>1. StoryInv => ParcelTraceable
    BY DEF StoryInv, Story, ParcelTraceable
<1> QED BY StoryHolds, <1>1, PTL

(* The act of removal and the booking never tell different stories.        *)
THEOREM CustodyAgrees == Spec => []CustodyMatchesBooking
<1>1. StoryInv => CustodyMatchesBooking
    BY DEF StoryInv, Story, CustodyMatchesBooking
<1> QED BY StoryHolds, <1>1, PTL

(* Payment before deposit before collection, whatever is retried.          *)
THEOREM StepsOrdered == Spec => []StepsInOrder
<1>1. StoryInv => StepsInOrder
    BY DEF StoryInv, Story, StepsInOrder
<1> QED BY StoryHolds, <1>1, PTL
-----------------------------------------------------------------------------
(* The waits.  removeAfter and disposalDue are stamped once and remember   *)
(* that everything before them has been waited for, so that a schedule     *)
(* changed later cannot shorten the wait.                                  *)
Waited(b) ==
    /\ status[b] = "overdue" /\ removeAfter[b] # NULL =>
          removeAfter[b] >= expires[b] + 2 * GraceLength + RemovalAfter
    /\ status[b] \in {"to_remove", "removed", "closed"} =>
          now >= expires[b] + 2 * GraceLength + RemovalAfter
    /\ status[b] = "removed" =>
          /\ disposalDue[b] # NULL
          /\ disposalDue[b] >= expires[b] + 2 * GraceLength + RemovalAfter + DisposalWait
    /\ custody[b] \in {"returned_to_sender", "disposed"} =>
          now >= expires[b] + 2 * GraceLength + RemovalAfter + DisposalWait

WaitInv == \A b \in Bookings : Waited(b)

LEMMA WaitStep ==
    ASSUME TypeInv, StoryInv, WaitInv, [Next]_vars
    PROVE  WaitInv'
<1> SUFFICES ASSUME NEW b \in Bookings PROVE Waited(b)'
    BY DEF WaitInv
<1>1. Effect(b) /\ Waited(b) /\ Story(b)
    BY Effects DEF StoryInv, WaitInv
<1>2. /\ status[b] \in BookingStatus \cup {NULL}
      /\ custody[b] \in CustodyStatus \cup {NULL}
      /\ removeAfter[b] \in Nat \cup {NULL}
      /\ disposalDue[b] \in Nat \cup {NULL}
    BY DEF TypeInv, TypeOK
<1>3. NULL \notin BookingStatus \cup CustodyStatus \cup Nat
    BY BookingAssumption, ScheduleAssumption
<1>4. GraceLength \in Nat /\ RemovalAfter \in Nat /\ DisposalWait \in Nat
    BY BookingAssumption, ScheduleAssumption
<1>5. now \in Nat /\ now' \in Nat /\ now' >= now
    <2>1. now' = now \/ now' = now + 1
        BY DEF Next, BookingStep, OwnStep, CustodyStep, Workers, AdminStep, create_booking, extend_hold,
            mark_paid, payment_failed, ClientCancel, AdminCancel, cancel, mark_deposited,
            mark_collected, file_removal, hand_over, dispose, release_expired_holds,
            run_escalation, block_cell, unblock_cell, StartMaintenance, EndMaintenance,
            MoveCell, set_schedule, Tick, vars
    <2> QED BY <2>1 DEF TypeInv, TypeOK
<1>6. status[b] \in {"awaiting_pickup", "expired", "grace", "overdue", "to_remove",
                      "removed", "closed"} => expires[b] \in Nat
    BY <1>1 DEF Story, TypeInv, TypeOK
<1> USE DEF Waited, SameStorage, SameCustody, BookingStatus, CustodyStatus
<1>7. CASE Idle(b)
    BY <1>1, <1>2, <1>4, <1>5, <1>6, <1>7 DEF Idle, Story
<1>8. CASE Created(b) \/ Paid(b) \/ GivenUp(b) \/ Stored(b) \/ Collected(b)
    BY <1>1, <1>2, <1>3, <1>8 DEF Created, Paid, GivenUp, Stored, Collected, Story
<1>9. CASE Escalated(b)
    <2>1. CASE status[b] \in {"awaiting_pickup", "expired"}
        BY <1>1, <1>2, <1>3, <1>9, <2>1 DEF Escalated, Story
    <2>2. CASE status[b] = "grace"
        <3>1. hours[site[b]] \in PostamatHours
            BY <2>2, <1>3, BookingAssumption DEF TypeInv, TypeOK, RowsFilled
        <3>2. overdue_at(hours[site[b]], expires[b]) >= expires[b] + 2 * GraceLength
            BY <2>2, <3>1, <1>4, <1>6, ReachableNotBefore DEF overdue_at
        <3>3. overdue_at(hours[site[b]], expires[b]) \in Nat
            BY <2>2, <3>1, <1>4, <1>6, ReachableNotBefore DEF overdue_at
        <3> QED BY <1>1, <1>3, <1>4, <1>5, <1>6, <1>9, <2>2, <3>2, <3>3 DEF Escalated, Story
    <2>3. CASE status[b] = "overdue"
        BY <1>1, <1>2, <1>3, <1>4, <1>5, <1>6, <1>9, <2>3 DEF Escalated, Story
    <2> QED BY <1>9, <2>1, <2>2, <2>3 DEF Escalated
<1>10. CASE Removed(b)
    BY <1>1, <1>3, <1>4, <1>5, <1>6, <1>10 DEF Removed
<1>11. CASE Closed(b)
    BY <1>1, <1>2, <1>3, <1>4, <1>5, <1>6, <1>11 DEF Closed, DisposalAllowed
<1> QED BY <1>1, <1>7, <1>8, <1>9, <1>10, <1>11 DEF Effect

(* Nobody's parcel is taken out or disposed of early, whatever schedules   *)
(* the operator sets meanwhile (run_escalation, to_overdue, dispose).      *)
THEOREM FullWaits == Spec => []FullWait
<1>1. Init => WaitInv
    BY BookingAssumption DEF Init, WaitInv, Waited, BookingStatus, CustodyStatus
<1>2. TypeInv /\ StoryInv /\ WaitInv /\ [Next]_vars => WaitInv'
    BY WaitStep
<1>3. WaitInv => FullWait
    BY DEF WaitInv, Waited, FullWait
<1> QED BY StoryHolds, <1>1, <1>2, <1>3, PTL DEF Spec
-----------------------------------------------------------------------------
(* Booking implements CellLease: every step of the booking system is one   *)
(* lease, one parcel put in or taken out, some leases given up, or nothing *)
(* at all for the doors.                                                   *)
DoorsInv == TypeInv /\ StoryInv /\ CellExclusive

LEMMA DoorsInvStep == DoorsInv /\ [Next]_vars => DoorsInv'
BY TypeStep, StoryStep, ExclusiveStep DEF DoorsInv

(* The bookings that hold a cell, and those with a parcel inside.          *)
Holding == {b \in Bookings : Held(b)}

Parcels == {b \in Bookings : ParcelInside(b)}

(* What DoorsInv says of the doors: a booking that holds a cell holds it alone *)
(* and a parcel inside is behind a door that its booking holds.            *)
LEMMA AtDoors ==
    ASSUME DoorsInv
    PROVE  /\ \A b \in Holding : b \in Bookings /\ cell[b] \in Cells
           /\ \A b1, b2 \in Holding : cell[b1] = cell[b2] => b1 = b2
           /\ Parcels \subseteq Holding
<1>1. \A b \in Holding : b \in Bookings /\ cell[b] \in Cells
    BY BookingAssumption
       DEF DoorsInv, TypeInv, RowsFilled, Holding, Held, CELL_HELD_STATUSES, BookingStatus
<1>2. \A b1, b2 \in Holding : cell[b1] = cell[b2] => b1 = b2
    BY DEF DoorsInv, CellExclusive, Holding
<1>3. Parcels \subseteq Holding
    BY DEF DoorsInv, StoryInv, Story, Parcels, Holding, Held, CELL_HELD_STATUSES
<1> QED BY <1>1, <1>2, <1>3

LEMMA AtDoorsNext ==
    ASSUME DoorsInv'
    PROVE  /\ \A b \in Holding' : b \in Bookings /\ cell'[b] \in Cells
           /\ \A b1, b2 \in Holding' : cell'[b1] = cell'[b2] => b1 = b2
           /\ Parcels' \subseteq Holding'
<1>1. \A b \in Holding' : b \in Bookings /\ cell'[b] \in Cells
    BY BookingAssumption
       DEF DoorsInv, TypeInv, RowsFilled, Holding, Held, CELL_HELD_STATUSES, BookingStatus
<1>2. \A b1, b2 \in Holding' : cell'[b1] = cell'[b2] => b1 = b2
    BY DEF DoorsInv, CellExclusive, Holding
<1>3. Parcels' \subseteq Holding'
    BY DEF DoorsInv, StoryInv, Story, Parcels, Holding, Held, CELL_HELD_STATUSES
<1> QED BY <1>1, <1>2, <1>3

(* The refinement mapping: a held cell shows its booking, any other cell   *)
(* shows nobody, before and after a step.                                  *)
LEMMA HoldersAre ==
    ASSUME DoorsInv
    PROVE  /\ Holders = [c \in Cells |-> Holders[c]]
           /\ \A b \in Holding : Holders[cell[b]] = b
           /\ \A c \in Cells : Holders[c] # NULL => \E b \in Holding : cell[b] = c
BY AtDoors DEF Holders, Holder, Holding

LEMMA HoldersAreNext ==
    ASSUME DoorsInv'
    PROVE  /\ Holders' = [c \in Cells |-> Holders'[c]]
           /\ \A b \in Holding' : Holders'[cell'[b]] = b
           /\ \A c \in Cells : Holders'[c] # NULL => \E b \in Holding' : cell'[b] = c
BY AtDoorsNext DEF Holders, Holder, Holding

LEMMA FullCellsAre ==
    /\ FullCells = {c \in Cells : \E b \in Parcels : cell[b] = c}
    /\ FullCells' = {c \in Cells : \E b \in Parcels' : cell'[b] = c}
BY DEF FullCells, Parcels

(* Where nobody takes a cell, the map changes only by the leases that end. *)
LEMMA HoldersAfterEnd ==
    ASSUME DoorsInv, DoorsInv', NEW S \in SUBSET Holding, Holding' = Holding \ S,
           \A b \in Holding' : cell'[b] = cell[b]
    PROVE  Holders' = [c \in Cells |-> IF \E b \in S : cell[b] = c THEN NULL ELSE Holders[c]]
<1> SUFFICES ASSUME NEW c \in Cells
             PROVE  Holders'[c] = IF \E b \in S : cell[b] = c THEN NULL ELSE Holders[c]
    BY HoldersAreNext, Zenon
<1>1. CASE Holders'[c] # NULL
    <2>1. PICK b \in Holding' : cell'[b] = c
        BY <1>1, HoldersAreNext
    <2>2. b \in Holding /\ cell[b] = c /\ b \notin S
        BY <2>1
    <2>3. Holders[c] = b /\ Holders'[c] = b
        BY <2>1, <2>2, HoldersAre, HoldersAreNext
    <2>4. ~ \E x \in S : cell[x] = c
        BY <2>2, AtDoors
    <2> QED BY <2>3, <2>4
<1>2. CASE Holders'[c] = NULL
    <2>1. SUFFICES ASSUME Holders[c] # NULL PROVE \E b \in S : cell[b] = c
        BY <1>2
    <2>2. PICK b \in Holding : cell[b] = c
        BY <2>1, HoldersAre
    <2>3. ASSUME b \in Holding' PROVE FALSE
        <3>1. Holders'[c] = b
            BY <2>2, <2>3, HoldersAreNext
        <3> QED BY <3>1, <1>2, <2>2, AtDoors, BookingAssumption
    <2> QED BY <2>2, <2>3
<1> QED BY <1>1, <1>2

LEMMA HoldersSame ==
    ASSUME DoorsInv, DoorsInv', Holding' = Holding, \A b \in Holding' : cell'[b] = cell[b]
    PROVE  Holders' = Holders
<1> DEFINE S == {}
<1>1. S \in SUBSET Holding /\ Holding' = Holding \ S
    OBVIOUS
<1>2. \A c : ~ \E b \in S : cell[b] = c
    OBVIOUS
<1> HIDE DEF S
<1>3. Holders' = [c \in Cells |-> IF \E b \in S : cell[b] = c THEN NULL ELSE Holders[c]]
    BY <1>1, HoldersAfterEnd
<1>4. Holders' = [c \in Cells |-> Holders[c]]
    BY <1>2, <1>3
<1> QED BY <1>4, HoldersAre

LEMMA HoldersAfterOne ==
    ASSUME DoorsInv, DoorsInv', NEW x \in Holding, cell[x] \in Cells, Holding' = Holding \ {x},
           \A b \in Holding' : cell'[b] = cell[b]
    PROVE  Holders' = [Holders EXCEPT ![cell[x]] = NULL]
<1> DEFINE S == {x}
<1>1. S \in SUBSET Holding /\ Holding' = Holding \ S
    OBVIOUS
<1>2. \A c : (\E b \in S : cell[b] = c) <=> c = cell[x]
    OBVIOUS
<1> HIDE DEF S
<1>3. Holders' = [c \in Cells |-> IF \E b \in S : cell[b] = c THEN NULL ELSE Holders[c]]
    BY <1>1, HoldersAfterEnd
<1>4. Holders' = [c \in Cells |-> IF c = cell[x] THEN NULL ELSE Holders[c]]
    BY <1>2, <1>3
<1> QED BY <1>4, HoldersAre

(* A quiet effect does not show at the doors.                              *)
LEMMA QuietAtDoors ==
    ASSUME DoorsInv, NEW b \in Bookings, Quiet(b)
    PROVE  /\ b \in Holding' <=> b \in Holding
           /\ cell'[b] = cell[b]
           /\ b \in Parcels' <=> b \in Parcels
<1> USE BookingAssumption
    DEF Holding, Held, CELL_HELD_STATUSES, Parcels, ParcelInside, Deposited, SameCustody, Stamp
<1>1. CASE Idle(b)
    BY <1>1, StampsKept DEF Idle
<1>2. CASE Paid(b)
    BY <1>2 DEF Paid
<1>3. CASE Escalated(b)
    BY <1>3, StampsKept DEF Escalated
<1>4. CASE Closed(b)
    BY <1>4 DEF Closed, CustodyStatus
<1> QED BY <1>1, <1>2, <1>3, <1>4 DEF Quiet

(* The bookings a step is not about keep their cell and their parcel.      *)
LEMMA OthersAtDoors ==
    ASSUME DoorsInv, NEW S, \A b \in Bookings \ S : Quiet(b)
    PROVE  /\ Holding \subseteq Bookings /\ Holding' \subseteq Bookings
           /\ Parcels \subseteq Bookings /\ Parcels' \subseteq Bookings
           /\ \A b \in Bookings \ S : b \in Holding' <=> b \in Holding
           /\ \A b \in Bookings \ S : b \in Parcels' <=> b \in Parcels
           /\ \A b \in Bookings \ S : cell'[b] = cell[b]
<1>1. /\ Holding \subseteq Bookings /\ Holding' \subseteq Bookings
      /\ Parcels \subseteq Bookings /\ Parcels' \subseteq Bookings
    BY DEF Holding, Parcels
<1>2. \A b \in Bookings \ S : b \in Holding' <=> b \in Holding
    BY QuietAtDoors
<1>3. \A b \in Bookings \ S : b \in Parcels' <=> b \in Parcels
    BY QuietAtDoors
<1>4. \A b \in Bookings \ S : cell'[b] = cell[b]
    BY QuietAtDoors
<1> QED BY <1>1, <1>2, <1>3, <1>4

LEMMA OthersThan ==
    ASSUME DoorsInv, NEW x \in Bookings, Only(x)
    PROVE  /\ Holding \subseteq Bookings /\ Holding' \subseteq Bookings
           /\ Parcels \subseteq Bookings /\ Parcels' \subseteq Bookings
           /\ \A b \in Bookings : b # x => (b \in Holding' <=> b \in Holding)
           /\ \A b \in Bookings : b # x => (b \in Parcels' <=> b \in Parcels)
           /\ \A b \in Bookings : b # x => cell'[b] = cell[b]
<1> DEFINE S == {x}
<1>1. \A b \in Bookings \ S : Quiet(b)
    BY DEF Only, Quiet
<1>2. \A b \in Bookings : b # x => b \in Bookings \ S
    OBVIOUS
<1> HIDE DEF S
<1> QED BY <1>1, <1>2, OthersAtDoors

(* A step that is quiet for all bookings is a stutter of the lease.        *)
LEMMA QuietStep ==
    ASSUME DoorsInv, DoorsInv', \A b \in Bookings : Quiet(b)
    PROVE  UNCHANGED <<Holders, FullCells>>
<1>1. Holding' = Holding /\ Parcels' = Parcels /\ \A b \in Bookings : cell'[b] = cell[b]
    <2>1. {} \in SUBSET Bookings /\ \A b \in Bookings \ {} : Quiet(b)
        OBVIOUS
    <2> QED BY <2>1, OthersAtDoors
<1>2. \A b \in Holding' : cell'[b] = cell[b]
    BY <1>1, AtDoorsNext
<1>3. Holders' = Holders
    BY <1>1, <1>2, HoldersSame
<1>4. FullCells' = FullCells
    BY <1>1, FullCellsAre DEF Parcels
<1> QED BY <1>3, <1>4

(* create_booking leases a free cell to a booking that has none.           *)
LEMMA CreateStep ==
    ASSUME DoorsInv, DoorsInv', NEW x \in Bookings, Created(x), Only(x)
    PROVE  Lease!Lease(x, cell'[x]) /\ cell'[x] \in Cells
<1> DEFINE d == cell'[x]
<1>1. d \in Cells /\ \A b \in Holding : cell[b] # d
    BY DEF Created, IndexAdmits, Holding
<1>2. x \notin Holding /\ x \in Holding' /\ x \notin Parcels
    <2>1. x \notin Holding /\ x \in Holding'
        BY BookingAssumption DEF Created, Holding, Held, CELL_HELD_STATUSES, BookingStatus
    <2> QED BY <2>1, AtDoors
<1>3. x \notin Parcels'
    BY <1>2, StampsKept DEF Parcels, Created, ParcelInside, Deposited, SameCustody, Stamp
<1>4. /\ Holding' = Holding \cup {x} /\ Parcels' = Parcels
      /\ \A b \in Bookings \ {x} : cell'[b] = cell[b]
    <2>1. Holding' = Holding \cup {x}
        BY <1>2, OthersThan
    <2>2. Parcels' = Parcels
        BY <1>2, <1>3, OthersThan
    <2> QED BY <2>1, <2>2, OthersThan
<1>5. Holders'[d] = x
    BY <1>2, HoldersAreNext
<1> HIDE DEF d
<1>6. Holders[d] = NULL
    BY <1>1, HoldersAre
<1>7. \A other \in Cells : Holders[other] # x
    BY <1>2, HoldersAre, BookingAssumption
<1>8. ASSUME NEW c \in Cells \ {d} PROVE Holders'[c] = Holders[c]
    <2>1. CASE Holders'[c] # NULL
        <3>1. PICK b \in Holding' : cell'[b] = c
            BY <2>1, HoldersAreNext
        <3>2. b \in Holding /\ cell[b] = c
            BY <3>1, <1>4, <1>8, AtDoorsNext DEF d
        <3> QED BY <3>1, <3>2, HoldersAre, HoldersAreNext
    <2>2. CASE Holders'[c] = NULL
        <3>1. SUFFICES ASSUME Holders[c] # NULL PROVE FALSE
            BY <2>2
        <3>2. PICK b \in Holding : cell[b] = c
            BY <3>1, HoldersAre
        <3>3. b \in Holding' /\ cell'[b] = c
            BY <3>2, <1>2, <1>4, AtDoors
        <3>4. Holders'[c] = b
            BY <3>3, HoldersAreNext
        <3> QED BY <3>2, <3>4, <2>2, AtDoors, BookingAssumption
    <2> QED BY <2>1, <2>2
<1>9. Holders' = [Holders EXCEPT ![d] = x]
    BY <1>1, <1>5, <1>8, HoldersAre, HoldersAreNext
<1>10. FullCells' = FullCells
    BY <1>2, <1>4, FullCellsAre DEF Parcels
<1> QED BY <1>1, <1>6, <1>7, <1>9, <1>10 DEF Lease!Lease, d

(* mark_deposited puts a parcel into an empty cell of its own booking.     *)
LEMMA StoreStep ==
    ASSUME DoorsInv, DoorsInv', NEW x \in Bookings, Stored(x), Only(x)
    PROVE  Lease!PutIn(cell[x]) /\ cell[x] \in Cells
<1>1. x \in Holding /\ x \in Holding' /\ cell'[x] = cell[x]
    BY DEF Stored, Holding, Held, CELL_HELD_STATUSES
<1>2. x \notin Parcels /\ x \in Parcels'
    <2>1. Story(x) /\ status[x] = "awaiting_deposit"
        BY DEF DoorsInv, StoryInv, Stored
    <2>2. x \notin Parcels
        BY <2>1 DEF Story, Parcels
    <2>3. custody[x] = NULL /\ "collected_at" \notin stamps[x]
        BY <2>1 DEF Story, DoorsInv, TypeInv, TypeOK, CustodyStatus
    <2> QED BY <2>2, <2>3 DEF Stored, Parcels, ParcelInside, Deposited, SameCustody
<1>3. Holding' = Holding /\ Parcels' = Parcels \cup {x} /\ \A b \in Bookings : cell'[b] = cell[b]
    <2>1. Holding' = Holding
        BY <1>1, OthersThan
    <2>2. Parcels' = Parcels \cup {x}
        BY <1>2, OthersThan
    <2> QED BY <2>1, <2>2, <1>1, OthersThan
<1>4. cell[x] \in Cells /\ Holders[cell[x]] = x /\ x # NULL
    BY <1>1, AtDoors, HoldersAre, BookingAssumption
<1>5. cell[x] \notin FullCells
    BY <1>1, <1>2, AtDoors, FullCellsAre
<1>6. FullCells' = FullCells \cup {cell[x]}
    BY <1>3, <1>4, FullCellsAre DEF Parcels
<1>7. Holders' = Holders
    <2>1. \A b \in Holding' : cell'[b] = cell[b]
        BY <1>3, AtDoorsNext
    <2> QED BY <1>3, <2>1, HoldersSame
<1> QED BY <1>4, <1>5, <1>6, <1>7 DEF Lease!PutIn

(* Collection and the act of removal empty the cell and end the lease.     *)
LEMMA TakeOutStep ==
    ASSUME DoorsInv, DoorsInv', NEW x \in Bookings, Collected(x) \/ Removed(x), Only(x)
    PROVE  Lease!TakeOut(cell[x]) /\ cell[x] \in Cells
<1>1. x \in Holding /\ x \notin Holding' /\ cell'[x] = cell[x]
    BY DEF Collected, Removed, Holding, Held, CELL_HELD_STATUSES
<1>2. x \in Parcels /\ x \notin Parcels'
    <2>1. Deposited(x) /\ "collected_at" \notin stamps[x]
        BY DEF DoorsInv, StoryInv, Story, Collected, Removed
    <2>2. custody[x] = NULL
        BY DEF DoorsInv, StoryInv, Story, TypeInv, TypeOK, CustodyStatus, Collected, Removed
    <2> QED BY <1>1, <2>1, <2>2, AtDoorsNext DEF Parcels, ParcelInside
<1>3. /\ Holding' = Holding \ {x} /\ Parcels' = Parcels \ {x}
      /\ \A b \in Bookings : cell'[b] = cell[b]
    <2>1. Holding' = Holding \ {x}
        BY <1>1, OthersThan
    <2>2. Parcels' = Parcels \ {x}
        BY <1>2, OthersThan
    <2> QED BY <2>1, <2>2, <1>1, OthersThan
<1>4. cell[x] \in Cells /\ cell[x] \in FullCells
    BY <1>1, <1>2, AtDoors, FullCellsAre
<1>5. FullCells' = FullCells \ {cell[x]}
    <2>1. \A b \in Parcels : cell[b] = cell[x] => b = x
        BY <1>1, AtDoors
    <2> QED BY <1>3, <2>1, FullCellsAre DEF Parcels
<1>6. \A b \in Holding' : cell'[b] = cell[b]
    BY <1>3, AtDoorsNext
<1>7. Holders' = [Holders EXCEPT ![cell[x]] = NULL]
    BY <1>1, <1>3, <1>4, <1>6, HoldersAfterOne
<1> QED BY <1>4, <1>5, <1>7 DEF Lease!TakeOut

(* Cancellations, refusals and the hold worker give up empty cells.        *)
LEMMA GiveUpStep ==
    ASSUME DoorsInv, DoorsInv', NEW S \in SUBSET Bookings, S # {},
           \A b \in S : GivenUp(b), \A b \in Bookings \ S : Idle(b)
    PROVE  Lease!GiveUp({cell[b] : b \in S}) /\ {cell[b] : b \in S} \in SUBSET Cells
<1> DEFINE T == {cell[b] : b \in S}
<1>1. S \subseteq Holding /\ S \cap Holding' = {} /\ S \cap Parcels = {}
    BY DEF GivenUp, DoorsInv, StoryInv, Story, Holding, Parcels, Held, CELL_HELD_STATUSES
<1>2. Holding' = Holding \ S /\ Parcels' = Parcels /\ \A b \in Bookings \ S : cell'[b] = cell[b]
    <2>1. \A b \in Bookings \ S : Quiet(b)
        BY DEF Quiet
    <2>2. S \cap Parcels' = {}
        BY <1>1, AtDoorsNext
    <2> QED BY <2>1, <2>2, <1>1, OthersAtDoors
<1>3. T # {} /\ T \in SUBSET Cells /\ \A c \in T : Holders[c] # NULL
    BY <1>1, AtDoors, HoldersAre, BookingAssumption
<1>4. T \cap FullCells = {}
    BY <1>1, AtDoors, FullCellsAre
<1>5. Holders' = [c \in Cells |-> IF \E b \in S : cell[b] = c THEN NULL ELSE Holders[c]]
    BY <1>1, <1>2, HoldersAfterEnd, AtDoors
<1>6. Holders' = [c \in Cells |-> IF c \in T THEN NULL ELSE Holders[c]]
    BY <1>5
<1>7. FullCells' = FullCells
    <2>1. \A b \in Parcels : cell'[b] = cell[b]
        BY <1>1, <1>2 DEF Parcels
    <2> QED BY <1>2, <2>1, FullCellsAre
<1> QED BY <1>3, <1>4, <1>6, <1>7 DEF Lease!GiveUp

(* Every step of the system is a step of the lease or a stutter of it.     *)
LEMMA StepImplements ==
    ASSUME DoorsInv, [Next]_vars
    PROVE  [Lease!Next]_<<Holders, FullCells>>
<1>1. DoorsInv'
    BY DoorsInvStep
<1>2. CASE \A b \in Bookings : Quiet(b)
    BY <1>1, <1>2, QuietStep
<1>3. CASE \E x \in Bookings : Created(x) /\ Only(x)
    BY <1>1, <1>3, CreateStep DEF Lease!Next
<1>4. CASE \E x \in Bookings : Stored(x) /\ Only(x)
    BY <1>1, <1>4, StoreStep DEF Lease!Next
<1>5. CASE \E x \in Bookings : (Collected(x) \/ Removed(x)) /\ Only(x)
    BY <1>1, <1>5, TakeOutStep DEF Lease!Next
<1>6. CASE \E S \in SUBSET Bookings : /\ S # {} /\ \A b \in S : GivenUp(b)
                                     /\ \A b \in Bookings \ S : Idle(b)
    BY <1>1, <1>6, GiveUpStep DEF Lease!Next
<1> QED BY <1>2, <1>3, <1>4, <1>5, <1>6, Shapes DEF Shape, DoorsInv

LEMMA InitImplements == Init => Lease!Init
<1> SUFFICES ASSUME Init PROVE Lease!Init
    OBVIOUS
<1>1. \A b \in Bookings : ~Held(b) /\ ~ParcelInside(b)
    BY BookingAssumption
       DEF Init, Held, CELL_HELD_STATUSES, BookingStatus, ParcelInside, Deposited
<1> QED BY <1>1 DEF Lease!Init, Holders, Holder, FullCells

(* The booking system implements the lease of cells: whatever the timers,  *)
(* banks, clients and administrators do, a door changes hands only by the  *)
(* moves CellLease allows.                                                 *)
THEOREM ImplementsCellLease == Spec => LeaseSpec
<1>1. Init => DoorsInv
    BY TypeInit, StoryInit, BookingAssumption
       DEF DoorsInv, Init, CellExclusive, Held, CELL_HELD_STATUSES, BookingStatus
<1>2. DoorsInv /\ [Next]_vars => DoorsInv'
    BY DoorsInvStep
<1>3. DoorsInv /\ [Next]_vars => [Lease!Next]_<<Holders, FullCells>>
    BY StepImplements
<1> QED BY <1>1, <1>2, <1>3, InitImplements, PTL DEF Spec, LeaseSpec, Lease!Spec, Lease!vars
=============================================================================
