------------------------------ MODULE Schedule ------------------------------
(***************************************************************************)
(* Opening hours of a postamat and the deadlines computed from them:       *)
(* app/modules/catalog/service.py and the two deadlines that               *)
(* app/workers/overdue.py derives from a storage expiry.                   *)
(*                                                                         *)
(* An instant is a natural number of clock units; a day has DayLength of   *)
(* them and a week WeekDays days (seven in the code, fewer in the models). *)
(* A schedule keeps one slot per weekday, or NULL for a day off.           *)
(***************************************************************************)
EXTENDS Integers

CONSTANTS
    DayLength,          \* clock units in a day
    WeekDays,           \* days in a week
    GraceLength,        \* grace_hours of core/config.py
    NULL                \* Python's None

ASSUME ScheduleAssumption ==
    /\ DayLength \in Nat \ {0}
    /\ WeekDays \in Nat \ {0}
    /\ GraceLength \in Nat
    /\ NULL \notin Int

Weekdays == 0 .. WeekDays - 1

(* A slot that reached the database opens before it closes on its own day. *)
Slot == {s \in [opens_at: 0 .. DayLength - 1, closes_at: 0 .. DayLength - 1] :
            s.opens_at < s.closes_at}

PostamatHours ==
    [round_the_clock: BOOLEAN, schedule: [Weekdays -> Slot \cup {NULL}]]

Weekday(moment) == (moment \div DayLength) % WeekDays

TimeOfDay(moment) == moment % DayLength

(* Half-open: the opening instant is open, the closing instant is not.     *)
is_open_at(hours, moment) ==
    \/ hours.round_the_clock
    \/ LET slot == hours.schedule[Weekday(moment)]
       IN  /\ slot # NULL
           /\ slot.opens_at <= TimeOfDay(moment)
           /\ TimeOfDay(moment) < slot.closes_at

(* The opening on the day that is offset days after moment's day.          *)
Candidate(hours, moment, offset) ==
    LET day == moment + offset * DayLength
    IN  (day \div DayLength) * DayLength + hours.schedule[Weekday(day)].opens_at

(* Mutant: only the seven days of one week are searched.                   *)
OffsetsOneWeek(hours, moment) ==
    {k \in 0 .. WeekDays - 1 :
        /\ hours.schedule[Weekday(moment + k * DayLength)] # NULL
        /\ Candidate(hours, moment, k) > moment}

(* Mutant: an opening that has already passed today is taken.              *)
OffsetsPassed(hours, moment) ==
    {k \in 0 .. WeekDays :
        hours.schedule[Weekday(moment + k * DayLength)] # NULL}

(* The offsets that give an opening still to come.  WeekDays is among them *)
(* because today's own slot may already have passed.                       *)
Offsets(hours, moment) ==
    {k \in 0 .. WeekDays :
        /\ hours.schedule[Weekday(moment + k * DayLength)] # NULL
        /\ Candidate(hours, moment, k) > moment}

next_opening_after(hours, moment) ==
    IF hours.round_the_clock THEN moment
    ELSE IF Offsets(hours, moment) = {} THEN NULL
    ELSE Candidate(hours, moment,
                   CHOOSE k \in Offsets(hours, moment) :
                       \A j \in Offsets(hours, moment) : k <= j)

(* A deadline behind a locked door is pushed to the next opening; where    *)
(* there is none it stands.  storage_expiry and _reachable share the rule. *)
Reachable(hours, moment) ==
    IF is_open_at(hours, moment) THEN moment
    ELSE IF next_opening_after(hours, moment) = NULL THEN moment
    ELSE next_opening_after(hours, moment)

storage_expiry(hours, deposited_at, duration) ==
    Reachable(hours, deposited_at + duration)

(* When the overdue worker moves a parcel that expired at expires_at to    *)
(* grace, and from grace to overdue.                                       *)
grace_ends(hours, expires_at) == Reachable(hours, expires_at + GraceLength)

overdue_at(hours, expires_at) == Reachable(hours, expires_at + 2 * GraceLength)
=============================================================================
