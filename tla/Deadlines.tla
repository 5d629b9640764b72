----------------------------- MODULE Deadlines -----------------------------
(***************************************************************************)
(* The deadline functions of Schedule over every week of slots, every      *)
(* instant of more than one week and every duration, against a reference   *)
(* that searches the instants one by one.                                  *)
(***************************************************************************)
EXTENDS Schedule

CONSTANTS
    Lengths,            \* rental lengths tried
    LastInstant         \* bound on the clock

ASSUME DeadlinesAssumption == Lengths \subseteq Nat /\ LastInstant \in Nat

VARIABLES
    openingHours,       \* one postamat's opening hours, fixed
    instant             \* the instant the functions are asked about

deadlineVars == <<openingHours, instant>>

DeadlinesInit == openingHours \in PostamatHours /\ instant = 0

DeadlinesNext ==
    instant < LastInstant /\ instant' = instant + 1 /\ UNCHANGED openingHours

DeadlinesSpec == DeadlinesInit /\ [][DeadlinesNext]_deadlineVars

(* Reference: the open instants from moment on, over more than a week.     *)
OpenFrom(moment) ==
    {t \in moment .. moment + (WeekDays + 1) * DayLength : is_open_at(openingHours, t)}

FirstOpen(moment) ==
    CHOOSE t \in OpenFrom(moment) : \A u \in OpenFrom(moment) : t <= u

(* Storage ends at the first instant, not before the hours paid for have   *)
(* passed, when the recipient can reach the cell; at a site that never     *)
(* opens the plain clock stands (storage_expiry).                          *)
ExpiryIsFirstReachable ==
    \A d \in Lengths :
        storage_expiry(openingHours, instant, d) =
            IF OpenFrom(instant + d) = {} THEN instant + d ELSE FirstOpen(instant + d)

(* Pushing deadlines to openings never reorders them: a parcel that        *)
(* expires earlier is never escalated later, and grace never ends after    *)
(* the overdue deadline (_reachable).                                      *)
DeadlinesKeepOrder ==
    /\ Reachable(openingHours, instant) <= Reachable(openingHours, instant + 1)
    /\ instant <= grace_ends(openingHours, instant)
    /\ grace_ends(openingHours, instant) <= overdue_at(openingHours, instant)
=============================================================================
