------------------------------- MODULE Schedules -------------------------------
(***************************************************************************)
(* When a schedule fires (domain/scheduling/schedules.py): the next         *)
(* occurrence after an instant, and the preview that repeats that question. *)
(*                                                                          *)
(* Time is counted in slots.  An instant is a slot of UTC; a wall clock     *)
(* shows a slot of local time, DayLength of them to a day.  A zone is the   *)
(* stretch of its history around one transition: the instant at which its   *)
(* UTC offset changes, and the offsets before and after it.                 *)
(*                                                                          *)
(* The search gives up after _SEARCH_LIMIT_DAYS = 1500 days.  A week has a  *)
(* selected day and a transition removes at most one of its occurrences, so *)
(* that end is never reached, and SearchDays only has to span two weeks     *)
(* after the day of the question.                                           *)
(***************************************************************************)
EXTENDS Integers, FiniteSetsExt, SequencesExt

CONSTANTS
    DayLength,   \* slots in a day
    WeekLength,  \* days in a week
    SearchDays,  \* how many local dates a search looks at
    Zones,       \* [shift, before, after]: a transition and its two offsets
    Intervals,   \* IntervalSchedule: [every, anchor]
    Weeklies,    \* WeekdayTimeSchedule: [at, weekdays, skip]
    Starts,      \* the instants a preview starts from
    MaxCount     \* bound: the longest preview (MAX_PREVIEW_OCCURRENCES)

ASSUME CalendarAssumption ==
    /\ DayLength \in Nat \ {0}
    /\ WeekLength \in Nat \ {0}
    /\ SearchDays \in Nat /\ SearchDays > 2 * WeekLength

\* No offset is longer than a day, and no transition moves the clocks by more.
ASSUME ZonesAssumption ==
    \A z \in Zones :
        /\ z.shift \in Int
        /\ z.before \in -DayLength..DayLength
        /\ z.after \in -DayLength..DayLength
        /\ z.after - z.before \in -DayLength..DayLength

\* The validation of __post_init__ and of preview_occurrences.
ASSUME SchedulesAssumption ==
    /\ Intervals \subseteq [every : Nat \ {0}, anchor : Nat]
    /\ Weeklies \subseteq
          [at : 0..(DayLength - 1), skip : BOOLEAN,
           weekdays : (SUBSET (0..(WeekLength - 1))) \ {{}}]
    /\ Starts \subseteq Nat
    /\ MaxCount \in Nat \ {0}

\* ManualSchedule has nothing to say but that there is no next occurrence.
Schedule ==
    [kind : {"interval"}, of : Intervals] \cup [kind : {"weekly"}, of : Weeklies]
      \cup [kind : {"manual"}, of : {{}}]

Requests == [schedule : Schedule, zone : Zones, after : Starts, count : 1..MaxCount]

VARIABLES
    request,     \* the arguments of preview_occurrences
    occurrences  \* what it has collected

previewVars == <<request, occurrences>>

-----------------------------------------------------------------------------
\* Local time (zoneinfo).

\* What the wall clock shows at an instant.
WallClock(z, instant) ==
    instant + (IF instant < z.shift THEN z.before ELSE z.after)

\* The instant of a wall-clock reading, with fold 0: the first of the two
\* instants of a repeated reading, and for a reading that was skipped the
\* instant the offset before the transition gives.
InstantOf(z, wall) ==
    wall - (IF wall < z.shift + Max({z.before, z.after}) THEN z.before ELSE z.after)

DateOf(z, instant) == WallClock(z, instant) \div DayLength

-----------------------------------------------------------------------------
\* IntervalSchedule.next_occurrence_after

NextOfInterval(s, moment) ==
    IF moment < s.anchor
    THEN s.anchor
    ELSE s.anchor + s.every * ((moment - s.anchor) \div s.every + 1)

\* WeekdayTimeSchedule.next_occurrence_after

Nominal(s, z, date) == InstantOf(z, date * DayLength + s.at)

\* A local time compared without the way through UTC always exists.
DoesNotExistSlip(s, z, date) == (date * DayLength + s.at) % DayLength # s.at

\* Round-tripped through UTC, it shows another hour or minute; the date is not
\* compared.
DoesNotExist(s, z, date) ==
    WallClock(z, Nominal(s, z, date)) % DayLength # s.at

Selects(s, z, date) ==
    /\ date % WeekLength \in s.weekdays
    /\ ~(s.skip /\ DoesNotExist(s, z, date))

\* The search as it would be in UTC dates.
NextOfWeeklySlip(s, z, moment) ==
    LET today == moment \div DayLength
        dates == {d \in (today + 1)..(today + SearchDays - 1) : Selects(s, z, d)}
    IN Nominal(s, z, Min(dates))

\* Local dates are searched in order from that of the moment; the first whose
\* instant lies after the moment is the answer.
NextOfWeekly(s, z, moment) ==
    LET today == DateOf(z, moment)
        dates == {d \in today..(today + SearchDays - 1) :
                      Selects(s, z, d) /\ Nominal(s, z, d) > moment}
    IN Nominal(s, z, Min(dates))

\* Of a schedule that has a next occurrence.
NextOccurrenceAfter(schedule, z, moment) ==
    IF schedule.kind = "interval"
    THEN NextOfInterval(schedule.of, moment)
    ELSE NextOfWeekly(schedule.of, z, moment)

-----------------------------------------------------------------------------
\* preview_occurrences: one iteration of its loop.

Cursor == IF occurrences = <<>> THEN request.after ELSE Last(occurrences)

\* The range of the loop counted to its end, inclusive.
PreviewSlip ==
    /\ request.schedule.kind # "manual"
    /\ Len(occurrences) <= request.count
    /\ occurrences' = Append(occurrences,
                          NextOccurrenceAfter(request.schedule, request.zone, Cursor))
    /\ UNCHANGED request

Preview ==
    /\ request.schedule.kind # "manual"
    /\ Len(occurrences) < request.count
    /\ occurrences' = Append(occurrences,
                          NextOccurrenceAfter(request.schedule, request.zone, Cursor))
    /\ UNCHANGED request

PreviewInit == request \in Requests /\ occurrences = <<>>

PreviewSpec == PreviewInit /\ [][Preview]_previewVars

-----------------------------------------------------------------------------
\* Properties.

\* A preview is a list of at most count instants (preview_occurrences).
PreviewTypeOK ==
    /\ request \in Requests
    /\ occurrences \in Seq(Nat)
    /\ Len(occurrences) <= request.count

\* The schedule's own meaning, no matter when somebody asks: the points of the
\* series, or the nominal instants of the selected days.
IsOccurrence(instant) ==
    LET s == request.schedule.of
        z == request.zone
    IN CASE request.schedule.kind = "manual" -> FALSE
         [] request.schedule.kind = "interval" ->
               instant >= s.anchor /\ (instant - s.anchor) % s.every = 0
         [] request.schedule.kind = "weekly" ->
               \E d \in (instant \div DayLength - 2)..(instant \div DayLength + 2) :
                  Selects(s, z, d) /\ Nominal(s, z, d) = instant

\* A reading that was skipped is served so much later that it shows the next
\* date: behind an earlier occurrence of that date, and not searched for any
\* more once that date has begun.
MovesPastMidnight(z) ==
    \E wall \in (z.shift + z.before)..(z.shift + z.after - 1) :
        DateOf(z, InstantOf(z, wall)) # wall \div DayLength

\* Asked again and again from any instant, next_occurrence_after names every
\* occurrence once, in order: each answer is the first candidate strictly
\* after the instant it was asked about.  Where the clocks push one past midnight
\* the answers still only ever advance, over nothing but occurrences, and may
\* leave one out.
PreviewIsComplete ==
    /\ \A i \in 1..Len(occurrences) - 1 : occurrences[i] < occurrences[i + 1]
    /\ \A i \in DOMAIN occurrences : IsOccurrence(occurrences[i])
    /\ MovesPastMidnight(request.zone) \/
          \A t \in (request.after + 1)..Cursor :
             IsOccurrence(t) => \E i \in DOMAIN occurrences : occurrences[i] = t

\* The clocks may change: "06:00" keeps meaning 06:00.  Between the first and
\* the last occurrence of a preview every selected day is served exactly once,
\* at the nominal time of the wall clock; only a time the clocks skipped is
\* served at the shifted instant, or not at all when the schedule says so.
WallClockIsKept ==
    /\ request.schedule.kind = "weekly"
    /\ occurrences # <<>>
    /\ ~MovesPastMidnight(request.zone)
    =>
        LET s == request.schedule.of
            z == request.zone
            Shows(wall) == {i \in 1..Len(occurrences) :
                               WallClock(z, occurrences[i]) = wall}
            On(d) == {i \in 1..Len(occurrences) : DateOf(z, occurrences[i]) = d}
            Skipped(wall) == wall \in (z.shift + z.before)..(z.shift + z.after - 1)
        IN \A d \in DateOf(z, occurrences[1])..DateOf(z, Last(occurrences)) :
              LET wall == d * DayLength + s.at IN
              IF d % WeekLength \notin s.weekdays THEN On(d) = {}
              ELSE IF ~Skipped(wall)
              THEN Cardinality(Shows(wall)) = 1 /\ Cardinality(On(d)) = 1
              ELSE Cardinality(On(d)) = IF s.skip THEN 0 ELSE 1
=============================================================================
