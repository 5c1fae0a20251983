----------------------------- MODULE Recurrence -----------------------------
(***************************************************************************)
(* The slots of a scheduled automation: a rule (FREQ, BYHOUR, BYMINUTE,    *)
(* BYDAY) read on the clocks of a time zone that changes its offset once,  *)
(* forward or back, and the passes of the scheduler that collect what is   *)
(* due.                                                                    *)
(*                                                                         *)
(* A unit of time divides the hour and every offset, so that an instant    *)
(* between two units may be rounded down: candidates are whole units, and  *)
(* the second added to a slot only makes the next one strictly later.      *)
(***************************************************************************)
EXTENDS Integers, FiniteSets, SequencesExt

CONSTANTS
    Hour,           \* units of an hour
    HoursPerDay, DaysPerWeek,
    Zones,          \* offsets before and after an instant at which they change
    Creations,      \* bound: the instants of creation
    Delays,         \* bound: the times from one pass to the next
    Horizon,        \* bound: the last instant
    DueLimit        \* AUTOMATION_DUE_OCCURRENCE_LIMIT

Day == HoursPerDay * Hour

ASSUME RecurrenceAssumption ==
    /\ {Hour, HoursPerDay, DaysPerWeek, DueLimit} \cup Delays \subseteq Nat \ {0}
    /\ Horizon \in Nat /\ Creations \subseteq 0..Horizon
    /\ Zones \subseteq [before : Int, after : Int, switch : 0..Horizon]
    /\ DueLimit > Horizon         \* more than there are instants to be due

\* parseRrule: the fields a frequency reads, within their ranges.
Rule(freq, hours, days) == [freq : {freq}, byHour : hours, byMinute : 0..Hour - 1, byDay : days]
Rules == Rule("HOURLY", {0}, {{}})
    \cup Rule("DAILY", 0..HoursPerDay - 1, {{}})
    \cup Rule("WEEKLY", 0..HoursPerDay - 1, SUBSET (0..DaysPerWeek - 1) \ {{}})

VARIABLES
    zone, rule,     \* those of the automation, NoZone and NoRule before it is created
    time,           \* the present, as the service last read it
    since,          \* when the automation was created
    next,           \* its nextRunAt
    slots,          \* history: the occurrences collected
    exceeded        \* did the last pass hit the limit?

recurrenceVars == <<zone, rule, time, since, next, slots, exceeded>>

NoRule == [freq |-> "none", byHour |-> 0, byMinute |-> 0, byDay |-> {}]
NoZone == [before |-> 0, after |-> 0, switch |-> 0]

-----------------------------------------------------------------------------
Offset(t) == IF t < zone.switch THEN zone.before ELSE zone.after

\* getZonedParts, as a civil time.
Local(t) == t + Offset(t)

\* civilDateToUtcDate: three corrections of a first guess.
Corrected(civil, guess) == civil - Offset(guess)
ToInstantOnce(civil) == Corrected(civil, civil)    \* mutant: one correction
ToInstant(civil) == Corrected(civil, Corrected(civil, Corrected(civil, civil)))

Weekday(civil) == (civil \div Day) % DaysPerWeek

Period == IF rule.freq = "HOURLY" THEN Hour ELSE Day

\* setUTCMinutes and setUTCHours on the civil time of the present.
FirstCandidate(now) ==
    IF rule.freq = "HOURLY" THEN (Local(now) \div Hour) * Hour + rule.byMinute
    ELSE (Local(now) \div Day) * Day + rule.byHour * Hour + rule.byMinute

\* The civil times a rule asks for.
Asked(civil) ==
    /\ civil % Hour = rule.byMinute
    /\ rule.freq = "HOURLY" \/ civil % Day = rule.byHour * Hour + rule.byMinute
    /\ rule.freq = "WEEKLY" => Weekday(civil) \in rule.byDay

\* computeNextRunAt.  Hourly and daily rules try a second candidate and take it as
\* it is; a weekly rule goes on until one lies ahead.
NextRunAt(now) ==
    LET first == FirstCandidate(now)
        Ahead(k) == ToInstant(first + k * Period) > now /\ Asked(first + k * Period)
        k == IF rule.freq # "WEEKLY" THEN IF ToInstant(first) > now THEN 0 ELSE 1
             ELSE CHOOSE n \in 0..2 * DaysPerWeek :
                      Ahead(n) /\ \A m \in 0..n - 1 : ~Ahead(m)
    IN  ToInstant(first + k * Period)

-----------------------------------------------------------------------------
RecurrenceInit ==
    /\ zone = NoZone /\ rule = NoRule
    /\ time = 0 /\ since = 0 /\ next = 0 /\ slots = << >> /\ exceeded = FALSE

\* createAutomation, as updateAutomation with another rule: nextRunAt lies ahead.
CreateAutomation ==
    /\ rule = NoRule /\ rule' \in Rules /\ zone' \in Zones
    /\ UNCHANGED <<slots, exceeded>>
    /\ time' \in Creations /\ since' = time'
    /\ next' = NextRunAt(time)'

\* collectDueOccurrences: nextRunAt and the slots after it, the last one ahead of the
\* present if the limit allows.
Occurrences(now) ==
    FoldLeft(LAMBDA due, n : IF Last(due) > now THEN due ELSE Append(due, NextRunAt(Last(due))),
             <<next>>, [n \in 1..DueLimit |-> n])

\* claimDueRunBatch: at the limit it throws, and the pass leaves everything as it was.
CollectDueOccurrences(now) ==
    /\ rule # NoRule /\ now <= Horizon /\ time' = now
    /\ LET due == Occurrences(now)
       IN  IF Last(due) > now
           THEN /\ next' = Last(due) /\ slots' = slots \o Front(due)
                /\ UNCHANGED exceeded
           ELSE exceeded' = TRUE /\ UNCHANGED <<next, slots>>
    /\ UNCHANGED <<zone, rule, since>>

RecurrenceNext == CreateAutomation \/ \E d \in Delays : CollectDueOccurrences(time + d)

RecurrenceSpec == RecurrenceInit /\ [][RecurrenceNext]_recurrenceVars

-----------------------------------------------------------------------------
Collected == Range(slots) \cup {next}

\* The instants at which the clocks of the zone show a civil time: none in the gap of
\* a change, two in its overlap.  A civil time in the gap is shifted by the change.
Shows(civil)   == {t \in {civil - zone.before, civil - zone.after} : Local(t) = civil}
Shifted(civil) == {civil - zone.before, civil - zone.after}

\* The slots of a rule are the civil times it asks for: they rise, each stands for a
\* time asked for, one of them for each the clocks show, once when they show it twice,
\* and one for each they leave out.  A pass hits its limit only where the guess of
\* civilDateToUtcDate, in a zone that is not west of Greenwich, ends before the gap and
\* so puts the slot of a time left out into the hour, or day, of the slot before.
SlotsMatchRule ==
    rule # NoRule =>
    LET civils  == {c \in -Day..Horizon + 2 * Day * DaysPerWeek : Asked(c)}
        within  == {c \in civils : \A t \in Shifted(c) : t > since /\ t < next}
        leftOut == {c \in civils : Shows(c) = {}}
    IN  /\ \A i, j \in DOMAIN slots : i < j => slots[i] < slots[j]
        /\ \A s \in Range(slots) : s < next
        /\ \A s \in Collected :
              \E c \in civils : s \in IF c \in leftOut THEN Shifted(c) ELSE Shows(c)
        /\ \A c \in within \ leftOut : Cardinality(Shows(c) \cap Collected) = 1
        /\ \A c \in within \cap leftOut : Shifted(c) \cap Collected # {}
        /\ exceeded => /\ rule.freq # "WEEKLY" /\ zone.before >= 0
                       /\ \E c \in leftOut : /\ next <= c - zone.after
                                            /\ Local(c - zone.after) \div Period < c \div Period

\* A pass never hits the limit that guards it (automationService.ts:324): there are
\* fewer instants than the limit, so only slots that do not rise can.
NeverExceeds == ~exceeded
=============================================================================
