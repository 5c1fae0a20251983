---------------------------- MODULE MCRecurrence ----------------------------
(***************************************************************************)
(* Recurrence on clocks of a four-hour day and a two-day week, in units of *)
(* half an hour.                                                           *)
(***************************************************************************)
EXTENDS Recurrence

Changing(before, after, switch) == [before |-> before, after |-> after, switch |-> switch]

\* Clocks put forward and back, east and west of Greenwich, and put forward at
\* midnight.
TheZones == {Changing(2, 4, 8), Changing(4, 2, 10), Changing(-4, -2, 12),
             Changing(-2, -4, 9), Changing(0, 2, 16)}
=============================================================================
