------------------------------ MODULE Schedule ------------------------------
(***************************************************************************)
(* The calendar arithmetic of internal/schedule: when a job on a named     *)
(* schedule is due, given when it last ran.  Instants are whole minutes    *)
(* since 00:00 UTC on some Sunday; the source works in UTC throughout, so  *)
(* there is no daylight saving to model.                                   *)
(***************************************************************************)
EXTENDS Integers

Hour == 60
Day == 24 * Hour

Schedules == {"hourly", "daily", "weekly"}

(* The zero time.Time: the job has no recorded run. *)
Never == -1

(* time.Weekday of a day, counted from Sunday. *)
Weekday(day) == (day \div Day) % 7

(* The start of the period containing t.  A week starts on its Sunday. *)
Truncate(t, sched) ==
  LET day == t - (t % Day)
  IN  CASE sched = "hourly" -> t - (t % Hour)
        [] sched = "daily"  -> day
        [] sched = "weekly" -> day - Weekday(day) * Day

(* schedule.Next: the start of the period after the one holding lastRun. *)
NextDue(sched, lastRun) ==
  LET start == Truncate(lastRun, sched)
  IN  CASE sched = "hourly" -> start + Hour
        [] sched = "daily"  -> start + Day
        [] sched = "weekly" -> start + 7 * Day

(* Only equality of periods is tested, never their order. *)
Due(sched, lastRun, now) ==
  \/ lastRun = Never
  \/ Truncate(now, sched) # Truncate(lastRun, sched)
=============================================================================
