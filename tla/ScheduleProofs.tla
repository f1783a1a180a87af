--------------------------- MODULE ScheduleProofs ---------------------------
(***************************************************************************)
(* What the calendar arithmetic of internal/schedule guarantees for every  *)
(* instant and schedule.                                                   *)
(***************************************************************************)
EXTENDS Schedule, TLAPS

(* Instants are counted from a Sunday, so periods are whole multiples of    *)
(* their length.                                                           *)
Length(sched) ==
  CASE sched = "hourly" -> 60
    [] sched = "daily"  -> 1440
    [] sched = "weekly" -> 10080

(* Going back to Sunday is rounding down to whole weeks.                   *)
LEMMA WeekStart ==
  ASSUME NEW t \in Nat
  PROVE  (t - (t % 1440)) - (((t - (t % 1440)) \div 1440) % 7) * 1440 = t - (t % 10080)
  BY SMTT(30)

(* Every schedule rounds down to multiples of its period's length.         *)
LEMMA TruncateByLength ==
  ASSUME NEW t \in Nat, NEW sched \in Schedules
  PROVE  /\ Truncate(t, sched) = t - (t % Length(sched))
         /\ NextDue(sched, t) = Truncate(t, sched) + Length(sched)
<1>1. CASE sched = "hourly"
  BY <1>1 DEF Truncate, NextDue, Length, Hour
<1>2. CASE sched = "daily"
  BY <1>2 DEF Truncate, NextDue, Length, Hour, Day
<1>3. CASE sched = "weekly"
  <2>1. Truncate(t, sched) = (t - (t % 1440)) - (((t - (t % 1440)) \div 1440) % 7) * 1440
    BY <1>3 DEF Truncate, Weekday, Hour, Day
  <2>2. NextDue(sched, t) = Truncate(t, sched) + 10080
    BY <1>3, <2>1 DEF NextDue, Hour, Day
  <2> QED
    BY <1>3, <2>1, <2>2, WeekStart DEF Length
<1> QED
  BY <1>1, <1>2, <1>3 DEF Schedules

(* Rounding down is monotone, and two instants differ in it when one is    *)
(* past the other's period.                                                *)
LEMMA Multiples ==
  ASSUME NEW s \in Nat, NEW t \in Nat, s <= t, NEW n \in {60, 1440, 10080}
  PROVE  /\ t - (t % n) \in Int /\ t - (t % n) <= t /\ t < (t - (t % n)) + n
         /\ s - (s % n) <= t - (t % n)
         /\ (t - (t % n) # s - (s % n)) <=> t >= (s - (s % n)) + n
<1>1. CASE n = 60
  BY <1>1, SMTT(30)
<1>2. CASE n = 1440
  BY <1>2, SMTT(30)
<1>3. CASE n = 10080
  BY <1>3, SMTT(30)
<1> QED
  BY <1>1, <1>2, <1>3

(* There are three lengths of period.                                      *)
LEMMA LengthOfSchedule ==
  ASSUME NEW sched \in Schedules
  PROVE  Length(sched) \in {60, 1440, 10080}
  BY DEF Schedules, Length

(* The period of an instant starts no later than the instant, and the      *)
(* period after it starts later (schedule.Truncate, schedule.Next).        *)
THEOREM PeriodAround ==
  ASSUME NEW t \in Nat, NEW sched \in Schedules
  PROVE  /\ Truncate(t, sched) \in Int /\ NextDue(sched, t) \in Int
         /\ Truncate(t, sched) <= t
         /\ t < NextDue(sched, t)
  BY TruncateByLength, Multiples, LengthOfSchedule

(* A later instant never falls into an earlier period.                     *)
THEOREM TruncateMonotone ==
  ASSUME NEW s \in Nat, NEW t \in Nat, s <= t, NEW sched \in Schedules
  PROVE  Truncate(s, sched) <= Truncate(t, sched)
<1>1. PICK n \in {60, 1440, 10080} : n = Length(sched)
  BY LengthOfSchedule
<1>2. s - (s % n) <= t - (t % n)
  BY Multiples
<1>3. Truncate(s, sched) = s - (s % n) /\ Truncate(t, sched) = t - (t % n)
  BY <1>1, TruncateByLength
<1> QED
  BY <1>2, <1>3

(* What tick decides by comparing periods for equality and what status     *)
(* shows as the next run agree: as long as the clock has not gone back, a  *)
(* job that ran is due again exactly from its next due time on             *)
(* (schedule.Due, schedule.Next).                                          *)
THEOREM DueFromNextDue ==
  ASSUME NEW last \in Nat, NEW t \in Nat, last <= t, NEW sched \in Schedules
  PROVE  Due(sched, last, t) <=> t >= NextDue(sched, last)
<1>1. Due(sched, last, t) <=> Truncate(t, sched) # Truncate(last, sched)
  BY DEF Due, Never
<1>2. PICK n \in {60, 1440, 10080} : n = Length(sched)
  BY LengthOfSchedule
<1>3. t - (t % n) # last - (last % n) <=> t >= (last - (last % n)) + n
  BY Multiples
<1>4. /\ Truncate(last, sched) = last - (last % n) /\ Truncate(t, sched) = t - (t % n)
      /\ NextDue(sched, last) = Truncate(last, sched) + n
  BY <1>2, TruncateByLength
<1> QED
  BY <1>1, <1>3, <1>4

(* A job found due that has run before is in a later period than that run. *)
LEMMA DueIsLater ==
  ASSUME NEW last \in Nat, NEW t \in Nat, last <= t, NEW sched \in Schedules,
         Due(sched, last, t)
  PROVE  Truncate(last, sched) < Truncate(t, sched)
<1>1. Truncate(last, sched) <= Truncate(t, sched)
  BY TruncateMonotone
<1>2. Truncate(last, sched) # Truncate(t, sched)
  BY DEF Due, Never
<1> QED
  BY <1>1, <1>2, PeriodAround
=============================================================================
