--------------------------- MODULE ReminderPolicy ---------------------------
(***************************************************************************)
(* The pure planning policy of tasks/reminder_policy.py: which reminders a *)
(* task with a deadline should have, as a function of the clock.           *)
(*                                                                         *)
(* Time is an integer number of ticks from a local midnight, in a zone of  *)
(* fixed offset (the default Asia/Shanghai has no daylight saving).  The   *)
(* code's day has 24 hours and its finest grain is the second; HoursPerDay,*)
(* Hour and Minute let an instance shrink both.                            *)
(***************************************************************************)
EXTENDS Integers

CONSTANTS
  HoursPerDay,  \* hours of a day (24 in the code)
  Hour,         \* ticks of an hour
  Minute,       \* ticks of a minute: two triggers in one minute collapse
  QuietStart,   \* first quiet hour (23)
  QuietEnd,     \* first hour after the quiet window (8)
  DayBefore,    \* day_before_offset, in ticks
  HoursBefore,  \* hours_before_offset, in ticks
  MinLead,      \* min_lead_seconds, in ticks
  None          \* Python's None: no deadline, no job

\* ReminderPolicy.__post_init__ refuses any window but an overnight one.
ASSUME PolicyAssumption ==
  /\ HoursPerDay \in Nat \ {0}
  /\ Hour \in Nat \ {0}
  /\ Minute \in Nat \ {0}
  /\ QuietStart \in 0 .. HoursPerDay - 1
  /\ QuietEnd \in 0 .. HoursPerDay - 1
  /\ QuietStart > QuietEnd
  /\ DayBefore \in Nat
  /\ HoursBefore \in Nat
  /\ MinLead \in Nat

ReminderType == {"day_before", "hours_before", "deadline"}

Day == HoursPerDay * Hour

HourOf(t) == (t \div Hour) % HoursPerDay

Midnight(t) == t - (t % Day)

InsideQuietHours(t) == HourOf(t) >= QuietStart \/ HourOf(t) < QuietEnd

\* Mutant: the clamp lands on the first instant of the window.
LastAllowedInQuiet(t) == Midnight(t) + QuietStart * Hour

\* The last tick of the hour before the window opens, on the day of t.
LastAllowedBeforeQuiet(t) == Midnight(t) + QuietStart * Hour - 1

\* Inside the window, forward to its end: later today or tomorrow.
FoldQuietHours(t) ==
  LET candidate == Midnight(t) + QuietEnd * Hour
  IN  IF ~InsideQuietHours(t) THEN t
      ELSE IF candidate > t THEN candidate
      ELSE candidate + Day

Offset(type) ==
  CASE type = "day_before"   -> DayBefore
    [] type = "hours_before" -> HoursBefore
    [] type = "deadline"     -> 0

\* Mutant: an intent inside the quiet window is left to the filters.
SettleUnfolded(t, deadline) == {t}

\* The trigger of one intent as a set: empty when the intent is discarded
\* because neither the folded nor the clamped time fits the deadline.
Settle(t, deadline) ==
  IF FoldQuietHours(t) <= deadline
    THEN {FoldQuietHours(t)}
    ELSE {c \in {LastAllowedBeforeQuiet(t)} : c < deadline}

Folded(deadline) ==
  UNION {{[type |-> type, trigger |-> c] :
            c \in Settle(deadline - Offset(type), deadline)} :
         type \in ReminderType}

\* Mutant: the distance to the trigger is not looked at.
KeptAtAnyLead(deadline, now) ==
  {d \in Folded(deadline) : d.trigger <= deadline /\ ~InsideQuietHours(d.trigger)}

\* Mutant: what is too near is taken for what is far enough.
KeptNear(deadline, now) ==
  {d \in Folded(deadline) :
     /\ d.trigger <= deadline
     /\ ~InsideQuietHours(d.trigger)
     /\ d.trigger >= now
     /\ d.trigger - now <= MinLead}

Kept(deadline, now) ==
  {d \in Folded(deadline) :
     /\ d.trigger <= deadline
     /\ ~InsideQuietHours(d.trigger)
     /\ d.trigger >= now
     /\ d.trigger - now >= MinLead}

Precedence(type) ==
  CASE type = "day_before"   -> 0
    [] type = "hours_before" -> 1
    [] type = "deadline"     -> 2

SameMinute(a, b) == a \div Minute = b \div Minute

\* Mutant: two intents of one minute silence each other.
OnePerMinuteStrict(S) ==
  {d \in S : \A e \in S \ {d} : SameMinute(d.trigger, e.trigger)
                                  => Precedence(d.type) < Precedence(e.type) - 1}

\* One reminder a minute, the one of lowest precedence number.
OnePerMinute(S) ==
  {d \in S : \A e \in S : SameMinute(d.trigger, e.trigger)
                            => Precedence(d.type) <= Precedence(e.type)}

PlanDesiredReminders(status, deadline, now) ==
  IF deadline = None \/ status # "pending" THEN {}
  ELSE OnePerMinute(Kept(deadline, now))

=============================================================================
