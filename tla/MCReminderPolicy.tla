-------------------------- MODULE MCReminderPolicy --------------------------
(***************************************************************************)
(* Evaluates the planning policy for every deadline of two days and every  *)
(* instant before it: a task is given one deadline, then the clock runs.   *)
(***************************************************************************)
EXTENDS ReminderPolicy, FiniteSets

CONSTANT Horizon  \* bound on the clock

VARIABLES deadline, now

vars == <<deadline, now>>

Init == deadline \in Day .. Horizon /\ now = 0

Tick == now < Horizon /\ now' = now + 1 /\ UNCHANGED deadline

Spec == Init /\ [][Tick]_vars

Plan == PlanDesiredReminders("pending", deadline, now)

\* The three hard invariants of the policy (lines 12-20 of the source) and
\* the collapse rule, said of the result and not of the filters that build
\* it: the last clamp and the defensive filters must agree on every input.
HardInvariants ==
  /\ \A d \in Plan : /\ d.trigger <= deadline
                     /\ ~InsideQuietHours(d.trigger)
                     /\ d.trigger >= now + MinLead
  /\ \A d, e \in Plan : d.trigger \div Minute = e.trigger \div Minute => d = e

\* Where a search puts an intent of instant t: on the first allowed instant
\* from t to the deadline; if there is none, on the last allowed instant of the
\* day of t up to t; if there is none either, nowhere.
Searched(t) ==
  LET ahead  == {u \in t .. deadline : ~InsideQuietHours(u)}
      behind == {u \in Midnight(t) .. t : ~InsideQuietHours(u)}
  IN  IF ahead # {}
        THEN {u \in ahead : \A v \in ahead : u <= v}
        ELSE {u \in behind : \A v \in behind : v <= u}

\* Fold, clamp and discard (lines 87-109 and 156-178 of the source) together
\* put every intent where the search does: the fold on the nearest allowed
\* instant ahead, the clamp on the last one before the window that swallowed
\* the intent and its deadline, and nothing for an intent of the small hours
\* whose deadline comes before the window ends.
SettleIsNearestAllowed ==
  \A type \in ReminderType :
    Settle(deadline - Offset(type), deadline) = Searched(deadline - Offset(type))

\* A deadline more than a day and the lead away is never silent: at least one
\* reminder is planned, however the quiet window swallows the intents.
FarDeadlineIsNeverSilent ==
  now + DayBefore + MinLead <= deadline => Plan # {}

\* The collapse of one minute never silences a minute some intent reaches:
\* the survivors cover exactly the minutes of the intents kept.
CollapseKeepsEveryMinute ==
  \A d \in Kept(deadline, now) :
    Cardinality({e \in Plan : SameMinute(d.trigger, e.trigger)}) = 1

\* While a task is left alone, time only takes intents away: a minute that
\* the plan does not reach now is not reached by the plan of a later instant.
PlanOnlyShrinks ==
  [][\A d \in Plan' : \E e \in Plan : SameMinute(d.trigger, e.trigger)]_vars

=============================================================================
