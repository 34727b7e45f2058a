---------------------------- MODULE PolicyProofs ----------------------------
(***************************************************************************)
(* Proofs about the planning policy, for a day, a quiet window, offsets    *)
(* and a lead of any length, and for a clock without an end.               *)
(***************************************************************************)
EXTENDS MCReminderPolicy, FiniteSetTheorems, TLAPS

-----------------------------------------------------------------------------
(* Arithmetic of days and hours                                            *)

LEMMA PolicyConstants ==
  /\ HoursPerDay \in Nat \ {0} /\ Hour \in Nat \ {0} /\ Minute \in Nat \ {0}
  /\ QuietStart \in 0 .. HoursPerDay - 1 /\ QuietEnd \in 0 .. HoursPerDay - 1
  /\ QuietStart > QuietEnd
  /\ DayBefore \in Nat /\ HoursBefore \in Nat /\ MinLead \in Nat
  /\ Day \in Nat \ {0} /\ Day = HoursPerDay * Hour
<1>1. HoursPerDay * Hour \in Nat \ {0}
  BY PolicyAssumption
<1> QED
  BY <1>1, PolicyAssumption DEF Day

LEMMA QuotientOfSum ==
  ASSUME NEW m \in Int, NEW h \in Nat \ {0}, NEW s \in 0 .. h - 1
  PROVE  (h * m + s) \div h = m
OBVIOUS

LEMMA ProductOfSum ==
  ASSUME NEW p \in Int, NEW h \in Int, NEW k \in Int, NEW q \in Int, NEW s \in Int
  PROVE  (p * h) * k + (h * q + s) = h * (p * k + q) + s
OBVIOUS

LEMMA DaysOf ==
  ASSUME NEW t \in Int, NEW p \in Nat \ {0}
  PROVE  /\ t \div p \in Int /\ p * (t \div p) \in Int
         /\ t % p \in 0 .. p - 1
         /\ t = p * (t \div p) + (t % p)
OBVIOUS

LEMMA NextMultiple ==
  ASSUME NEW p \in Int, NEW k \in Int
  PROVE  p * (k + 1) = p * k + p /\ p * k \in Int /\ p * (k + 1) \in Int
OBVIOUS

LEMMA RemainderOfSum ==
  ASSUME NEW k \in Int, NEW p \in Nat \ {0}, NEW q \in 0 .. p - 1
  PROVE  (p * k + q) % p = q
OBVIOUS

\* Midnight is a whole number of days, at most one day before.
LEMMA MidnightIsWhole ==
  ASSUME NEW t \in Int
  PROVE  /\ Midnight(t) = Day * (t \div Day)
         /\ Midnight(t) \in Int /\ Midnight(t) <= t /\ t < Midnight(t) + Day
BY PolicyConstants DEF Midnight

\* The hour of an instant is the hour of its place in the day.
LEMMA HourInDay ==
  ASSUME NEW k \in Int, NEW r \in 0 .. Day - 1
  PROVE  HourOf(Day * k + r) = r \div Hour
<1> DEFINE q == r \div Hour
           s == r % Hour
<1>1. /\ q \in Nat /\ s \in 0 .. Hour - 1 /\ r = Hour * q + s
  BY PolicyConstants
<1>2. q \in 0 .. HoursPerDay - 1
  <2>1. Hour * q < Hour * HoursPerDay
    BY <1>1, PolicyConstants
  <2>2. q < HoursPerDay
    BY <1>1, <2>1, PolicyConstants
  <2> QED
    BY <1>1, <2>2, PolicyConstants
<1>3. Day * k + r = Hour * (HoursPerDay * k + q) + s
  <2>1. (HoursPerDay * Hour) * k + (Hour * q + s) = Hour * (HoursPerDay * k + q) + s
    <3>1. /\ HoursPerDay \in Int /\ Hour \in Int /\ q \in Int /\ s \in Int
      BY <1>1, PolicyConstants
    <3> HIDE DEF q, s
    <3> QED
      BY <3>1, ProductOfSum
  <2> QED
    BY <1>1, <2>1, PolicyConstants
<1>4. HoursPerDay * k + q \in Int
  BY <1>1, PolicyConstants
<1>5. (Day * k + r) \div Hour = HoursPerDay * k + q
  <2> HIDE DEF q, s
  <2>1. (Hour * (HoursPerDay * k + q) + s) \div Hour = HoursPerDay * k + q
    BY <1>1, <1>4, QuotientOfSum, PolicyConstants
  <2> QED
    BY <1>3, <2>1
<1>6. (HoursPerDay * k + q) % HoursPerDay = q
  BY <1>2, RemainderOfSum, PolicyConstants
<1> QED
  BY <1>5, <1>6 DEF HourOf

\* The quiet hours of a day are its ticks before one tick and from another on.
LEMMA QuietInDay ==
  ASSUME NEW k \in Int, NEW r \in 0 .. Day - 1
  PROVE  InsideQuietHours(Day * k + r)
           <=> r >= QuietStart * Hour \/ r < QuietEnd * Hour
<1> DEFINE q == r \div Hour
<1>1. /\ q \in Nat /\ Hour * q <= r /\ r < Hour * (q + 1)
  BY PolicyConstants
<1>2. ASSUME NEW h \in Nat
      PROVE  q < h <=> r < h * Hour
  <2>1. ASSUME q < h PROVE r < h * Hour
    <3>1. Hour * (q + 1) <= Hour * h
      BY <1>1, <2>1, PolicyConstants
    <3> QED
      BY <1>1, <3>1, PolicyConstants
  <2>2. ASSUME r < h * Hour, h <= q PROVE FALSE
    <3>1. Hour * h <= Hour * q
      BY <1>1, <2>2, PolicyConstants
    <3> QED
      BY <1>1, <2>2, <3>1, PolicyConstants
  <2> QED
    BY <1>1, <2>1, <2>2
<1>3. QuietStart \in Nat /\ QuietEnd \in Nat
  BY PolicyConstants
<1>4. /\ q < QuietStart <=> r < QuietStart * Hour
      /\ q < QuietEnd <=> r < QuietEnd * Hour
  BY <1>2, <1>3
<1>5. QuietStart * Hour \in Int
  BY PolicyConstants
<1> QED
  BY <1>1, <1>3, <1>4, <1>5, HourInDay DEF InsideQuietHours

-----------------------------------------------------------------------------
(* What the planner computes                                               *)

LEMMA OffsetIsNat ==
  ASSUME NEW type \in ReminderType
  PROVE  Offset(type) \in Nat
BY PolicyConstants DEF ReminderType, Offset

\* A trigger is an instant, and an intent has at most one.
LEMMA SettleIsSingle ==
  ASSUME NEW t \in Int, NEW dl \in Int
  PROVE  /\ FoldQuietHours(t) \in Int
         /\ Settle(t, dl) \subseteq Int
         /\ \A a, b \in Settle(t, dl) : a = b
<1>1. Midnight(t) \in Int
  BY MidnightIsWhole
<1>2. /\ QuietEnd * Hour \in Int
      /\ QuietStart * Hour \in Int
  BY PolicyConstants
<1>3. FoldQuietHours(t) \in Int
  BY <1>1, <1>2, PolicyConstants DEF FoldQuietHours
<1>4. LastAllowedBeforeQuiet(t) \in Int
  BY <1>1, <1>2 DEF LastAllowedBeforeQuiet
<1> QED
  BY <1>3, <1>4 DEF Settle

\* The intents of a plan are told apart by their type.
LEMMA FoldedByType ==
  ASSUME NEW dl \in Int
  PROVE  /\ \A d \in Folded(dl) :
              /\ d = [type |-> d.type, trigger |-> d.trigger]
              /\ d.type \in ReminderType
              /\ d.trigger \in Int
         /\ \A d, e \in Folded(dl) : d.type = e.type => d = e
<1>1. ASSUME NEW d \in Folded(dl)
      PROVE  /\ d = [type |-> d.type, trigger |-> d.trigger]
             /\ d.type \in ReminderType
             /\ d.trigger \in Settle(dl - Offset(d.type), dl)
  BY DEF Folded
<1>2. ASSUME NEW type \in ReminderType
      PROVE  dl - Offset(type) \in Int
  BY OffsetIsNat
<1>3. ASSUME NEW d \in Folded(dl)
      PROVE  d.trigger \in Int
  BY <1>1, <1>2, SettleIsSingle
<1>4. ASSUME NEW d \in Folded(dl), NEW e \in Folded(dl), d.type = e.type
      PROVE  d = e
  <2>1. d.trigger = e.trigger
    BY <1>1, <1>2, <1>4, SettleIsSingle
  <2> QED
    BY <1>1, <1>4, <2>1
<1> QED
  BY <1>1, <1>3, <1>4

LEMMA PrecedenceIsOwn ==
  /\ \A type \in ReminderType : Precedence(type) \in 0 .. 2
  /\ \A x, y \in ReminderType : Precedence(x) = Precedence(y) => x = y
<1>1. /\ Precedence("day_before") = 0
      /\ Precedence("hours_before") = 1
      /\ Precedence("deadline") = 2
  BY DEF Precedence
<1> QED
  BY <1>1 DEF ReminderType

\* Two reminders of a plan are never in the same minute.
LEMMA OnePerMinuteIsOne ==
  ASSUME NEW dl \in Int, NEW nw \in Int,
         NEW d \in OnePerMinute(Kept(dl, nw)),
         NEW e \in OnePerMinute(Kept(dl, nw)),
         SameMinute(d.trigger, e.trigger)
  PROVE  d = e
<1>1. d \in Folded(dl) /\ e \in Folded(dl)
  BY DEF OnePerMinute, Kept
<1>2. SameMinute(e.trigger, d.trigger)
  BY DEF SameMinute
<1>3. /\ Precedence(d.type) <= Precedence(e.type)
      /\ Precedence(e.type) <= Precedence(d.type)
  BY <1>2 DEF OnePerMinute
<1>4. d.type = e.type
  BY <1>1, <1>3, FoldedByType, PrecedenceIsOwn
<1> QED
  BY <1>1, <1>4, FoldedByType

\* A minute some intent reaches keeps one of its intents.
LEMMA MinuteIsKept ==
  ASSUME NEW dl \in Int, NEW nw \in Int, NEW d \in Kept(dl, nw)
  PROVE  \E e \in OnePerMinute(Kept(dl, nw)) : SameMinute(d.trigger, e.trigger)
<1> DEFINE K == Kept(dl, nw)
           Here == {e \in K : SameMinute(d.trigger, e.trigger)}
<1>1. K \subseteq Folded(dl)
  BY DEF Kept
<1>2. d \in Here
  BY DEF SameMinute
<1>3. \A e \in Here : Precedence(e.type) \in 0 .. 2
  BY <1>1, FoldedByType, PrecedenceIsOwn
<1>4. \E e \in Here : \A f \in Here : Precedence(e.type) <= Precedence(f.type)
  <2>1. CASE \E e \in Here : Precedence(e.type) = 0
    BY <1>3, <2>1
  <2>2. CASE /\ ~ \E e \in Here : Precedence(e.type) = 0
             /\ \E e \in Here : Precedence(e.type) = 1
    BY <1>3, <2>2
  <2>3. CASE /\ ~ \E e \in Here : Precedence(e.type) = 0
             /\ ~ \E e \in Here : Precedence(e.type) = 1
    BY <1>2, <1>3, <2>3
  <2> QED
    BY <2>1, <2>2, <2>3
<1>5. PICK e \in Here : \A f \in Here : Precedence(e.type) <= Precedence(f.type)
  BY <1>4
<1>6. \A f \in K : SameMinute(e.trigger, f.trigger) => f \in Here
  BY <1>5 DEF SameMinute
<1> QED
  BY <1>5, <1>6 DEF OnePerMinute

-----------------------------------------------------------------------------
(* The states of the run                                                   *)

TypeInv == deadline \in Int /\ now \in Nat

LEMMA Typed == Spec => []TypeInv
<1>1. Init => TypeInv
  BY DEF Init, TypeInv
<1>2. TypeInv /\ [Tick]_vars => TypeInv'
  BY DEF TypeInv, Tick, vars
<1> QED
  BY <1>1, <1>2, PTL DEF Spec

LEMMA PlanIsOnePerMinute ==
  ASSUME TypeInv
  PROVE  /\ Plan \subseteq OnePerMinute(Kept(deadline, now))
         /\ None \notin Int => Plan = OnePerMinute(Kept(deadline, now))
BY DEF TypeInv, Plan, PlanDesiredReminders

\* The plan never breaks the three hard rules of the policy: no reminder after
\* the deadline, inside the quiet hours or nearer than the lead, and never two
\* in one minute.
THEOREM HardTheorem == Spec => []HardInvariants
<1>1. TypeInv => HardInvariants
  <2> SUFFICES ASSUME TypeInv PROVE HardInvariants
    OBVIOUS
  <2>0. deadline \in Int /\ now \in Int
    BY DEF TypeInv
  <2>1. ASSUME NEW d \in Plan
        PROVE  /\ d.trigger <= deadline
               /\ ~InsideQuietHours(d.trigger)
               /\ d.trigger >= now + MinLead
    <3>1. d \in Kept(deadline, now)
      BY PlanIsOnePerMinute DEF OnePerMinute
    <3>2. d.trigger \in Int
      BY <2>0, <3>1, FoldedByType DEF Kept
    <3> QED
      BY <2>0, <3>1, <3>2, PolicyConstants DEF Kept
  <2>2. ASSUME NEW d \in Plan, NEW e \in Plan,
               d.trigger \div Minute = e.trigger \div Minute
        PROVE  d = e
    BY <2>0, <2>2, PlanIsOnePerMinute, OnePerMinuteIsOne DEF SameMinute
  <2> QED
    BY <2>1, <2>2 DEF HardInvariants
<1> QED
  BY <1>1, Typed, PTL

\* The collapse of a minute never silences a minute that some intent reaches.
THEOREM CollapseTheorem ==
  ASSUME None \notin Int
  PROVE  Spec => []CollapseKeepsEveryMinute
<1>1. TypeInv => CollapseKeepsEveryMinute
  <2> SUFFICES ASSUME TypeInv, NEW d \in Kept(deadline, now)
               PROVE  Cardinality({e \in Plan : SameMinute(d.trigger, e.trigger)}) = 1
    BY DEF CollapseKeepsEveryMinute
  <2>0. deadline \in Int /\ now \in Int
    BY DEF TypeInv
  <2>1. Plan = OnePerMinute(Kept(deadline, now))
    BY PlanIsOnePerMinute
  <2>2. PICK e \in Plan : SameMinute(d.trigger, e.trigger)
    BY <2>0, <2>1, MinuteIsKept
  <2>3. \A f \in Plan : SameMinute(d.trigger, f.trigger) => SameMinute(e.trigger, f.trigger)
    BY <2>2 DEF SameMinute
  <2>4. \A f \in Plan : SameMinute(d.trigger, f.trigger) => f = e
    BY <2>0, <2>1, <2>3, OnePerMinuteIsOne
  <2>5. {f \in Plan : SameMinute(d.trigger, f.trigger)} = {e}
    BY <2>2, <2>4
  <2> QED
    BY <2>5, FS_Singleton
<1> QED
  BY <1>1, Typed, PTL

-----------------------------------------------------------------------------
(* Folding and clamping                                                   *)

LEMMA QuietBounds ==
  /\ QuietEnd * Hour \in Nat /\ QuietStart * Hour \in Nat
  /\ QuietEnd * Hour < QuietStart * Hour
  /\ QuietStart * Hour < Day
BY PolicyConstants

\* A trigger is folded less than a day ahead, out of the quiet hours, past
\* quiet hours only.
LEMMA FoldIsAllowed ==
  ASSUME NEW t \in Int
  PROVE  LET f == FoldQuietHours(t)
         IN  /\ f \in Int /\ t <= f /\ f <= t + Day
             /\ ~InsideQuietHours(f)
             /\ \A u \in t .. f - 1 : InsideQuietHours(u)
<1> DEFINE k == t \div Day
           r == t - Day * k
           e == QuietEnd * Hour
           s == QuietStart * Hour
           f == FoldQuietHours(t)
<1>1. /\ k \in Int /\ Day * k \in Int
      /\ r \in 0 .. Day - 1 /\ t = Day * k + r
      /\ Midnight(t) = Day * k
  <2>1. /\ k \in Int /\ Day * k \in Int
        /\ t % Day \in 0 .. Day - 1
        /\ t = Day * k + (t % Day)
    BY DaysOf, PolicyConstants
  <2>2. Midnight(t) = Day * k
    BY MidnightIsWhole
  <2>3. Day \in Int /\ t % Day \in Int
    BY <2>1, PolicyConstants
  <2> HIDE DEF k
  <2>4. r = t % Day
    BY <2>1, <2>3
  <2> QED
    BY <2>1, <2>2, <2>4
<1>2. Day \in Nat /\ e \in Nat /\ s \in Nat /\ e < s /\ s < Day
  BY QuietBounds, PolicyConstants
<1> HIDE DEF k, r, e, s
<1>3. InsideQuietHours(t) <=> r >= s \/ r < e
  BY <1>1, QuietInDay DEF e, s
<1>4. k + 1 \in Int /\ Day * (k + 1) = Day * k + Day /\ Day * (k + 1) \in Int
  BY <1>1, <1>2, NextMultiple
<1>5. ~InsideQuietHours(Day * k + e) /\ ~InsideQuietHours(Day * (k + 1) + e)
  <2>1. e \in 0 .. Day - 1
    BY <1>2
  <2>2. ASSUME NEW j \in Int PROVE ~InsideQuietHours(Day * j + e)
    <3>1. InsideQuietHours(Day * j + e) <=> e >= QuietStart * Hour \/ e < QuietEnd * Hour
      BY <2>1, QuietInDay
    <3>2. QuietStart * Hour = s /\ QuietEnd * Hour = e
      BY DEF e, s
    <3> QED
      BY <1>2, <3>1, <3>2
  <2> QED
    BY <1>1, <1>4, <2>2
<1>6. CASE ~InsideQuietHours(t)
  <2>1. f = t
    BY <1>6 DEF FoldQuietHours
  <2> QED
    BY <1>2, <1>6, <2>1
<1>7. CASE InsideQuietHours(t) /\ r < e
  <2>1. f = Day * k + e
    BY <1>1, <1>2, <1>7 DEF FoldQuietHours, e
  <2>2. ASSUME NEW u \in t .. f - 1 PROVE InsideQuietHours(u)
    <3>1. u - Day * k \in 0 .. Day - 1 /\ u - Day * k < e
      BY <1>1, <1>2, <2>1
    <3>2. u = Day * k + (u - Day * k)
      BY <1>1
    <3> QED
      BY <1>1, <3>1, <3>2, QuietInDay DEF e
  <2> QED
    BY <1>1, <1>2, <1>5, <1>7, <2>1, <2>2
<1>8. CASE InsideQuietHours(t) /\ r >= s
  <2>1. f = Day * (k + 1) + e
    BY <1>1, <1>2, <1>4, <1>8 DEF FoldQuietHours, e
  <2>2. ASSUME NEW u \in t .. f - 1, u < Day * (k + 1) PROVE InsideQuietHours(u)
    <3>1. u - Day * k \in 0 .. Day - 1 /\ u - Day * k >= s
      BY <1>1, <1>2, <1>4, <1>8, <2>2
    <3>2. u = Day * k + (u - Day * k)
      BY <1>1
    <3> QED
      BY <1>1, <3>1, <3>2, QuietInDay DEF s
  <2>3. ASSUME NEW u \in t .. f - 1, u >= Day * (k + 1) PROVE InsideQuietHours(u)
    <3>1. u - Day * (k + 1) \in 0 .. Day - 1 /\ u - Day * (k + 1) < e
      BY <1>1, <1>2, <1>4, <2>1, <2>3
    <3>2. u = Day * (k + 1) + (u - Day * (k + 1))
      BY <1>1, <1>4
    <3> QED
      BY <1>4, <3>1, <3>2, QuietInDay DEF e
  <2>4. \A u \in t .. f - 1 : InsideQuietHours(u)
    BY <1>1, <1>2, <1>4, <2>1, <2>2, <2>3
  <2> QED
    BY <1>1, <1>2, <1>4, <1>5, <1>8, <2>1, <2>4
<1> QED
  BY <1>3, <1>6, <1>7, <1>8

\* When the fold passes the deadline, the intent lies in a window that the
\* deadline does not leave: the clamp is the last allowed instant of the day
\* up to the intent, or past the deadline when the day has none.
LEMMA ClampIsLastAllowed ==
  ASSUME NEW t \in Int, NEW dl \in Int, t <= dl, dl < FoldQuietHours(t)
  PROVE  LET behind == {u \in Midnight(t) .. t : ~InsideQuietHours(u)}
         IN  {c \in {LastAllowedBeforeQuiet(t)} : c < dl}
               = {u \in behind : \A v \in behind : v <= u}
<1> DEFINE k == t \div Day
           r == t - Day * k
           e == QuietEnd * Hour
           s == QuietStart * Hour
           c == LastAllowedBeforeQuiet(t)
           behind == {u \in Midnight(t) .. t : ~InsideQuietHours(u)}
<1>1. /\ k \in Int /\ Day * k \in Int
      /\ Midnight(t) = Day * k
  BY DaysOf, MidnightIsWhole, PolicyConstants
<1>2. /\ Midnight(t) \in Int /\ Midnight(t) <= t /\ t < Midnight(t) + Day
  BY MidnightIsWhole
<1>3. Day \in Nat /\ e \in Nat /\ s \in Nat /\ e < s /\ s < Day
  BY QuietBounds, PolicyConstants
<1>4. c = Day * k + s - 1
  BY <1>1 DEF LastAllowedBeforeQuiet
<1> HIDE DEF k, e, s, c
<1>5. r \in 0 .. Day - 1 /\ t = Day * k + r
  BY <1>1, <1>2, <1>3
<1> HIDE DEF r
<1>6. ASSUME NEW u \in Day * k .. Day * k + Day - 1
      PROVE  InsideQuietHours(u) <=> u >= Day * k + s \/ u < Day * k + e
  <2>1. u - Day * k \in 0 .. Day - 1 /\ u = Day * k + (u - Day * k)
    BY <1>1, <1>3
  <2>2. InsideQuietHours(u) <=> u - Day * k >= s \/ u - Day * k < e
    BY <1>1, <2>1, QuietInDay DEF s, e
  <2> QED
    BY <1>1, <1>3, <2>1, <2>2
<1>7. InsideQuietHours(t)
  BY DEF FoldQuietHours
<1>8. r >= s \/ r < e
  BY <1>1, <1>3, <1>5, <1>6, <1>7
<1>9. CASE r >= s
  <2>1. c \in behind
    BY <1>1, <1>3, <1>4, <1>5, <1>6, <1>9
  <2>2. \A v \in behind : v <= c
    BY <1>1, <1>3, <1>4, <1>5, <1>6, <1>9
  <2>3. c < dl
    BY <1>1, <1>3, <1>4, <1>5, <1>9
  <2>4. \A u \in behind : u \in Int
    BY <1>1
  <2>5. \A u \in behind : (\A v \in behind : v <= u) => u = c
    BY <2>1, <2>2, <2>4
  <2> QED
    BY <2>1, <2>2, <2>3, <2>5 DEF c
<1>10. CASE r < e
  <2>1. behind = {}
    BY <1>1, <1>3, <1>5, <1>6, <1>10
  <2>2. dl < Day * k + e
    BY <1>1, <1>3, <1>5, <1>7, <1>10 DEF FoldQuietHours, e
  <2>3. ~(c < dl)
    BY <1>1, <1>3, <1>4, <2>2
  <2> QED
    BY <2>1, <2>3 DEF c
<1> QED
  BY <1>8, <1>9, <1>10

\* Fold, clamp and discard together put every intent of every deadline where a
\* search for the nearest allowed instant does, or nowhere when it finds none.
THEOREM SettleTheorem == Spec => []SettleIsNearestAllowed
<1>1. TypeInv => SettleIsNearestAllowed
  <2> SUFFICES ASSUME TypeInv, NEW type \in ReminderType
               PROVE  Settle(deadline - Offset(type), deadline)
                        = Searched(deadline - Offset(type))
    BY DEF SettleIsNearestAllowed
  <2> DEFINE t == deadline - Offset(type)
             f == FoldQuietHours(t)
             ahead == {u \in t .. deadline : ~InsideQuietHours(u)}
  <2>1. deadline \in Int /\ t \in Int /\ t <= deadline
    BY OffsetIsNat DEF TypeInv
  <2>2. /\ f \in Int /\ t <= f
        /\ ~InsideQuietHours(f)
        /\ \A u \in t .. f - 1 : InsideQuietHours(u)
    BY <2>1, FoldIsAllowed
  <2> HIDE DEF t, f
  <2>3. CASE f <= deadline
    <3>1. f \in ahead /\ \A v \in ahead : f <= v
      BY <2>1, <2>2, <2>3
    <3>2. {u \in ahead : \A v \in ahead : u <= v} = {f}
      BY <2>1, <2>2, <3>1
    <3>3. Searched(t) = {f}
      BY <3>1, <3>2 DEF Searched
    <3>4. Settle(t, deadline) = {f}
      BY <2>3 DEF Settle, f
    <3> QED
      BY <3>3, <3>4 DEF t
  <2>4. CASE deadline < f
    <3>1. ahead = {}
      BY <2>1, <2>2, <2>4
    <3>2. Settle(t, deadline) = {c \in {LastAllowedBeforeQuiet(t)} : c < deadline}
      BY <2>1, <2>2, <2>4 DEF Settle, f
    <3>3. Searched(t) = {c \in {LastAllowedBeforeQuiet(t)} : c < deadline}
      BY <2>1, <2>4, <3>1, ClampIsLastAllowed DEF Searched, f
    <3> QED
      BY <3>2, <3>3 DEF t
  <2> QED
    BY <2>1, <2>2, <2>3, <2>4
<1> QED
  BY <1>1, Typed, PTL

\* With the first reminder a day or more ahead of the deadline, a deadline
\* that is further away than that and the lead always has a reminder.
THEOREM FarDeadlineTheorem ==
  ASSUME None \notin Int, DayBefore >= Day
  PROVE  Spec => []FarDeadlineIsNeverSilent
<1>1. TypeInv => FarDeadlineIsNeverSilent
  <2> SUFFICES ASSUME TypeInv, now + DayBefore + MinLead <= deadline
               PROVE  Plan # {}
    BY DEF FarDeadlineIsNeverSilent
  <2> DEFINE t == deadline - DayBefore
             f == FoldQuietHours(t)
             d == [type |-> "day_before", trigger |-> f]
  <2>0. deadline \in Int /\ now \in Int /\ t \in Int
    BY PolicyConstants DEF TypeInv
  <2>1. /\ f \in Int /\ t <= f /\ f <= t + Day
        /\ ~InsideQuietHours(f)
    BY <2>0, FoldIsAllowed
  <2>2. f <= deadline /\ f >= now /\ f - now >= MinLead
    BY <2>0, <2>1, PolicyConstants
  <2>3. t = deadline - Offset("day_before") /\ "day_before" \in ReminderType
    BY DEF Offset, ReminderType
  <2>4. f \in Settle(t, deadline)
    BY <2>2 DEF Settle
  <2>5. d \in Folded(deadline)
    BY <2>3, <2>4 DEF Folded
  <2>6. d \in Kept(deadline, now)
    BY <2>1, <2>2, <2>5 DEF Kept
  <2>7. Plan = OnePerMinute(Kept(deadline, now))
    BY PlanIsOnePerMinute
  <2> QED
    BY <2>0, <2>6, <2>7, MinuteIsKept
<1> QED
  BY <1>1, Typed, PTL

\* While a task is left alone, time only takes reminders away from its plan.
THEOREM ShrinkTheorem == Spec => PlanOnlyShrinks
<1>1. TypeInv /\ [Tick]_vars =>
        [\A d \in Plan' : \E e \in Plan : SameMinute(d.trigger, e.trigger)]_vars
  <2> SUFFICES ASSUME TypeInv, Tick, NEW d \in Plan'
               PROVE  \E e \in Plan : SameMinute(d.trigger, e.trigger)
    OBVIOUS
  <2>0. /\ deadline \in Int /\ now \in Int
        /\ deadline' = deadline /\ now' = now + 1
    BY DEF TypeInv, Tick
  <2>1. /\ deadline # None
        /\ d \in OnePerMinute(Kept(deadline, now + 1))
    BY <2>0 DEF Plan, PlanDesiredReminders
  <2>2. d \in Kept(deadline, now + 1)
    BY <2>1 DEF OnePerMinute
  <2>3. d.trigger \in Int
    BY <2>0, <2>2, FoldedByType DEF Kept
  <2>4. d \in Kept(deadline, now)
    BY <2>0, <2>2, <2>3, PolicyConstants DEF Kept
  <2>5. Plan = OnePerMinute(Kept(deadline, now))
    BY <2>1 DEF Plan, PlanDesiredReminders
  <2> QED
    BY <2>0, <2>4, <2>5, MinuteIsKept
<1> QED
  BY <1>1, Typed, PTL DEF Spec, PlanOnlyShrinks

=============================================================================
