---------------------------- MODULE AgentProofs ----------------------------
(***************************************************************************)
(* Proofs about AgentRuntime, for any number of turns, threads, sources,   *)
(* places in the table and steps: what becomes of a proposal, that a       *)
(* conversation in use stays, and that the table keeps to its capacity.    *)
(***************************************************************************)
EXTENDS MCAgentRuntime, FiniteSetTheorems, TLAPS

Pc == {"new", "wait", "loop", "execute", "end"}

TurnRecord == [pc : Pc, thread : Threads \cup {None}, source : Sources \cup {None},
               word : Word \cup {None}, obj : Turns \cup {None},
               proposal : Turns \cup {None}, saw : Turns \cup {None},
               step : Nat, half : BOOLEAN]

Lock == [locked : BOOLEAN, waiters : Seq(Turns)]

\* A turn that was admitted knows its conversation.
Admission(r) == r.thread \in Threads /\ r.source \in Sources /\ r.obj \in Turns

\* What the proofs need of the types.
TypeInv ==
  /\ conv \in [Threads -> Turns \cup {None}]
  /\ pending \in [Threads -> Turns \cup {None}]
  /\ lock \in [Turns -> Lock]
  /\ turn \in [Turns -> TurnRecord]
  /\ runs \in [Turns -> Nat]
  /\ withdrawn \subseteq Turns
  /\ \A u \in Turns : turn[u].pc \in {"wait", "loop", "execute"} => Admission(turn[u])
  /\ \A u \in Turns : turn[u].pc = "wait" => turn[u].word \in Word

\* What is pending for a thread was proposed there by a turn that has ended,
\* and it was neither executed nor withdrawn.
PendingInv ==
  \A t \in Threads : pending[t] # None =>
    /\ turn[pending[t]].pc = "end" /\ turn[pending[t]].thread = t
    /\ runs[pending[t]] = 0 /\ pending[t] \notin withdrawn

\* Only the proposal of a turn that has ended is executed or withdrawn.
RunInv ==
  \A u \in Turns :
    /\ runs[u] <= 1
    /\ turn[u].pc # "end" => runs[u] = 0 /\ u \notin withdrawn

\* Who executes a proposal has the scope of the turn that made it.
ScopeInv ==
  \A u \in Turns : Executing(u) =>
    /\ turn[u].proposal \in Turns
    /\ turn[turn[u].proposal].pc = "end"
    /\ turn[turn[u].proposal].thread = turn[u].thread
    /\ turn[turn[u].proposal].source = turn[u].source

Busy(u) == turn[u].pc \in {"loop", "execute"}

\* A busy turn holds the lock of its conversation, alone.
LockInv ==
  \A u \in Turns : Busy(u) =>
    /\ lock[turn[u].obj].locked
    /\ \A v \in Turns : Busy(v) /\ turn[v].obj = turn[u].obj => v = u

Inv == TypeInv /\ PendingInv /\ RunInv /\ ScopeInv /\ LockInv

Started == {u \in Turns : turn[u].pc # "new"}

\* The table: every use was a turn's admission, and a new conversation takes a
\* free place or that of one it puts out.
TableInv ==
  /\ IsFiniteSet(Open) /\ Cardinality(Open) <= MaxThreads
  /\ uses \in Nat /\ uses <= Cardinality(Started)
  /\ lastUsed \in [Threads -> 0 .. uses]
  /\ bound \in [Threads -> Sources \cup {None}]
  /\ cut \subseteq Turns
  /\ \A u \in Turns : turn[u].step \in 0 .. MaxSteps

USE DEF Turns

-----------------------------------------------------------------------------
(* Lemmas                                                                  *)

\* What the proofs use of the assumption on the constants.
LEMMA NoneIsNobody == None \notin Turns /\ None \notin Threads
BY AgentAssumption

\* The queue of a lock without its first waiter.
LEMMA TailType ==
  ASSUME NEW S, NEW q \in Seq(S), q # <<>>
  PROVE  Tail(q) \in Seq(S)
OBVIOUS

\* The records that the actions build.
LEMMA EndRecord ==
  /\ Ended \in TurnRecord /\ Ended.pc = "end"
  /\ NoTurn \in TurnRecord /\ NoTurn.pc = "new"
BY DEF Ended, NoTurn, TurnRecord, Pc

\* How a turn goes on once it has its lock.
LEMMA Decided ==
  ASSUME NEW p \in Turns \cup {None}, NEW s, NEW w \in Word
  PROVE  /\ Decide(p, s, w).pc \in {"end", "loop", "execute"}
         /\ Decide(p, s, w).drop \in BOOLEAN
         /\ Decide(p, s, w).pc = "execute" =>
              p # None /\ turn[p].source = s /\ Decide(p, s, w).drop
              /\ ~Withdraws(p, s, w)
         /\ Withdraws(p, s, w) => p # None /\ Decide(p, s, w).drop
BY DEF Decide, Withdraws, Word

-----------------------------------------------------------------------------
(* One turn goes on                                                        *)

\* What a step of turn u may do to proposals, to executions and to what is
\* withdrawn: pending ones are dropped, u proposes when it ends, and what is
\* executed or withdrawn is pending no longer.
Harmless(u, r) ==
  /\ \A t \in Threads :
       \/ pending'[t] \in {pending[t], None}
       \/ pending'[t] = u /\ r.pc = "end" /\ r.thread = t
  /\ \A v \in Turns : runs'[v] # runs[v] =>
       /\ runs[v] = 0 /\ runs'[v] = 1 /\ turn[v].pc = "end"
       /\ \A t \in Threads : pending'[t] # v
  /\ \A v \in withdrawn' :
       \/ v \in withdrawn
       \/ v \in Turns /\ turn[v].pc = "end" /\ \A t \in Threads : pending'[t] # v

\* The locks that others hold stay with them, and u has its own if it is busy.
Exclusive(u, r) ==
  /\ \A v \in Turns \ {u} : Busy(v) =>
       /\ lock'[turn[v].obj].locked
       /\ r.pc \in {"loop", "execute"} => turn[v].obj # r.obj
  /\ r.pc \in {"loop", "execute"} => lock'[r.obj].locked

InScope(r) ==
  r.pc = "execute" =>
    /\ r.proposal \in Turns
    /\ turn[r.proposal].pc = "end"
    /\ turn[r.proposal].thread = r.thread
    /\ turn[r.proposal].source = r.source

\* A step in which turn u, that has not ended, becomes r keeps Inv if it is
\* harmless, keeps the locks and leaves u in its scope.
LEMMA OneTurn ==
  ASSUME Inv, NEW u \in Turns, turn[u].pc # "end", NEW r \in TurnRecord,
         r.pc \in {"wait", "loop", "execute"} => Admission(r),
         r.pc = "wait" => r.word \in Word,
         turn' = [turn EXCEPT ![u] = r],
         conv' \in [Threads -> Turns \cup {None}],
         pending' \in [Threads -> Turns \cup {None}],
         lock' \in [Turns -> Lock], runs' \in [Turns -> Nat],
         Harmless(u, r), Exclusive(u, r), InScope(r)
  PROVE  Inv'
<1>1. turn' \in [Turns -> TurnRecord]
      /\ \A v \in Turns : turn'[v] = IF v = u THEN r ELSE turn[v]
  BY DEF Inv, TypeInv
<1>2. TypeInv'
  <2>1. withdrawn' \subseteq Turns
    BY DEF Inv, TypeInv, Harmless
  <2> QED
    BY <1>1, <2>1 DEF Inv, TypeInv
<1>3. \A v \in Turns : turn[v].pc = "end" => v # u /\ turn'[v] = turn[v]
  BY <1>1
<1>4. PendingInv'
  <2>1. SUFFICES ASSUME NEW t \in Threads, pending'[t] # None
                 PROVE  /\ turn'[pending'[t]].pc = "end" /\ turn'[pending'[t]].thread = t
                        /\ runs'[pending'[t]] = 0 /\ pending'[t] \notin withdrawn'
    BY DEF PendingInv
  <2>2. pending'[t] \in Turns
    BY <2>1
  <2>3. CASE pending'[t] = pending[t]
    <3>1. /\ turn[pending[t]].pc = "end" /\ turn[pending[t]].thread = t
          /\ runs[pending[t]] = 0 /\ pending[t] \notin withdrawn
      BY <2>1, <2>3 DEF Inv, PendingInv
    <3> QED
      BY <1>3, <2>2, <2>3, <3>1 DEF Harmless
  <2>4. CASE pending'[t] = u /\ r.pc = "end" /\ r.thread = t
    <3>1. runs[u] = 0 /\ u \notin withdrawn
      BY DEF Inv, RunInv
    <3> QED
      BY <1>1, <2>4, <3>1 DEF Harmless
  <2> QED
    BY <2>1, <2>3, <2>4 DEF Harmless
<1>5. RunInv'
  BY <1>1, <1>2, <1>3 DEF Inv, TypeInv, RunInv, Harmless
<1>6. ScopeInv'
  BY <1>1, <1>3 DEF Inv, ScopeInv, Executing, InScope
<1>7. LockInv'
  <2>1. ASSUME NEW v \in Turns, Busy(v)'
        PROVE  lock'[turn'[v].obj].locked
    BY <1>1, <2>1 DEF Busy, Exclusive
  <2>2. ASSUME NEW v \in Turns, NEW w \in Turns, Busy(v)', Busy(w)', turn'[w].obj = turn'[v].obj
        PROVE  w = v
    BY <1>1, <2>2 DEF Inv, LockInv, Busy, Exclusive
  <2> QED
    BY <2>1, <2>2 DEF LockInv
<1> QED
  BY <1>2, <1>4, <1>5, <1>6, <1>7 DEF Inv

-----------------------------------------------------------------------------
(* The actions                                                             *)

\* A turn that gets its lock, before or after a wait.  The table's entries may
\* have lost what an eviction took.
LEMMA BeginStep ==
  ASSUME Inv, NEW u \in Turns, turn[u].pc \in {"new", "wait"},
         NEW r \in TurnRecord, r.pc = "wait", Admission(r), r.word \in Word,
         ~lock[r.obj].locked,
         NEW sources, NEW approvals \in [Threads -> Turns \cup {None}],
         \A t \in Threads : approvals[t] \in {pending[t], None},
         NEW waiters \in Seq(Turns), conv' \in [Threads -> Turns \cup {None}],
         Begin(u, r, sources, approvals, waiters)
  PROVE  Inv'
<1> DEFINE p == approvals[r.thread]
           d == Decide(p, r.source, r.word)
<1>1. p \in Turns \cup {None} /\ (p # None => p = pending[r.thread])
  BY NoneIsNobody DEF Admission
<1>2. /\ d.pc \in {"end", "loop", "execute"} /\ d.drop \in BOOLEAN
      /\ d.pc = "execute" => p # None /\ turn[p].source = r.source /\ d.drop
                             /\ ~Withdraws(p, r.source, r.word)
      /\ Withdraws(p, r.source, r.word) => p # None /\ d.drop
  BY <1>1, Decided
<1>3. p # None => /\ p \in Turns /\ turn[p].pc = "end" /\ turn[p].thread = r.thread
                  /\ runs[p] = 0 /\ p \notin withdrawn
  BY <1>1 DEF Inv, PendingInv, Admission
<1>4. /\ pending' = IF d.drop THEN [approvals EXCEPT ![r.thread] = None] ELSE approvals
      /\ lock' = [lock EXCEPT ![r.obj] = [locked |-> d.pc # "end", waiters |-> waiters]]
      /\ runs' = IF d.pc = "execute" THEN [runs EXCEPT ![p] = @ + 1] ELSE runs
      /\ withdrawn' = withdrawn \cup IF Withdraws(p, r.source, r.word) THEN {p} ELSE {}
  BY DEF Begin
<1>5. PICK half \in BOOLEAN :
        turn' = [turn EXCEPT ![u] =
            CASE d.pc = "end" -> Ended
              [] d.pc = "loop" -> [r EXCEPT !.pc = "loop", !.word = None, !.saw = None,
                                     !.step = 1, !.half = half]
              [] d.pc = "execute" -> [r EXCEPT !.pc = "execute", !.word = None, !.proposal = p]]
  BY DEF Begin, Halves
<1> HIDE DEF d, p
<1> DEFINE q == CASE d.pc = "end" -> Ended
                  [] d.pc = "loop" -> [r EXCEPT !.pc = "loop", !.word = None, !.saw = None,
                                         !.step = 1, !.half = half]
                  [] d.pc = "execute" -> [r EXCEPT !.pc = "execute", !.word = None, !.proposal = p]
<1>6. /\ q \in TurnRecord /\ q.pc = d.pc
      /\ q.pc # "end" => q.thread = r.thread /\ q.source = r.source /\ q.obj = r.obj
      /\ q.pc = "execute" => q.proposal = p
  <2>1. CASE d.pc = "end"
    <3>1. q = Ended
      BY <2>1
    <3> QED
      BY <2>1, <3>1, EndRecord
  <2>2. CASE d.pc = "loop"
    <3>1. q = [r EXCEPT !.pc = "loop", !.word = None, !.saw = None, !.step = 1, !.half = half]
      BY <2>2
    <3> HIDE DEF q
    <3> QED
      BY <2>2, <3>1 DEF TurnRecord, Pc
  <2>3. CASE d.pc = "execute"
    <3>1. q = [r EXCEPT !.pc = "execute", !.word = None, !.proposal = p]
      BY <2>3
    <3> HIDE DEF q
    <3> QED
      BY <1>1, <2>3, <3>1 DEF TurnRecord, Pc
  <2> QED
    BY <1>2, <2>1, <2>2, <2>3
<1>7. turn' = [turn EXCEPT ![u] = q]
  BY <1>5
<1> HIDE DEF q
<1>8. pending' \in [Threads -> Turns \cup {None}]
      /\ lock' \in [Turns -> Lock] /\ runs' \in [Turns -> Nat]
  <2>1. pending' \in [Threads -> Turns \cup {None}]
    BY <1>4
  <2>2. lock' \in [Turns -> Lock]
    <3>1. [locked |-> d.pc # "end", waiters |-> waiters] \in Lock
      BY DEF Lock
    <3> QED
      BY <1>4, <3>1 DEF Inv, TypeInv
  <2>3. runs' \in [Turns -> Nat]
    BY <1>2, <1>3, <1>4 DEF Inv, TypeInv
  <2> QED
    BY <2>1, <2>2, <2>3
<1>9. d.drop => \A t \in Threads : p # None => pending'[t] # p
  <2>1. SUFFICES ASSUME d.drop, NEW t \in Threads, p # None, pending'[t] = p
                 PROVE  FALSE
    OBVIOUS
  <2>2. t # r.thread /\ pending'[t] = approvals[t]
    BY <1>4, <2>1, NoneIsNobody DEF Admission
  <2>3. pending[t] = p
    BY <2>1, <2>2
  <2> QED
    BY <1>3, <2>1, <2>2, <2>3 DEF Inv, PendingInv
<1>10. Harmless(u, q)
  <2>1. \A t \in Threads : pending'[t] \in {pending[t], None}
    BY <1>4
  <2>2. \A v \in Turns : runs'[v] # runs[v] =>
          /\ runs[v] = 0 /\ runs'[v] = 1 /\ turn[v].pc = "end"
          /\ \A t \in Threads : pending'[t] # v
    <3>1. CASE d.pc = "execute"
      <4>1. p \in Turns /\ runs' = [runs EXCEPT ![p] = @ + 1]
        BY <1>2, <1>3, <1>4, <3>1
      <4>2. \A v \in Turns : runs'[v] = IF v = p THEN runs[p] + 1 ELSE runs[v]
        BY <4>1 DEF Inv, TypeInv
      <4> QED
        BY <1>2, <1>3, <1>9, <3>1, <4>2
    <3>2. CASE d.pc # "execute"
      BY <1>4, <3>2
    <3> QED
      BY <3>1, <3>2
  <2>3. \A v \in withdrawn' :
          \/ v \in withdrawn
          \/ v \in Turns /\ turn[v].pc = "end" /\ \A t \in Threads : pending'[t] # v
    <3>1. CASE Withdraws(p, r.source, r.word)
      <4>1. withdrawn' = withdrawn \cup {p}
        BY <1>4, <3>1
      <4>2. p \in Turns /\ turn[p].pc = "end" /\ \A t \in Threads : pending'[t] # p
        BY <1>2, <1>3, <1>9, <3>1
      <4> QED
        BY <4>1, <4>2
    <3>2. CASE ~Withdraws(p, r.source, r.word)
      BY <1>4, <3>2
    <3> QED
      BY <3>1, <3>2
  <2> QED
    BY <2>1, <2>2, <2>3 DEF Harmless
<1>11. Exclusive(u, q)
  <2>1. \A v \in Turns : Busy(v) => lock[turn[v].obj].locked /\ turn[v].obj \in Turns
    BY DEF Inv, LockInv, TypeInv, Admission, Busy
  <2>2. \A v \in Turns : Busy(v) => turn[v].obj # r.obj
    BY <2>1
  <2>3. lock' \in [Turns -> Lock] /\ r.obj \in Turns
    BY <1>8 DEF Admission
  <2> QED
    BY <1>4, <1>6, <2>1, <2>2, <2>3 DEF Inv, TypeInv, Exclusive
<1>12. InScope(q)
  BY <1>2, <1>3, <1>6 DEF InScope
<1>13. /\ q.pc \in {"wait", "loop", "execute"} => Admission(q)
       /\ q.pc = "wait" => q.word \in Word
  BY <1>2, <1>6 DEF Admission
<1> QED
  BY <1>6, <1>7, <1>8, <1>10, <1>11, <1>12, <1>13, OneTurn

\* Whoever is admitted goes on at once or queues; an eviction takes entries of
\* the table only.
LEMMA AdmittedStep ==
  ASSUME Inv, NEW u \in Turns, NEW t \in Threads, NEW s \in Sources, NEW w \in Word,
         NEW e \in Threads \cup {None}, Admitted(u, t, s, w, e)
  PROVE  Inv'
<1> DEFINE o == IF conv[t] = None THEN u ELSE conv[t]
           r == [NoTurn EXCEPT !.pc = "wait", !.thread = t, !.source = s, !.word = w, !.obj = o,
                              !.saw = pending[t]]
           approvals == [x \in Threads |-> IF x = e THEN None ELSE pending[x]]
           sources == [x \in Threads |-> IF x = e THEN None ELSE bound[x]]
<1>1. o \in Turns
  BY DEF Inv, TypeInv
<1>2. conv' \in [Threads -> Turns \cup {None}]
  BY <1>1 DEF Admitted, Inv, TypeInv
<1>3. turn[u].pc = "new"
  BY DEF Admitted, Arriving
<1>4. /\ r \in TurnRecord /\ r.pc = "wait" /\ Admission(r) /\ r.word \in Word
      /\ r.obj = o /\ r.thread = t
  BY <1>1, NoneIsNobody DEF NoTurn, TurnRecord, Pc, Admission, Inv, TypeInv
<1>5. CASE lock[o].locked \/ lock[o].waiters # <<>>
  <2>1. /\ turn' = [turn EXCEPT ![u] = r]
        /\ lock' = [lock EXCEPT ![o].waiters = Append(@, u)]
        /\ UNCHANGED <<bound, pending, cut, runs, withdrawn>>
    BY <1>5 DEF Admitted
  <2> HIDE DEF r, o
  <2>2. /\ lock' \in [Turns -> Lock]
        /\ \A x \in Turns : lock'[x].locked = lock[x].locked
    <3>1. lock[o] \in Lock
      BY <1>1 DEF Inv, TypeInv
    <3> DEFINE l == [lock[o] EXCEPT !.waiters = Append(@, u)]
    <3>2. l \in Lock /\ l.locked = lock[o].locked
      <4>1. Append(lock[o].waiters, u) \in Seq(Turns)
        BY <3>1 DEF Lock
      <4> QED
        BY <3>1, <4>1 DEF Lock
    <3>3. lock' = [lock EXCEPT ![o] = l]
      BY <2>1
    <3> HIDE DEF l
    <3> QED
      BY <1>1, <3>2, <3>3 DEF Inv, TypeInv
  <2>3. \A v \in Turns : Busy(v) => lock[turn[v].obj].locked /\ turn[v].obj \in Turns
    BY DEF Inv, LockInv, TypeInv, Admission, Busy
  <2>4. Harmless(u, r) /\ Exclusive(u, r) /\ InScope(r)
    BY <1>4, <2>1, <2>2, <2>3 DEF Harmless, Exclusive, InScope
  <2>5. /\ pending' \in [Threads -> Turns \cup {None}]
        /\ runs' \in [Turns -> Nat]
    BY <2>1 DEF Inv, TypeInv
  <2> QED
    BY <1>2, <1>3, <1>4, <2>1, <2>2, <2>4, <2>5, OneTurn
<1>6. CASE ~(lock[o].locked \/ lock[o].waiters # <<>>)
  <2>1. Begin(u, r, sources, approvals, <<>>)
    BY <1>6 DEF Admitted
  <2>2. /\ approvals \in [Threads -> Turns \cup {None}]
        /\ \A x \in Threads : approvals[x] \in {pending[x], None}
    BY DEF Inv, TypeInv
  <2>3. ~lock[r.obj].locked
    BY <1>4, <1>6
  <2> HIDE DEF r, o, approvals, sources
  <2>4. <<>> \in Seq(Turns)
    OBVIOUS
  <2> QED
    BY <1>2, <1>3, <1>4, <2>1, <2>2, <2>3, <2>4, BeginStep
<1> QED
  BY <1>5, <1>6

LEMMA WakeStep ==
  ASSUME Inv, NEW u \in Turns, Wake(u)
  PROVE  Inv'
<1>1. turn[u].pc = "wait" /\ ~lock[turn[u].obj].locked
      /\ Head(lock[turn[u].obj].waiters) = u
      /\ Begin(u, turn[u], bound, pending, Tail(lock[turn[u].obj].waiters))
      /\ conv' = conv
  BY DEF Wake, Awaited, table
<1>2. turn[u] \in TurnRecord /\ Admission(turn[u]) /\ turn[u].word \in Word
  BY <1>1 DEF Inv, TypeInv
<1>3. /\ lock[turn[u].obj].waiters \in Seq(Turns)
      /\ lock[turn[u].obj].waiters # <<>>
  <2>1. lock[turn[u].obj] \in Lock
    BY <1>2 DEF Inv, TypeInv, Admission
  <2> QED
    BY <2>1 DEF Lock, Wake, Awaited
<1>4. Tail(lock[turn[u].obj].waiters) \in Seq(Turns)
  BY <1>3, TailType
<1>5. /\ pending \in [Threads -> Turns \cup {None}]
      /\ conv' \in [Threads -> Turns \cup {None}]
  BY <1>1 DEF Inv, TypeInv
<1> QED
  BY <1>1, <1>2, <1>4, <1>5, BeginStep

\* A turn that holds its lock lets it go when it ends.
LEMMA FinishStep ==
  ASSUME Inv, NEW u \in Turns, Busy(u), NEW r \in TurnRecord, r.pc = "end", Finish(u, r),
         pending' \in [Threads -> Turns \cup {None}],
         \A t \in Threads : \/ pending'[t] = pending[t]
                            \/ pending'[t] = u /\ r.thread = t
  PROVE  Inv'
<1>1. /\ turn' = [turn EXCEPT ![u] = r]
      /\ lock' = [lock EXCEPT ![turn[u].obj].locked = FALSE]
      /\ conv' = conv /\ runs' = runs /\ withdrawn' = withdrawn
  BY DEF Finish, table
<1>2. turn[u].obj \in Turns /\ lock[turn[u].obj] \in Lock
  BY DEF Inv, TypeInv, Busy, Admission
<1>3. /\ lock' \in [Turns -> Lock]
      /\ \A x \in Turns : x # turn[u].obj => lock'[x] = lock[x]
  <2> DEFINE l == [lock[turn[u].obj] EXCEPT !.locked = FALSE]
  <2>1. l \in Lock
    BY <1>2 DEF Lock
  <2>2. lock' = [lock EXCEPT ![turn[u].obj] = l]
    BY <1>1
  <2> HIDE DEF l
  <2> QED
    BY <2>1, <2>2 DEF Inv, TypeInv
<1>4. \A v \in Turns \ {u} : Busy(v) =>
        turn[v].obj \in Turns \ {turn[u].obj} /\ lock[turn[v].obj].locked
  BY DEF Inv, LockInv, TypeInv, Admission, Busy
<1>5. Harmless(u, r) /\ Exclusive(u, r) /\ InScope(r)
  BY <1>1, <1>3, <1>4 DEF Harmless, Exclusive, InScope
<1>6. conv' \in [Threads -> Turns \cup {None}] /\ runs' \in [Turns -> Nat]
  BY <1>1 DEF Inv, TypeInv
<1> QED
  BY <1>1, <1>3, <1>5, <1>6, OneTurn DEF Busy

\* A turn that goes on or ends without touching a lock.
LEMMA AloneStep ==
  ASSUME Inv, NEW u \in Turns, NEW r \in TurnRecord,
         \/ turn[u].pc = "new" /\ r.pc = "end"
         \/ turn[u].pc = "loop" /\ r.pc = "loop",
         r.pc = "loop" => Admission(r) /\ r.obj = turn[u].obj,
         turn' = [turn EXCEPT ![u] = r], UNCHANGED <<conv, lock, runs>>,
         pending' \in [Threads -> Turns \cup {None}],
         \A t \in Threads : pending'[t] \in {pending[t], None},
         \A v \in withdrawn' :
           \/ v \in withdrawn
           \/ v \in Turns /\ turn[v].pc = "end" /\ \A t \in Threads : pending'[t] # v
  PROVE  Inv'
<1>1. Harmless(u, r) /\ InScope(r)
  BY DEF Harmless, InScope
<1>2. Exclusive(u, r)
  BY DEF Exclusive, Inv, LockInv, Busy
<1>3. /\ conv' \in [Threads -> Turns \cup {None}] /\ runs' \in [Turns -> Nat]
      /\ lock' \in [Turns -> Lock]
  BY DEF Inv, TypeInv
<1> QED
  BY <1>1, <1>2, <1>3, OneTurn

\* Every step keeps the invariant.
LEMMA NextInv == Inv /\ [Next]_vars => Inv'
<1> SUFFICES ASSUME Inv, [Next]_vars
             PROVE  Inv'
  OBVIOUS
<1>1. ASSUME NEW u \in Turns, NEW t \in Threads, NEW s \in Sources, Mismatched(u, t, s)
      PROVE  Inv'
  <2>1. pending[t] # None => pending[t] \in Turns /\ turn[pending[t]].pc = "end"
                             /\ \A x \in Threads : pending[x] = pending[t] => x = t
    BY DEF Inv, TypeInv, PendingInv
  <2>2. /\ pending' = [pending EXCEPT ![t] = None]
        /\ pending' \in [Threads -> Turns \cup {None}]
        /\ withdrawn' = withdrawn \cup ({pending[t]} \ {None})
    BY <1>1 DEF Mismatched, Inv, TypeInv
  <2>3. \A v \in withdrawn' :
          \/ v \in withdrawn
          \/ v \in Turns /\ turn[v].pc = "end" /\ \A x \in Threads : pending'[x] # v
    <3>1. SUFFICES ASSUME NEW v \in {pending[t]} \ {None}
                   PROVE  v \in Turns /\ turn[v].pc = "end" /\ \A x \in Threads : pending'[x] # v
      BY <2>2
    <3> QED
      BY <2>1, <2>2, <3>1 DEF Inv, TypeInv
  <2>4. \A x \in Threads : pending'[x] \in {pending[x], None}
    BY <2>2 DEF Inv, TypeInv
  <2> QED
    BY <1>1, <2>2, <2>3, <2>4, EndRecord, AloneStep DEF Mismatched, Arriving, table
<1>2. ASSUME NEW u \in Turns, NEW t \in Threads, Refused(u, t)
      PROVE  Inv'
  BY <1>2, EndRecord, AloneStep DEF Refused, Arriving, table, Inv, TypeInv
<1>3. ASSUME NEW u \in Turns, CallTools(u)
      PROVE  Inv'
  <2>1. PICK half \in {turn[u].half, FALSE} :
          turn' = [turn EXCEPT ![u].step = @ + 1, ![u].half = half]
    BY <1>3 DEF CallTools
  <2> DEFINE r == [turn[u] EXCEPT !.step = @ + 1, !.half = half]
  <2>2. turn[u] \in TurnRecord /\ turn[u].pc = "loop" /\ Admission(turn[u])
    BY <1>3 DEF CallTools, Inv, TypeInv
  <2>3. r \in TurnRecord /\ r.pc = "loop" /\ Admission(r) /\ r.obj = turn[u].obj
    <3>1. turn[u].step + 1 \in Nat /\ half \in BOOLEAN
      <4>1. turn[u].step \in Nat
        BY <2>2 DEF TurnRecord
      <4>2. turn[u].half \in BOOLEAN
        BY <2>2, Zenon DEF TurnRecord
      <4>3. half \in BOOLEAN
        BY <4>2, Zenon
      <4> QED
        BY <4>1, <4>3
    <3> QED
      BY <2>2, <3>1 DEF TurnRecord, Admission
  <2>4. turn' = [turn EXCEPT ![u] = r]
    BY <2>1
  <2> HIDE DEF r
  <2> QED
    BY <1>3, <2>2, <2>3, <2>4, AloneStep DEF CallTools, table, Inv, TypeInv
<1>4. ASSUME NEW u \in Turns, Reply(u) \/ Executed(u)
      PROVE  Inv'
  BY <1>4, EndRecord, FinishStep DEF Reply, Executed, Busy, Inv, TypeInv
<1>5. ASSUME NEW u \in Turns, Propose(u)
      PROVE  Inv'
  <2> DEFINE r == [Ended EXCEPT !.thread = turn[u].thread, !.source = turn[u].source]
  <2>1. Busy(u) /\ turn[u].thread \in Threads /\ turn[u].source \in Sources
    BY <1>5 DEF Propose, Busy, Inv, TypeInv, Admission
  <2>2. r \in TurnRecord /\ r.pc = "end" /\ r.thread = turn[u].thread
    BY <2>1, EndRecord DEF TurnRecord
  <2>3. Finish(u, r) /\ pending' = [pending EXCEPT ![turn[u].thread] = u]
    BY <1>5 DEF Propose
  <2> HIDE DEF r
  <2>4. pending' \in [Threads -> Turns \cup {None}]
        /\ \A t \in Threads : pending'[t] = IF t = turn[u].thread THEN u ELSE pending[t]
    BY <2>1, <2>3 DEF Inv, TypeInv
  <2> QED
    BY <2>1, <2>2, <2>3, <2>4, FinishStep
<1>6. CASE UNCHANGED vars
  BY <1>6 DEF vars, table, Inv, TypeInv, PendingInv, RunInv, ScopeInv, Executing, LockInv, Busy
<1> QED
  BY <1>1, <1>2, <1>3, <1>4, <1>5, <1>6, AdmittedStep, WakeStep DEF Next, Arrive, Resume

LEMMA InitInv == Init => Inv
BY EndRecord, NoneIsNobody
   DEF Init, Inv, TypeInv, PendingInv, RunInv, ScopeInv, Executing, LockInv, Busy, Lock

LEMMA AgentInvariant == Spec => []Inv
BY InitInv, NextInv, PTL DEF Spec

-----------------------------------------------------------------------------
(* Theorems                                                                *)

\* A proposal is executed once at most: _pending_approvals loses it at the
\* confirmation, before the execution, and nobody puts it back.
THEOREM ReplayTheorem == Spec => []NotReplayed
<1>1. Inv => NotReplayed
  BY DEF Inv, RunInv, NotReplayed
<1> QED
  BY <1>1, AgentInvariant, PTL

\* It is executed by a turn of the thread and source it was made in: the
\* source is looked at again after the wait for the lock.
THEOREM ScopeTheorem == Spec => []RunsInItsScope
<1>1. Inv => RunsInItsScope
  BY DEF Inv, ScopeInv, RunsInItsScope
<1> QED
  BY <1>1, AgentInvariant, PTL

\* Who gets its lock executes nothing that was withdrawn.
LEMMA BeginSpares ==
  ASSUME Inv, NEW u, NEW r, r.thread \in Threads, r.word \in Word,
         NEW sources, NEW approvals \in [Threads -> Turns \cup {None}],
         \A t \in Threads : approvals[t] \in {pending[t], None},
         NEW waiters, Begin(u, r, sources, approvals, waiters),
         NEW q \in withdrawn
  PROVE  runs'[q] = runs[q]
<1> DEFINE p == approvals[r.thread]
           d == Decide(p, r.source, r.word)
<1>1. p \in Turns \cup {None} /\ (p # None => p = pending[r.thread])
  BY NoneIsNobody
<1>2. d.pc = "execute" => p # None
  BY <1>1, Decided
<1>3. d.pc = "execute" => p \in Turns /\ p # q
  BY <1>1, <1>2 DEF Inv, PendingInv
<1>4. runs' = IF d.pc = "execute" THEN [runs EXCEPT ![p] = @ + 1] ELSE runs
  BY DEF Begin
<1>5. q \in Turns /\ runs \in [Turns -> Nat]
  BY DEF Inv, TypeInv
<1> QED
  BY <1>3, <1>4, <1>5

\* What the user rejected or left never runs afterwards, however many turns
\* of the thread are still waiting.
THEOREM WithdrawnTheorem == Spec => WithdrawnNeverRuns
<1> DEFINE Spared == \A p \in withdrawn : runs'[p] = runs[p]
<1>1. Inv /\ [Next]_vars => [Spared]_vars
  <2> SUFFICES ASSUME Inv, Next, NEW q \in withdrawn
               PROVE  runs'[q] = runs[q]
    OBVIOUS
  <2>1. ASSUME NEW u \in Turns, NEW t \in Threads, NEW s \in Sources, NEW w \in Word,
               NEW e \in Threads \cup {None}, Admitted(u, t, s, w, e)
        PROVE  runs'[q] = runs[q]
    <3> DEFINE o == IF conv[t] = None THEN u ELSE conv[t]
               r == [NoTurn EXCEPT !.pc = "wait", !.thread = t, !.source = s, !.word = w,
                                  !.obj = o, !.saw = pending[t]]
               approvals == [x \in Threads |-> IF x = e THEN None ELSE pending[x]]
               sources == [x \in Threads |-> IF x = e THEN None ELSE bound[x]]
    <3>1. runs' = runs \/ Begin(u, r, sources, approvals, <<>>)
      BY <2>1 DEF Admitted
    <3>2. /\ approvals \in [Threads -> Turns \cup {None}]
          /\ \A x \in Threads : approvals[x] \in {pending[x], None}
      BY DEF Inv, TypeInv
    <3>3. r.thread = t /\ r.word = w
      BY DEF NoTurn
    <3> HIDE DEF r, approvals, sources
    <3> QED
      BY <3>1, <3>2, <3>3, BeginSpares
  <2>2. ASSUME NEW u \in Turns, Wake(u)
        PROVE  runs'[q] = runs[q]
    <3>1. /\ turn[u].thread \in Threads /\ turn[u].word \in Word
          /\ pending \in [Threads -> Turns \cup {None}]
      BY <2>2 DEF Wake, Awaited, Inv, TypeInv, Admission
    <3> QED
      BY <2>2, <3>1, BeginSpares DEF Wake
  <2>3. ASSUME NEW u \in Turns, NEW t \in Threads, NEW s \in Sources,
               Mismatched(u, t, s) \/ Refused(u, t)
        PROVE  runs'[q] = runs[q]
    BY <2>3 DEF Mismatched, Refused
  <2>4. ASSUME NEW u \in Turns, CallTools(u) \/ Reply(u) \/ Propose(u) \/ Executed(u)
        PROVE  runs'[q] = runs[q]
    BY <2>4 DEF CallTools, Reply, Propose, Executed, Finish
  <2> QED
    BY <2>1, <2>2, <2>3, <2>4 DEF Next, Arrive, Resume
<1> QED
  BY <1>1, AgentInvariant, PTL DEF Spec, WithdrawnNeverRuns

\* Only a conversation whose lock is free gives way to a new thread, and a
\* busy turn holds its lock.
THEOREM BusyTheorem == Spec => BusyIsNotEvicted
<1> DEFINE Stays == \A u \in Turns :
             turn[u].pc \in {"loop", "execute"} /\ conv[turn[u].thread] = turn[u].obj
               => conv'[turn[u].thread] = turn[u].obj
<1>1. Inv /\ [Next]_vars => [Stays]_vars
  <2> SUFFICES ASSUME Inv, Next, NEW u \in Turns, Busy(u), conv[turn[u].thread] = turn[u].obj
               PROVE  conv'[turn[u].thread] = turn[u].obj
    BY DEF Busy
  <2>1. /\ turn[u].thread \in Threads /\ turn[u].obj \in Turns /\ turn[u].obj # None
        /\ lock[turn[u].obj].locked
    BY NoneIsNobody DEF Inv, TypeInv, LockInv, Busy, Admission
  <2>2. ASSUME NEW v \in Turns, NEW t \in Threads, NEW s \in Sources, NEW w \in Word,
               NEW e \in Threads \cup {None}, Admitted(v, t, s, w, e)
        PROVE  conv'[turn[u].thread] = turn[u].obj
    <3>1. e # turn[u].thread
      <4>1. e \in Threads => ~lock[conv[e]].locked
        BY <2>2, NoneIsNobody DEF Admitted, Oldest, Idle
      <4> QED
        BY <2>1, <4>1
    <3>2. conv'[turn[u].thread] = IF turn[u].thread = t
                                    THEN IF conv[t] = None THEN v ELSE conv[t]
                                    ELSE conv[turn[u].thread]
      BY <2>1, <2>2, <3>1 DEF Admitted
    <3> QED
      BY <2>1, <3>2
  <2>3. ASSUME NEW v \in Turns, NEW t \in Threads, NEW s \in Sources,
               Mismatched(v, t, s) \/ Refused(v, t)
        PROVE  conv' = conv
    BY <2>3 DEF Mismatched, Refused, table
  <2>4. ASSUME NEW v \in Turns, Resume(v)
        PROVE  conv' = conv
    BY <2>4 DEF Resume, Wake, CallTools, Reply, Propose, Executed, Finish, table
  <2> QED
    BY <2>2, <2>3, <2>4 DEF Next, Arrive
<1> QED
  BY <1>1, AgentInvariant, PTL DEF Spec, BusyIsNotEvicted

-----------------------------------------------------------------------------
(* The table                                                               *)

LEMMA TurnsAreFinite == IsFiniteSet(Turns) /\ Cardinality(Turns) = MaxTurns
<1>1. MaxTurns \in Nat
  BY AgentAssumption
<1>2. IsFiniteSet(1 .. MaxTurns)
      /\ Cardinality(1 .. MaxTurns) = IF 1 > MaxTurns THEN 0 ELSE MaxTurns - 1 + 1
  BY <1>1, FS_Interval
<1> QED
  BY <1>1, <1>2

\* A step of turn u can only add it to those that started.
LEMMA StartedGrows ==
  ASSUME TypeInv, NEW u \in Turns, NEW r, r.pc # "new", turn' = [turn EXCEPT ![u] = r]
  PROVE  /\ Started' = Started \cup {u}
         /\ Cardinality(Started) \in Nat /\ Cardinality(Started') >= Cardinality(Started)
         /\ turn[u].pc = "new" => Cardinality(Started') = Cardinality(Started) + 1
<1>1. Started' = Started \cup {u}
  BY DEF TypeInv, Started
<1>2. IsFiniteSet(Started)
  BY TurnsAreFinite, FS_Subset DEF Started
<1>3. Cardinality(Started) \in Nat
      /\ Cardinality(Started \cup {u}) = IF u \in Started THEN Cardinality(Started)
                                                          ELSE Cardinality(Started) + 1
  BY <1>2, FS_AddElement, FS_CardinalityType
<1>4. u \in Started <=> turn[u].pc # "new"
  BY DEF Started
<1>5. Cardinality(Started') = Cardinality(Started \cup {u})
  BY <1>1
<1> QED
  BY <1>1, <1>3, <1>4, <1>5

\* What a turn that gets its lock leaves of the sources, the histories and itself.
LEMMA BeginTable ==
  ASSUME TypeInv, TableInv, NEW u \in Turns, NEW r \in TurnRecord, Admission(r), r.word \in Word,
         r.step \in 0 .. MaxSteps,
         NEW sources \in [Threads -> Sources \cup {None}],
         NEW approvals \in [Threads -> Turns \cup {None}],
         NEW waiters, Begin(u, r, sources, approvals, waiters)
  PROVE  /\ bound' \in [Threads -> Sources \cup {None}]
         /\ cut' \subseteq Turns
         /\ \E q : turn' = [turn EXCEPT ![u] = q] /\ q.pc # "new" /\ q.step \in 0 .. MaxSteps
<1> DEFINE p == approvals[r.thread]
           d == Decide(p, r.source, r.word)
<1>1. d.pc \in {"end", "loop", "execute"}
  BY Decided DEF Admission
<1>2. PICK half \in BOOLEAN :
        turn' = [turn EXCEPT ![u] =
            CASE d.pc = "end" -> Ended
              [] d.pc = "loop" -> [r EXCEPT !.pc = "loop", !.word = None, !.saw = None,
                                     !.step = 1, !.half = half]
              [] d.pc = "execute" -> [r EXCEPT !.pc = "execute", !.word = None, !.proposal = p]]
  BY DEF Begin, Halves
<1>3. bound' = [sources EXCEPT ![r.thread] = r.source] /\ cut' \subseteq cut
  BY DEF Begin
<1> HIDE DEF d, p
<1> DEFINE q == CASE d.pc = "end" -> Ended
                  [] d.pc = "loop" -> [r EXCEPT !.pc = "loop", !.word = None, !.saw = None,
                                         !.step = 1, !.half = half]
                  [] d.pc = "execute" -> [r EXCEPT !.pc = "execute", !.word = None, !.proposal = p]
<1>4. q.pc # "new" /\ q.step \in 0 .. MaxSteps
  <2>1. CASE d.pc = "end"
    <3>1. q = Ended
      BY <2>1
    <3>2. 0 \in 0 .. MaxSteps
      BY AgentAssumption
    <3>3. Ended.pc # "new" /\ Ended.step = 0
      BY DEF Ended, NoTurn
    <3> HIDE DEF q
    <3> QED
      BY <3>1, <3>2, <3>3
  <2>2. CASE d.pc = "loop"
    <3>1. q = [r EXCEPT !.pc = "loop", !.word = None, !.saw = None, !.step = 1, !.half = half]
      BY <2>2
    <3>2. 1 \in 0 .. MaxSteps
      BY AgentAssumption
    <3> HIDE DEF q
    <3>3. q.pc = "loop" /\ q.step = 1
      BY <3>1 DEF TurnRecord
    <3> QED
      BY <3>2, <3>3
  <2>3. CASE d.pc = "execute"
    <3>1. q = [r EXCEPT !.pc = "execute", !.word = None, !.proposal = p]
      BY <2>3
    <3> HIDE DEF q
    <3> QED
      BY <3>1 DEF TurnRecord
  <2> QED
    BY <1>1, <2>1, <2>2, <2>3
<1>5. turn' = [turn EXCEPT ![u] = q]
  BY <1>2
<1> HIDE DEF q
<1> QED
  BY <1>3, <1>4, <1>5 DEF TableInv, Admission

\* A step of one turn that uses no conversation keeps the table.
LEMMA TableStands ==
  ASSUME TypeInv, TableInv, NEW u \in Turns, NEW q, q.pc # "new", q.step \in 0 .. MaxSteps,
         turn' = [turn EXCEPT ![u] = q], UNCHANGED table,
         bound' \in [Threads -> Sources \cup {None}], cut' \subseteq Turns
  PROVE  TableInv'
<1>1. Cardinality(Started) \in Nat /\ Cardinality(Started') >= Cardinality(Started)
      /\ Cardinality(Started') \in Nat
  BY StartedGrows, TurnsAreFinite, FS_Subset, FS_CardinalityType DEF Started
<1>2. Open' = Open
  BY DEF table, Open
<1>3. \A v \in Turns : turn'[v].step \in 0 .. MaxSteps
  BY DEF TypeInv, TableInv
<1> QED
  BY <1>1, <1>2, <1>3 DEF TableInv, table

\* Admission: the thread is in the table already, or there is a place, or the
\* thread put out makes one.
LEMMA AdmittedTable ==
  ASSUME Inv, TableInv, NEW u \in Turns, NEW t \in Threads, NEW s \in Sources, NEW w \in Word,
         NEW e \in Threads \cup {None}, Admitted(u, t, s, w, e)
  PROVE  TableInv'
<1> DEFINE o == IF conv[t] = None THEN u ELSE conv[t]
           r == [NoTurn EXCEPT !.pc = "wait", !.thread = t, !.source = s, !.word = w, !.obj = o,
                              !.saw = pending[t]]
           approvals == [x \in Threads |-> IF x = e THEN None ELSE pending[x]]
           sources == [x \in Threads |-> IF x = e THEN None ELSE bound[x]]
<1>a. TypeInv
  BY DEF Inv
<1>1. o \in Turns /\ o # None
  BY <1>a, NoneIsNobody DEF TypeInv
<1>2. turn[u].pc = "new"
  BY DEF Admitted, Arriving
<1>3. /\ r \in TurnRecord /\ Admission(r) /\ r.word \in Word /\ r.pc = "wait" /\ r.step = 0
  BY <1>a, <1>1, NoneIsNobody DEF NoTurn, TurnRecord, Pc, Admission, TypeInv
<1>4. 0 \in 0 .. MaxSteps
  BY AgentAssumption
<1>5. /\ bound' \in [Threads -> Sources \cup {None}] /\ cut' \subseteq Turns
      /\ \E q : turn' = [turn EXCEPT ![u] = q] /\ q.pc # "new" /\ q.step \in 0 .. MaxSteps
  <2>1. CASE lock[o].locked \/ lock[o].waiters # <<>>
    <3>1. turn' = [turn EXCEPT ![u] = r] /\ UNCHANGED <<bound, cut>>
      BY <2>1 DEF Admitted
    <3> HIDE DEF r
    <3> QED
      BY <1>3, <1>4, <3>1 DEF TableInv
  <2>2. CASE ~(lock[o].locked \/ lock[o].waiters # <<>>)
    <3>1. Begin(u, r, sources, approvals, <<>>)
      BY <2>2 DEF Admitted
    <3>2. /\ approvals \in [Threads -> Turns \cup {None}]
          /\ sources \in [Threads -> Sources \cup {None}]
      BY <1>a DEF TypeInv, TableInv
    <3> HIDE DEF r, approvals, sources
    <3> QED
      BY <1>a, <1>3, <1>4, <3>1, <3>2, BeginTable
  <2> QED
    BY <2>1, <2>2
<1>6. PICK q : turn' = [turn EXCEPT ![u] = q] /\ q.pc # "new" /\ q.step \in 0 .. MaxSteps
  BY <1>5
<1>7. /\ Cardinality(Started) \in Nat
      /\ Cardinality(Started') = Cardinality(Started) + 1
  BY <1>a, <1>2, <1>6, StartedGrows
<1>8. \A v \in Turns : turn'[v].step \in 0 .. MaxSteps
  BY <1>a, <1>6 DEF TypeInv, TableInv
<1>9. uses' = uses + 1 /\ lastUsed' \in [Threads -> 0 .. uses']
  BY DEF Admitted, TableInv
<1>10. \A x \in Threads : conv'[x] = IF x = t THEN o ELSE IF x = e THEN None ELSE conv[x]
  BY <1>a DEF Admitted, TypeInv
<1>11. Cardinality(Open) \in Nat /\ MaxThreads \in Nat \ {0}
  BY FS_CardinalityType, AgentAssumption DEF TableInv
<1>12. IsFiniteSet(Open') /\ Cardinality(Open') <= MaxThreads
  <2>1. CASE Full(t)
    <3>1. e \in Open /\ e # t /\ t \notin Open /\ e # None
      BY <2>1, NoneIsNobody DEF Admitted, Oldest, Idle, Open, Full
    <3>2. Open' = (Open \ {e}) \cup {t}
      BY <1>1, <1>10, <3>1 DEF Open
    <3>3. IsFiniteSet(Open \ {e}) /\ Cardinality(Open \ {e}) = Cardinality(Open) - 1
      BY <3>1, FS_RemoveElement DEF TableInv
    <3>4. IsFiniteSet(Open') /\ Cardinality(Open') = Cardinality(Open)
      BY <1>11, <3>1, <3>2, <3>3, FS_AddElement
    <3> QED
      BY <3>4 DEF TableInv
  <2>2. CASE ~Full(t)
    <3>1. e = None /\ Open' = Open \cup {t}
      BY <1>1, <1>10, <2>2, NoneIsNobody DEF Admitted, Open
    <3>2. IsFiniteSet(Open') /\ Cardinality(Open') = IF t \in Open THEN Cardinality(Open)
                                                                   ELSE Cardinality(Open) + 1
      BY <3>1, FS_AddElement DEF TableInv
    <3>3. t \notin Open => Cardinality(Open) < MaxThreads
      BY <1>11, <2>2 DEF Full, Open
    <3> QED
      BY <1>11, <3>2, <3>3 DEF TableInv
  <2> QED
    BY <2>1, <2>2
<1> QED
  BY <1>5, <1>7, <1>8, <1>9, <1>12 DEF TableInv

\* Every step keeps the table.
LEMMA TableStep ==
  ASSUME Inv, TableInv, [Next]_vars
  PROVE  TableInv'
<1>a. TypeInv
  BY DEF Inv
<1>b. bound \in [Threads -> Sources \cup {None}] /\ cut \subseteq Turns /\ 0 \in 0 .. MaxSteps
  BY AgentAssumption DEF TableInv
<1>c. Ended.pc # "new" /\ Ended.step = 0
  BY DEF Ended, NoTurn
<1>1. ASSUME NEW u \in Turns, NEW t \in Threads, NEW s \in Sources,
             Mismatched(u, t, s) \/ Refused(u, t)
      PROVE  TableInv'
  BY <1>a, <1>b, <1>c, <1>1, TableStands DEF Mismatched, Refused
<1>2. ASSUME NEW u \in Turns, Wake(u)
      PROVE  TableInv'
  <2>1. /\ turn[u].pc = "wait" /\ UNCHANGED table
        /\ Begin(u, turn[u], bound, pending, Tail(lock[turn[u].obj].waiters))
    BY <1>2 DEF Wake, Awaited
  <2>2. /\ turn[u] \in TurnRecord /\ Admission(turn[u]) /\ turn[u].word \in Word
        /\ turn[u].step \in 0 .. MaxSteps
        /\ pending \in [Threads -> Turns \cup {None}]
    BY <1>a, <2>1 DEF TypeInv, TableInv
  <2>3. /\ bound' \in [Threads -> Sources \cup {None}] /\ cut' \subseteq Turns
        /\ \E q : turn' = [turn EXCEPT ![u] = q] /\ q.pc # "new" /\ q.step \in 0 .. MaxSteps
    BY <1>a, <1>b, <2>1, <2>2, BeginTable
  <2> QED
    BY <1>a, <2>1, <2>3, TableStands
<1>3. ASSUME NEW u \in Turns, CallTools(u)
      PROVE  TableInv'
  <2>1. PICK half \in {turn[u].half, FALSE} :
          turn' = [turn EXCEPT ![u].step = @ + 1, ![u].half = half]
    BY <1>3 DEF CallTools
  <2> DEFINE r == [turn[u] EXCEPT !.step = @ + 1, !.half = half]
  <2>2. turn[u] \in TurnRecord /\ turn[u].pc = "loop" /\ turn[u].step < MaxSteps
        /\ turn[u].step \in 0 .. MaxSteps /\ UNCHANGED <<table, bound, cut>>
    BY <1>a, <1>3 DEF CallTools, TypeInv, TableInv
  <2>3. r.pc # "new" /\ r.step \in 0 .. MaxSteps
    BY <2>2, AgentAssumption DEF TurnRecord
  <2>4. turn' = [turn EXCEPT ![u] = r]
    BY <2>1
  <2> HIDE DEF r
  <2> QED
    BY <1>a, <1>b, <2>2, <2>3, <2>4, TableStands
<1>4. ASSUME NEW u \in Turns, Reply(u) \/ Executed(u)
      PROVE  TableInv'
  BY <1>a, <1>b, <1>c, <1>4, TableStands DEF Reply, Executed, Finish
<1>5. ASSUME NEW u \in Turns, Propose(u)
      PROVE  TableInv'
  <2> DEFINE r == [Ended EXCEPT !.thread = turn[u].thread, !.source = turn[u].source]
  <2>1. r.pc # "new" /\ r.step \in 0 .. MaxSteps
    BY <1>b DEF Ended, NoTurn
  <2>2. turn' = [turn EXCEPT ![u] = r] /\ UNCHANGED <<table, bound>>
        /\ \E more \in SUBSET {turn[u].obj} : cut' = cut \cup more
    BY <1>5 DEF Propose, Finish
  <2> HIDE DEF r
  <2>3. turn[u].obj \in Turns
    BY <1>a, <1>5 DEF Propose, TypeInv, Admission
  <2> QED
    BY <1>a, <1>b, <2>1, <2>2, <2>3, TableStands
<1>6. CASE UNCHANGED vars
  BY <1>6 DEF vars, table, TableInv, Open, Started
<1> QED
  BY <1>1, <1>2, <1>3, <1>4, <1>5, <1>6, AdmittedTable DEF Next, Arrive, Resume

\* Every variable keeps its type and the table never outgrows its capacity
\* (agents/runtime.py): a new conversation is refused when nobody idle can
\* give way to it, although conversations live on outside the table.
THEOREM CapacityTheorem == Spec => []TypeOK
<1>1. Init => TableInv
  <2> SUFFICES ASSUME Init  PROVE TableInv
    OBVIOUS
  <2>1. Open = {} /\ Started = {}
    BY DEF Init, Open, Started, NoTurn
  <2>2. IsFiniteSet({}) /\ Cardinality({}) = 0
    BY FS_EmptySet
  <2> QED
    BY <2>1, <2>2, AgentAssumption DEF Init, TableInv, NoTurn
<1>2. Inv /\ TableInv /\ [Next]_vars => TableInv'
  BY TableStep
<1>3. Inv /\ TableInv => TypeOK
  <2> SUFFICES ASSUME Inv, TableInv  PROVE TypeOK
    OBVIOUS
  <2>1. TypeInv
    BY DEF Inv
  <2>2. uses \in 0 .. Cardinality(Turns)
    <3>1. Cardinality(Started) <= Cardinality(Turns) /\ Cardinality(Started) \in Nat
          /\ Cardinality(Turns) \in Nat
      BY TurnsAreFinite, FS_Subset, FS_CardinalityType DEF Started
    <3> QED
      BY <3>1 DEF TableInv
  <2>3. \A o \in Turns : lock[o].locked \in BOOLEAN /\ lock[o].waiters \in Seq(Turns)
    <3>1. \A o \in Turns : lock[o] \in Lock
      BY <2>1 DEF TypeInv
    <3>2. \A l \in Lock : l.locked \in BOOLEAN /\ l.waiters \in Seq(Turns)
      BY Zenon DEF Lock
    <3> QED
      BY <3>1, <3>2, Zenon
  <2> DEFINE Records == [pc : {"new", "wait", "loop", "execute", "end"},
                         thread : Threads \cup {None}, source : Sources \cup {None},
                         word : Word \cup {None}, obj : Turns \cup {None},
                         proposal : Turns \cup {None}, saw : Turns \cup {None},
                         step : 0 .. MaxSteps, half : BOOLEAN]
  <2>4. turn \in [Turns -> Records]
    <3>1. \A q \in TurnRecord : q.step \in 0 .. MaxSteps => q \in Records
      BY DEF TurnRecord, Pc
    <3> HIDE DEF Records
    <3> QED
      BY <2>1, <3>1 DEF TypeInv, TableInv
  <2> HIDE DEF Records
  <2>5. /\ conv \in [Threads -> Turns \cup {None}] /\ pending \in [Threads -> Turns \cup {None}]
        /\ runs \in [Turns -> Nat] /\ withdrawn \subseteq Turns
    BY <2>1 DEF TypeInv
  <2>6. /\ Cardinality(Open) <= MaxThreads /\ lastUsed \in [Threads -> 0 .. uses]
        /\ bound \in [Threads -> Sources \cup {None}] /\ cut \subseteq Turns
    BY DEF TableInv
  <2> QED
    BY <2>2, <2>3, <2>4, <2>5, <2>6, Zenon DEF TypeOK, Records
<1> QED
  BY <1>1, <1>2, <1>3, AgentInvariant, PTL DEF Spec

=============================================================================
