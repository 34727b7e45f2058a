--------------------------- MODULE PipelineProofs ---------------------------
(***************************************************************************)
(* Proofs about TaskPipeline, for every value of its constants: the lock    *)
(* belongs to whoever is inside the critical section, and the pipeline      *)
(* implements TaskBoard.                                                    *)
(***************************************************************************)
EXTENDS MCTaskPipeline, FiniteSetTheorems, TLAPS

Task == [id : Ids, source : Sources, message : MessageIds \union {NoMessage},
         key : Keys, course : CourseOrNone, at : Nat]

Places == {"new", "ask", "enter", "insert", "plan", "record"} \union Ends

Delivery == [pc : Places, source : Sources \union {NoMessage},
             message : MessageIds \union {NoMessage},
             key : Keys \union {NoMessage}, course : CourseOrNone,
             status : Status \union {"none"}, made : Ids \union {0}]

\* What the proofs need of the types.  A delivery that may still insert knows
\* what it would insert.
TypeInv ==
  /\ now \in Nat
  /\ board \subseteq Task /\ IsFiniteSet(board)
  /\ run \in [Runs -> Delivery]
  /\ lock \in Runs \union {Free}
  /\ \A d \in Runs :
       /\ run[d].pc \in {"ask", "enter", "insert"} =>
            run[d].source \in Sources /\ run[d].message \in MessageIds
       /\ run[d].pc \in {"enter", "insert"} => run[d].key \in Keys

Inside(d) == run[d].pc \in {"insert", "plan"}

\* The lock is held by the delivery that is inside, and only by it.
LockInv ==
  /\ \A d \in Runs : Inside(d) => lock = d
  /\ lock # Free => Inside(lock)

\* What a delivery found when it entered is still so when it inserts.
InsertInv ==
  \A d \in Runs : run[d].pc = "insert" =>
    /\ FromMessage(d) = {}
    /\ \A b \in board : Board!Recent(b) /\ Board!Visible(b) => ~Clash(b, run[d])

Inv == TypeInv /\ LockInv /\ InsertInv

\* What the extractions table and the deliveries say of the tasks.  A row is
\* written once and says what its delivery did; a delivery on its way to write
\* it, or cut short, still knows the task it made; and only a fault keeps the
\* two apart.
RowAgrees(r, w, faults) ==
  /\ r.pc \in {"new", "ask", "enter", "insert", "dropped"} => r.made = 0
  /\ r.pc = "plan" => r.status = "success"
  /\ r.pc \in {"plan", "record"} => r.status \in Status /\ (r.status = "success" <=> r.made # 0)
  /\ r.pc = "recorded" =>
       w.status \in Status /\ (w.status = "success" <=> r.made # 0) /\ w.task = r.made
  /\ r.pc # "recorded" => w = NoRow
  /\ r.pc \in {"raised", "killed"} /\ r.made # 0 => faults > 0

RowInv == \A d \in Runs : RowAgrees(run[d], row[d], spent.faults)

\* Every task from a message was made by a delivery of that message.
MakerInv ==
  \A b \in board : b.message # NoMessage =>
    \E d \in Runs : run[d].source = b.source /\ run[d].message = b.message
                    /\ run[d].made # 0

RecordType ==
  /\ spent \in [edits : Nat, faults : Nat]
  /\ row \in [Runs -> [status : Status \union {"none"}, task : Ids \union {0}]]

AccountInv == RecordType /\ RowInv /\ MakerInv

USE DEF Runs, Ids, Ends

-----------------------------------------------------------------------------
(* Lemmas                                                                  *)

\* What the proofs use of the assumption on the constants.
LEMMA ConstantsAreNat ==
  /\ MaxRuns \in Nat /\ MaxEdits \in Nat /\ Limit \in Nat /\ Window \in Nat
  /\ Free \notin Nat /\ NoMessage \notin MessageIds
BY PipelineAssumption

\* The rows that the search reads include every row of the window that at most
\* Limit rows are as new as.
LEMMA VisibleIsRead ==
  ASSUME board \subseteq Task, IsFiniteSet(board),
         NEW s, NEW C \in Newest(s), NEW b \in InWindow(s), Board!Visible(b)
  PROVE  b \in C
<1>1. SUFFICES ASSUME b \notin C
               PROVE  FALSE
  OBVIOUS
<1> DEFINE A == {c \in board : c.source = b.source /\ c.at >= b.at}
<1>2. C \subseteq InWindow(s) /\ C # InWindow(s) /\ Cardinality(C) <= Limit
      /\ ~(Cardinality(C) < Limit)
  BY <1>1 DEF Newest
<1>3. IsFiniteSet(C) /\ IsFiniteSet(A)
  <2>1. C \in SUBSET board /\ A \in SUBSET board
    BY <1>2 DEF InWindow
  <2> QED
    BY <2>1, FS_Subset
<1>4. \A c \in C : c.at >= b.at
  <2>1. SUFFICES ASSUME NEW c \in C, ~(c.at >= b.at)
                 PROVE  FALSE
    OBVIOUS
  <2>2. c \in Task /\ b \in Task
    BY <1>2 DEF InWindow
  <2>3. b.at > c.at
    BY <2>1, <2>2 DEF Task
  <2> QED
    BY <2>1, <2>3, <1>1 DEF Newest
<1>5. C \union {b} \in SUBSET A
  BY <1>2, <1>4 DEF InWindow, Task
<1>6. Cardinality(C \union {b}) = Cardinality(C) + 1
  BY <1>1, <1>3, FS_AddElement
<1>7. Cardinality(C \union {b}) <= Cardinality(A)
  BY <1>3, <1>5, FS_Subset
<1>8. Cardinality(C) \in Nat /\ Cardinality(A) \in Nat
  BY <1>3, FS_CardinalityType
<1>9. Cardinality(A) <= Limit
  BY DEF Board!Visible, Board!Cardinality, Cardinality
<1> QED
  BY <1>2, <1>6, <1>7, <1>8, <1>9, ConstantsAreNat

\* With nobody holding the lock, nobody is about to insert.
LEMMA FreeMeansOutside ==
  ASSUME Inv, lock = Free
  PROVE  \A d \in Runs : ~Inside(d)
BY ConstantsAreNat DEF Inv, LockInv

\* Two deliveries are never inside together.
LEMMA OneInside ==
  ASSUME Inv, NEW d \in Runs, Inside(d), NEW e \in Runs, Inside(e)
  PROVE  d = e
BY DEF Inv, LockInv

-----------------------------------------------------------------------------
(* Types                                                                   *)

\* A delivery knows what it would insert as long as it may insert.
Ready(r) ==
  /\ r.pc \in {"ask", "enter", "insert"} => r.source \in Sources /\ r.message \in MessageIds
  /\ r.pc \in {"enter", "insert"} => r.key \in Keys

\* A step of one delivery that leaves the clock and the board alone.
LEMMA OneDelivery ==
  ASSUME TypeInv, NEW d \in Runs, NEW r \in Delivery, Ready(r),
         run' = [run EXCEPT ![d] = r], UNCHANGED <<now, board>>,
         lock' \in Runs \union {Free}
  PROVE  TypeInv'
<1>1. run' \in [Runs -> Delivery]
  BY DEF TypeInv
<1>2. \A e \in Runs : run'[e] = IF e = d THEN r ELSE run[e]
  BY DEF TypeInv
<1> QED
  BY <1>1, <1>2 DEF TypeInv, Ready

\* A delivery that has nothing left but its row, or that has ended.
LEMMA LeftIsDelivery ==
  ASSUME TypeInv, NEW d \in Runs, NEW pc \in Places \ {"ask", "enter", "insert"},
         NEW status \in Status \union {"none"},
         run' = [run EXCEPT ![d] = Left(@, pc, status)], UNCHANGED <<now, board>>,
         lock' \in Runs \union {Free}
  PROVE  TypeInv'
<1> DEFINE r == Left(run[d], pc, status)
<1>1. r \in Delivery /\ r.pc = pc
  BY DEF TypeInv, Left, Delivery, CourseOrNone
<1>2. Ready(r)
  BY <1>1 DEF Ready
<1> HIDE DEF r
<1>3. run' = [run EXCEPT ![d] = r]
  BY DEF r
<1> QED
  BY <1>1, <1>2, <1>3, OneDelivery

\* Every step keeps the types.
LEMMA TypeStep ==
  ASSUME TypeInv, [Next]_vars
  PROVE  TypeInv'
<1>1. ASSUME NEW d \in Runs, Start(d)  PROVE TypeInv'
  <2>1. PICK s \in Sources, m \in MessageIds, pc \in {"dropped", "ask"} :
          run' = [run EXCEPT ![d].pc = pc, ![d].source = s, ![d].message = m]
    BY <1>1 DEF Start
  <2> DEFINE r == [run[d] EXCEPT !.pc = pc, !.source = s, !.message = m]
  <2>2. r \in Delivery /\ Ready(r)
    BY DEF TypeInv, Delivery, Places, Ready
  <2>3. run' = [run EXCEPT ![d] = r]
    BY <2>1 DEF TypeInv, Delivery
  <2> HIDE DEF r
  <2> QED
    BY <1>1, <2>2, <2>3, OneDelivery DEF Start, TypeInv
<1>2. ASSUME NEW d \in Runs, Ask(d)  PROVE TypeInv'
  <2>1. CASE AskFails(d)
    BY <2>1, LeftIsDelivery DEF AskFails, Writing, Places, Status, TypeInv
  <2>2. CASE AskSaysNone(d)
    BY <2>2, LeftIsDelivery DEF AskSaysNone, Writing, Places, Status, TypeInv
  <2>3. CASE AskFindsTask(d)
    <3>1. PICK k \in Keys, c \in CourseOrNone :
            run' = [run EXCEPT ![d].pc = "enter", ![d].key = k, ![d].course = c]
      BY <2>3 DEF AskFindsTask
    <3> DEFINE r == [run[d] EXCEPT !.pc = "enter", !.key = k, !.course = c]
    <3>2. r \in Delivery /\ Ready(r)
      BY <2>3 DEF TypeInv, Delivery, Places, Ready, AskFindsTask
    <3>3. run' = [run EXCEPT ![d] = r]
      BY <3>1 DEF TypeInv, Delivery
    <3> HIDE DEF r
    <3> QED
      BY <2>3, <3>2, <3>3, OneDelivery DEF AskFindsTask, TypeInv
  <2>4. CASE AskRaises(d)
    BY <2>4, LeftIsDelivery DEF AskRaises, Ended, Places, TypeInv
  <2> QED
    BY <1>2, <2>1, <2>2, <2>3, <2>4 DEF Ask
<1>3. ASSUME NEW d \in Runs, CheckDuplicate(d)  PROVE TypeInv'
  <2>1. CASE Writing(d, "duplicate") /\ UNCHANGED lock
    BY <1>3, <2>1, LeftIsDelivery DEF CheckDuplicate, Writing, Places, Status, TypeInv
  <2>2. CASE run' = [run EXCEPT ![d].pc = "insert"] /\ lock' = d
    <3> DEFINE r == [run[d] EXCEPT !.pc = "insert"]
    <3>1. r \in Delivery /\ Ready(r)
      BY <1>3 DEF TypeInv, Delivery, Places, Ready, CheckDuplicate
    <3>2. run' = [run EXCEPT ![d] = r]
      BY <2>2
    <3> HIDE DEF r
    <3> QED
      BY <1>3, <2>2, <3>1, <3>2, OneDelivery DEF CheckDuplicate, TypeInv
  <2> QED
    BY <1>3, <2>1, <2>2 DEF CheckDuplicate
<1>4. ASSUME NEW d \in Runs, Insert(d)  PROVE TypeInv'
  <2>1. PICK id \in Ids, sure \in BOOLEAN :
          /\ board' = board \union {[id |-> id, source |-> run[d].source,
                                     message |-> run[d].message, key |-> run[d].key,
                                     course |-> run[d].course, at |-> now]}
          /\ run' = [run EXCEPT ![d] =
               [Left(@, IF sure THEN "plan" ELSE "record", "success") EXCEPT !.made = id]]
          /\ lock' = IF sure THEN lock ELSE Free
    BY <1>4 DEF Insert
  <2>2. board' \subseteq Task
    BY <1>4, <2>1 DEF Insert, TypeInv, Delivery, Task
  <2>3. IsFiniteSet(board')
    BY <2>1, FS_AddElement DEF TypeInv
  <2>4. run' \in [Runs -> Delivery]
    <3> DEFINE pc == IF sure THEN "plan" ELSE "record"
               r == [Left(run[d], pc, "success") EXCEPT !.made = id]
    <3>1. r \in Delivery
      <4>1. pc \in Places
        BY DEF Places
      <4> HIDE DEF pc
      <4>2. Left(run[d], pc, "success") \in Delivery
        BY <4>1 DEF TypeInv, Left, Delivery, Status, CourseOrNone
      <4> QED
        BY <4>2 DEF Delivery
    <3>2. run' = [run EXCEPT ![d] = r]
      BY <2>1
    <3> HIDE DEF r
    <3> QED
      BY <3>1, <3>2 DEF TypeInv
  <2>5. run'[d].pc \in {"plan", "record"} /\ \A e \in Runs \ {d} : run'[e] = run[e]
    BY <2>1 DEF TypeInv, Left, Delivery
  <2> QED
    BY <1>4, <2>1, <2>2, <2>3, <2>4, <2>5 DEF Insert, TypeInv
<1>5. ASSUME NEW d \in Runs, Plan(d) PROVE TypeInv'
  BY <1>5 DEF TypeInv, Plan, Delivery, Places
<1>6. ASSUME NEW d \in Runs, Record(d)  PROVE TypeInv'
  BY <1>6, LeftIsDelivery DEF Record, Ended, Places, TypeInv
<1>7. ASSUME NEW d \in Runs, Raise(d)  PROVE TypeInv'
  BY <1>7, LeftIsDelivery DEF Raise, Ended, Places, TypeInv
<1>8. ASSUME Enter  PROVE TypeInv'
  <2>1. PICK id \in Ids, s \in Sources, k \in Keys, c \in CourseOrNone :
          board' = board \union {[id |-> id, source |-> s, message |-> NoMessage,
                                  key |-> k, course |-> c, at |-> now]}
    BY <1>8 DEF Enter
  <2>2. board' \subseteq Task
    BY <2>1 DEF TypeInv, Task
  <2>3. IsFiniteSet(board')
    BY <2>1, FS_AddElement DEF TypeInv
  <2> QED
    BY <1>8, <2>2, <2>3 DEF Enter, TypeInv
<1>9. ASSUME Correct  PROVE TypeInv'
  <2>1. PICK b \in board, k \in Keys, c \in CourseOrNone :
          board' = (board \ {b}) \union {[b EXCEPT !.key = k, !.course = c]}
    BY <1>9 DEF Correct
  <2>2. board' \subseteq Task
    BY <2>1 DEF TypeInv, Task
  <2>3. IsFiniteSet(board \ {b})
    BY FS_RemoveElement DEF TypeInv
  <2>4. IsFiniteSet(board')
    BY <2>1, <2>3, FS_AddElement
  <2> QED
    BY <1>9, <2>2, <2>4 DEF Correct, TypeInv
<1>10. ASSUME Remove  PROVE TypeInv'
  <2>1. PICK b \in board : board' = board \ {b}
    BY <1>10 DEF Remove
  <2>2. IsFiniteSet(board')
    BY <2>1, FS_RemoveElement DEF TypeInv
  <2> QED
    BY <1>10, <2>1, <2>2 DEF Remove, TypeInv
<1>11. ASSUME Tick  PROVE TypeInv'
  BY <1>11 DEF Tick, TypeInv
<1>12. ASSUME Crash  PROVE TypeInv'
  <2>1. \A d \in Runs : Left(run[d], "killed", "none") \in Delivery
    BY DEF TypeInv, Left, Delivery, Places, CourseOrNone
  <2>2. run' \in [Runs -> Delivery]
    BY <1>12, <2>1 DEF Crash, TypeInv
  <2>3. \A d \in Runs : run'[d].pc = "killed" \/ run'[d] = run[d]
    BY <1>12 DEF Crash, TypeInv, Left, Delivery
  <2> QED
    BY <1>12, <2>2, <2>3 DEF Crash, TypeInv
<1>13. ASSUME UNCHANGED vars  PROVE TypeInv'
  BY <1>13 DEF vars, TypeInv
<1> QED
  BY <1>1, <1>2, <1>3, <1>4, <1>5, <1>6, <1>7, <1>8, <1>9, <1>10, <1>11, <1>12, <1>13
  DEF Next, Step

\* The model's answer moves one delivery, outside the critical section.
LEMMA AskMoves ==
  ASSUME TypeInv, NEW d \in Runs, Ask(d)
  PROVE  /\ ~Inside(d) /\ ~Inside(d)' /\ UNCHANGED <<now, board, lock>>
         /\ \A e \in Runs \ {d} : run'[e] = run[e]
<1>1. run[d].pc = "ask" /\ UNCHANGED <<now, board, lock>>
  BY DEF Ask, AskFails, AskSaysNone, AskFindsTask, AskRaises
<1>2. run'[d].pc \in {"record", "enter", "raised"} /\ \A e \in Runs \ {d} : run'[e] = run[e]
  <2>1. CASE AskFails(d)
    BY <2>1 DEF AskFails, Writing, Left, TypeInv, Delivery
  <2>2. CASE AskSaysNone(d)
    BY <2>2 DEF AskSaysNone, Writing, Left, TypeInv, Delivery
  <2>3. CASE AskFindsTask(d)
    BY <2>3 DEF AskFindsTask, TypeInv, Delivery
  <2>4. CASE AskRaises(d)
    BY <2>4 DEF AskRaises, Ended, Left, TypeInv, Delivery
  <2> QED
    BY <2>1, <2>2, <2>3, <2>4 DEF Ask
<1> QED
  BY <1>1, <1>2 DEF Inside

-----------------------------------------------------------------------------
(* The lock                                                                *)

\* Every step keeps the lock and the critical section together.
LEMMA LockStep ==
  ASSUME Inv, [Next]_vars
  PROVE  LockInv'
<1> USE ConstantsAreNat DEF Inv, TypeInv, LockInv, Inside
<1>1. ASSUME NEW d \in Runs, Start(d)  PROVE LockInv'
  BY <1>1 DEF Start
<1>2. ASSUME NEW d \in Runs, Ask(d)  PROVE LockInv'
  BY <1>2, AskMoves
<1>3. ASSUME NEW d \in Runs, CheckDuplicate(d)  PROVE LockInv'
  <2>1. CASE Writing(d, "duplicate") /\ UNCHANGED lock
    BY <1>3, <2>1 DEF CheckDuplicate, Writing, Left, Delivery
  <2>2. CASE run' = [run EXCEPT ![d].pc = "insert"] /\ lock' = d
    BY <1>3, <2>2 DEF CheckDuplicate, Delivery
  <2> QED
    BY <1>3, <2>1, <2>2 DEF CheckDuplicate
<1>4. ASSUME NEW d \in Runs, Insert(d)  PROVE LockInv'
  BY <1>4 DEF Insert, Left, Delivery
<1>5. ASSUME NEW d \in Runs, Plan(d)  PROVE LockInv'
  BY <1>5 DEF Plan, Delivery
<1>6. ASSUME NEW d \in Runs, Record(d)  PROVE LockInv'
  BY <1>6 DEF Record, Ended, Left, Delivery
<1>7. ASSUME NEW d \in Runs, Raise(d)  PROVE LockInv'
  BY <1>7 DEF Raise, Ended, Left, Delivery
<1>8. CASE Enter \/ Correct \/ Remove \/ Tick
  BY <1>8 DEF Enter, Correct, Remove, Tick
<1>9. CASE Crash
  BY <1>9 DEF Crash, Running, Left, Delivery
<1>10. CASE UNCHANGED vars
  BY <1>10 DEF vars
<1> QED
  BY <1>1, <1>2, <1>3, <1>4, <1>5, <1>6, <1>7, <1>8, <1>9, <1>10 DEF Next, Step

-----------------------------------------------------------------------------
(* What was read is still true when it is used                             *)

\* A step that leaves the board alone and brings nobody to its insertion.
LEMMA NobodyArrives ==
  ASSUME InsertInv, UNCHANGED <<now, board>>,
         \A e \in Runs : run'[e].pc = "insert" => run'[e] = run[e]
  PROVE  InsertInv'
BY DEF InsertInv, FromMessage, Board!Recent, Board!Visible, Clash

\* Every step keeps what was read true: the board changes only under the lock,
\* and time only makes fewer tasks recent.
LEMMA InsertStep ==
  ASSUME Inv, [Next]_vars
  PROVE  InsertInv'
<1> USE DEF TypeInv
<1>a. TypeInv /\ InsertInv
  BY DEF Inv
<1>1. ASSUME NEW d \in Runs, Start(d)  PROVE InsertInv'
  BY <1>a, <1>1, NobodyArrives DEF Start, Delivery
<1>2. ASSUME NEW d \in Runs, Ask(d)  PROVE InsertInv'
  BY <1>a, <1>2, AskMoves, NobodyArrives DEF Inside
<1>3. ASSUME NEW d \in Runs, CheckDuplicate(d)  PROVE InsertInv'
  <2>1. PICK C \in Newest(run[d].source) :
          IF FromMessage(d) # {} \/ \E b \in C : Clash(b, run[d])
          THEN Writing(d, "duplicate") /\ UNCHANGED lock
          ELSE run' = [run EXCEPT ![d].pc = "insert"] /\ lock' = d
    BY <1>3 DEF CheckDuplicate
  <2>2. CASE Writing(d, "duplicate")
    BY <1>a, <1>3, <2>2, NobodyArrives DEF CheckDuplicate, Writing, Left, Delivery
  <2>3. CASE /\ FromMessage(d) = {} /\ \A b \in C : ~Clash(b, run[d])
             /\ run' = [run EXCEPT ![d].pc = "insert"]
    <3>1. ASSUME NEW b \in board, Board!Recent(b), Board!Visible(b)
          PROVE  ~Clash(b, run[d])
      <4>1. CASE b.source = run[d].source
        <5>1. b \in InWindow(run[d].source)
          BY <3>1, <4>1 DEF InWindow, Board!Recent
        <5>2. b \in C
          BY <1>a, <3>1, <5>1, VisibleIsRead
        <5> QED
          BY <2>3, <5>2
      <4> QED
        BY <4>1 DEF Clash
    <3>2. UNCHANGED <<now, board>>
      BY <1>3 DEF CheckDuplicate
    <3>3. run'[d] = [run[d] EXCEPT !.pc = "insert"]
          /\ \A e \in Runs \ {d} : run'[e] = run[e]
      BY <1>a, <2>3
    <3>4. ASSUME NEW e \in Runs, run'[e].pc = "insert"
          PROVE  FromMessage(e)' = {}
                 /\ \A b \in board' :
                      Board!Recent(b)' /\ Board!Visible(b)' => ~Clash(b, run'[e])
      <4>1. CASE e = d
        <5>1. /\ run'[d].source = run[d].source /\ run'[d].message = run[d].message
              /\ run'[d].key = run[d].key /\ run'[d].course = run[d].course
          BY <1>a, <3>3 DEF Delivery
        <5>2. FromMessage(d)' = {}
          BY <2>3, <3>2, <5>1 DEF FromMessage
        <5>3. ASSUME NEW b \in board', Board!Recent(b)', Board!Visible(b)'
              PROVE  ~Clash(b, run'[d])
          <6>1. b \in board /\ Board!Recent(b) /\ Board!Visible(b)
            BY <3>2, <5>3 DEF Board!Recent, Board!Visible
          <6> QED
            BY <3>1, <5>1, <6>1 DEF Clash
        <5> QED
          BY <4>1, <5>2, <5>3
      <4>2. CASE e # d
        BY <1>a, <3>2, <3>3, <3>4, <4>2
        DEF InsertInv, FromMessage, Board!Recent, Board!Visible
      <4> QED
        BY <4>1, <4>2
    <3> QED
      BY <3>4 DEF InsertInv
  <2> QED
    BY <2>1, <2>2, <2>3
<1>4. ASSUME NEW d \in Runs, Insert(d)  PROVE InsertInv'
  <2>1. Inside(d) /\ run'[d].pc # "insert" /\ \A e \in Runs \ {d} : run'[e] = run[e]
    BY <1>a, <1>4 DEF Insert, Inside, Left, Delivery
  <2>2. \A e \in Runs \ {d} : ~Inside(e)
    BY <2>1, OneInside
  <2> QED
    BY <2>1, <2>2 DEF InsertInv, Inside
<1>5. ASSUME NEW d \in Runs, Plan(d)  PROVE InsertInv'
  BY <1>a, <1>5, NobodyArrives DEF Plan, Delivery
<1>6. ASSUME NEW d \in Runs, Record(d)  PROVE InsertInv'
  BY <1>a, <1>6, NobodyArrives DEF Record, Ended, Left, Delivery
<1>7. ASSUME NEW d \in Runs, Raise(d)  PROVE InsertInv'
  BY <1>a, <1>7, NobodyArrives DEF Raise, Ended, Left, Delivery
<1>8. CASE Enter \/ Correct \/ Remove
  BY <1>8, FreeMeansOutside DEF Enter, Correct, Remove, Edit, InsertInv, Inside
<1>9. CASE Tick
  <2>1. \A b \in board : Board!Recent(b)' => Board!Recent(b)
    BY <1>a, <1>9, ConstantsAreNat DEF Tick, Task, Board!Recent
  <2>2. \A b \in board : Board!Visible(b)' <=> Board!Visible(b)
    BY <1>9 DEF Tick, Board!Visible
  <2> QED
    BY <1>a, <1>9, <2>1, <2>2 DEF Tick, InsertInv, FromMessage
<1>10. CASE Crash
  BY <1>a, <1>10, NobodyArrives DEF Crash, Running, Left, Delivery
<1>11. CASE UNCHANGED vars
  BY <1>a, <1>11, NobodyArrives DEF vars
<1> QED
  BY <1>1, <1>2, <1>3, <1>4, <1>5, <1>6, <1>7, <1>8, <1>9, <1>10, <1>11 DEF Next, Step

-----------------------------------------------------------------------------
(* Provenance                                                              *)

\* A step of one delivery that writes no row and makes no task.
LEMMA AgreementOfOne ==
  ASSUME TypeInv, RecordType, RowInv, NEW d \in Runs, NEW r \in Delivery,
         run' = [run EXCEPT ![d] = r], UNCHANGED row,
         spent' \in [edits : Nat, faults : Nat], spent'.faults >= spent.faults,
         RowAgrees(r, row[d], spent'.faults)
  PROVE  RowInv'
<1>1. run'[d] = r /\ \A e \in Runs \ {d} : run'[e] = run[e]
  BY DEF TypeInv
<1>2. ASSUME NEW e \in Runs \ {d}  PROVE RowAgrees(run[e], row[e], spent'.faults)
  <2>1. RowAgrees(run[e], row[e], spent.faults)
    BY DEF RowInv
  <2>2. spent.faults \in Nat /\ spent'.faults \in Nat
    BY DEF RecordType
  <2> QED
    BY <2>1, <2>2 DEF RowAgrees
<1> QED
  BY <1>1, <1>2 DEF RowInv

\* Tasks keep their makers when no delivery forgets its own and every task
\* from a message was there before, or has a maker now.
LEMMA MakersStay ==
  ASSUME MakerInv,
         \A d \in Runs : run[d].made # 0 =>
           run'[d].made # 0 /\ run'[d].source = run[d].source /\ run'[d].message = run[d].message,
         \A b \in board' : b.message # NoMessage =>
           \/ \E c \in board : c.source = b.source /\ c.message = b.message
           \/ \E d \in Runs : run'[d].source = b.source /\ run'[d].message = b.message
                            /\ run'[d].made # 0
  PROVE  MakerInv'
<1> SUFFICES ASSUME NEW b \in board', b.message # NoMessage
             PROVE  \E d \in Runs : run'[d].source = b.source /\ run'[d].message = b.message
                                  /\ run'[d].made # 0
  BY DEF MakerInv
<1>1. CASE \E c \in board : c.source = b.source /\ c.message = b.message
  <2>1. PICK c \in board : c.source = b.source /\ c.message = b.message
    BY <1>1
  <2>2. PICK d \in Runs : run[d].source = c.source /\ run[d].message = c.message
                          /\ run[d].made # 0
    BY <2>1 DEF MakerInv
  <2> QED
    BY <2>1, <2>2
<1> QED
  BY <1>1

\* Leaving keeps what the delivery made and for whom.
LEMMA LeftKeeps ==
  ASSUME NEW r \in Delivery, NEW pc \in Places, NEW status \in Status \union {"none"}
  PROVE  LET l == Left(r, pc, status) IN
           /\ l \in Delivery /\ l.pc = pc /\ l.status = status
           /\ l.source = r.source /\ l.message = r.message /\ l.made = r.made
BY DEF Left, Delivery, CourseOrNone

\* A delivery that leaves with nothing made needs no more than its row.
LEMMA LeavingKeepsAccounts ==
  ASSUME TypeInv, AccountInv, NEW d \in Runs, NEW pc \in Places, NEW status \in Status \union {"none"},
         run' = [run EXCEPT ![d] = Left(@, pc, status)],
         UNCHANGED <<board, row>>,
         spent' \in [edits : Nat, faults : Nat], spent'.faults >= spent.faults,
         RowAgrees(Left(run[d], pc, status), row[d], spent'.faults)
  PROVE  AccountInv'
<1> DEFINE r == Left(run[d], pc, status)
<1>1. /\ r \in Delivery /\ r.source = run[d].source /\ r.message = run[d].message
      /\ r.made = run[d].made
  BY LeftKeeps DEF TypeInv
<1>2. run' = [run EXCEPT ![d] = r] /\ RowAgrees(r, row[d], spent'.faults)
  OBVIOUS
<1> HIDE DEF r
<1>3. RowInv'
  BY <1>1, <1>2, AgreementOfOne DEF AccountInv
<1>4. \A e \in Runs : run'[e].made = run[e].made /\ run'[e].source = run[e].source
                      /\ run'[e].message = run[e].message
  BY <1>1, <1>2 DEF TypeInv
<1>5. MakerInv'
  BY <1>4, MakersStay DEF AccountInv
<1> QED
  BY <1>3, <1>5 DEF AccountInv, RecordType

\* So does one that goes on with nothing made.
LEMMA GoingOnKeepsAccounts ==
  ASSUME TypeInv, AccountInv, NEW d \in Runs, NEW r \in Delivery,
         run' = [run EXCEPT ![d] = r], UNCHANGED <<board, row, spent>>,
         run[d].made # 0 => r.source = run[d].source /\ r.message = run[d].message,
         r.made = run[d].made, RowAgrees(r, row[d], spent.faults)
  PROVE  AccountInv'
<1>a. RecordType /\ RowInv /\ MakerInv
  BY DEF AccountInv
<1>b. spent' \in [edits : Nat, faults : Nat] /\ spent'.faults >= spent.faults
      /\ RowAgrees(r, row[d], spent'.faults)
  BY <1>a DEF RecordType
<1>1. RowInv'
  BY <1>a, <1>b, AgreementOfOne
<1>2. \A e \in Runs : run[e].made # 0 =>
        run'[e].made # 0 /\ run'[e].source = run[e].source /\ run'[e].message = run[e].message
  BY DEF TypeInv
<1>3. MakerInv'
  BY <1>2, MakersStay DEF AccountInv
<1> QED
  BY <1>1, <1>3 DEF AccountInv, RecordType

\* A fault is counted, and so is an edit.
LEMMA CountsAreNat ==
  ASSUME RecordType
  PROVE  /\ Fault => spent' \in [edits : Nat, faults : Nat] /\ spent'.faults >= spent.faults
                     /\ spent'.faults > 0
         /\ Edit => spent' \in [edits : Nat, faults : Nat] /\ spent'.faults = spent.faults
BY DEF RecordType, Fault, Edit

\* Every step keeps the accounts.
LEMMA AccountStep ==
  ASSUME Inv, AccountInv, [Next]_vars
  PROVE  AccountInv'
<1>a. TypeInv /\ RecordType /\ RowInv /\ MakerInv
  BY DEF Inv, AccountInv
<1>b. \A d \in Runs : run[d] \in Delivery /\ RowAgrees(run[d], row[d], spent.faults)
  BY <1>a DEF TypeInv, RowInv
<1>c. spent \in [edits : Nat, faults : Nat] /\ spent.faults \in Nat /\ spent.faults >= spent.faults
  BY <1>a DEF RecordType
<1>1. ASSUME NEW d \in Runs, Start(d)  PROVE AccountInv'
  <2>1. PICK s \in Sources, m \in MessageIds, pc \in {"dropped", "ask"} :
          run' = [run EXCEPT ![d].pc = pc, ![d].source = s, ![d].message = m]
    BY <1>1 DEF Start
  <2> DEFINE r == [run[d] EXCEPT !.pc = pc, !.source = s, !.message = m]
  <2>2. r \in Delivery /\ r.made = run[d].made /\ r.pc = pc
    BY <1>b DEF Delivery, Places
  <2>3. run' = [run EXCEPT ![d] = r]
    BY <2>1 DEF TypeInv, Delivery
  <2> HIDE DEF r
  <2>4. run[d].made = 0 /\ row[d] = NoRow /\ UNCHANGED <<board, row, spent>>
    BY <1>1, <1>b DEF Start, RowAgrees
  <2>5. RowAgrees(r, row[d], spent.faults)
    BY <2>2, <2>4 DEF RowAgrees
  <2> QED
    BY <1>a, <2>2, <2>3, <2>4, <2>5, GoingOnKeepsAccounts
<1>2. ASSUME NEW d \in Runs, Ask(d)  PROVE AccountInv'
  <2>1. run[d].pc = "ask" /\ UNCHANGED <<board, row, spent>>
    BY <1>2 DEF Ask, AskFails, AskSaysNone, AskFindsTask, AskRaises
  <2>2. run[d].made = 0 /\ row[d] = NoRow
    BY <1>b, <2>1 DEF RowAgrees
  <2>3. ASSUME NEW status \in {"error", "skipped"}, Writing(d, status)  PROVE AccountInv'
    <3>1. RowAgrees(Left(run[d], "record", status), row[d], spent.faults)
      BY <1>b, <2>2, LeftKeeps DEF RowAgrees, Places, Status
    <3>2. run' = [run EXCEPT ![d] = Left(@, "record", status)]
      BY <2>3 DEF Writing
    <3> QED
      BY <1>a, <1>c, <2>1, <3>1, <3>2, LeavingKeepsAccounts DEF AccountInv, Places, Status
  <2>4. CASE AskFindsTask(d)
    <3>1. PICK k \in Keys, c \in CourseOrNone :
            run' = [run EXCEPT ![d].pc = "enter", ![d].key = k, ![d].course = c]
      BY <2>4 DEF AskFindsTask
    <3> DEFINE r == [run[d] EXCEPT !.pc = "enter", !.key = k, !.course = c]
    <3>2. /\ r \in Delivery /\ r.made = run[d].made /\ r.pc = "enter"
          /\ r.source = run[d].source /\ r.message = run[d].message
      BY <1>b DEF Delivery, Places
    <3>3. run' = [run EXCEPT ![d] = r]
      BY <3>1 DEF TypeInv, Delivery
    <3> HIDE DEF r
    <3>4. RowAgrees(r, row[d], spent.faults)
      BY <2>2, <3>2 DEF RowAgrees
    <3> QED
      BY <1>a, <2>1, <3>2, <3>3, <3>4, GoingOnKeepsAccounts
  <2>5. CASE AskRaises(d)
    <3>1. RowAgrees(Left(run[d], "raised", "none"), row[d], spent.faults)
      BY <1>b, <2>2, LeftKeeps DEF RowAgrees, Places
    <3>2. run' = [run EXCEPT ![d] = Left(@, "raised", "none")]
      BY <2>5 DEF AskRaises, Ended
    <3> QED
      BY <1>a, <1>c, <2>1, <3>1, <3>2, LeavingKeepsAccounts DEF AccountInv, Places
  <2> QED
    BY <1>2, <2>3, <2>4, <2>5 DEF Ask, AskFails, AskSaysNone
<1>3. ASSUME NEW d \in Runs, CheckDuplicate(d)  PROVE AccountInv'
  <2>1. /\ run[d].pc = "enter" /\ UNCHANGED <<board, row, spent>>
        /\ Writing(d, "duplicate") \/ run' = [run EXCEPT ![d].pc = "insert"]
    BY <1>3 DEF CheckDuplicate
  <2>2. run[d].made = 0 /\ row[d] = NoRow
    BY <1>b, <2>1 DEF RowAgrees
  <2>3. CASE Writing(d, "duplicate")
    <3>1. RowAgrees(Left(run[d], "record", "duplicate"), row[d], spent.faults)
      BY <1>b, <2>2, LeftKeeps DEF RowAgrees, Places, Status
    <3>2. run' = [run EXCEPT ![d] = Left(@, "record", "duplicate")]
      BY <2>3 DEF Writing
    <3> QED
      BY <1>a, <1>c, <2>1, <3>1, <3>2, LeavingKeepsAccounts DEF AccountInv, Places, Status
  <2>4. CASE run' = [run EXCEPT ![d].pc = "insert"]
    <3> DEFINE r == [run[d] EXCEPT !.pc = "insert"]
    <3>1. /\ r \in Delivery /\ r.made = run[d].made /\ r.pc = "insert"
          /\ r.source = run[d].source /\ r.message = run[d].message
      BY <1>b DEF Delivery, Places
    <3>2. run' = [run EXCEPT ![d] = r]
      BY <2>4
    <3> HIDE DEF r
    <3>3. RowAgrees(r, row[d], spent.faults)
      BY <2>2, <3>1 DEF RowAgrees
    <3> QED
      BY <1>a, <2>1, <3>1, <3>2, <3>3, GoingOnKeepsAccounts
  <2> QED
    BY <2>1, <2>3, <2>4
<1>4. ASSUME NEW d \in Runs, Insert(d)  PROVE AccountInv'
  <2>1. PICK id \in Ids, sure \in BOOLEAN :
          /\ board' = board \union {[id |-> id, source |-> run[d].source,
                                     message |-> run[d].message, key |-> run[d].key,
                                     course |-> run[d].course, at |-> now]}
          /\ run' = [run EXCEPT ![d] =
               [Left(@, IF sure THEN "plan" ELSE "record", "success") EXCEPT !.made = id]]
    BY <1>4 DEF Insert
  <2> DEFINE pc == IF sure THEN "plan" ELSE "record"
             r == [Left(run[d], pc, "success") EXCEPT !.made = id]
  <2>2. pc \in {"plan", "record"} /\ pc \in Places
    BY DEF Places
  <2>3. run' = [run EXCEPT ![d] = r]
    BY <2>1
  <2> HIDE DEF pc
  <2>4. /\ r \in Delivery /\ r.made = id /\ r.pc = pc /\ r.status = "success"
        /\ r.source = run[d].source /\ r.message = run[d].message
    <3> DEFINE l == Left(run[d], pc, "success")
    <3>1. /\ l \in Delivery /\ l.pc = pc /\ l.status = "success"
          /\ l.source = run[d].source /\ l.message = run[d].message
      <4>1. run[d] \in Delivery /\ "success" \in Status \union {"none"}
        BY <1>b DEF Status
      <4> HIDE DEF r
      <4> QED
        BY <2>2, <4>1, LeftKeeps
    <3> HIDE DEF l
    <3>2. [l EXCEPT !.made = id] = r
      BY DEF l
    <3>3. LET k == [l EXCEPT !.made = id] IN
            /\ k \in Delivery /\ k.made = id /\ k.pc = pc /\ k.status = "success"
            /\ k.source = run[d].source /\ k.message = run[d].message
      BY <3>1 DEF Delivery
    <3> HIDE DEF r
    <3> QED
      BY <3>2, <3>3
  <2> HIDE DEF r
  <2>5. id # 0
    BY ConstantsAreNat
  <2>6. run[d].made = 0 /\ row[d] = NoRow /\ UNCHANGED <<row, spent>>
    BY <1>4, <1>b DEF Insert, RowAgrees
  <2>7. RowAgrees(r, row[d], spent.faults)
    BY <2>2, <2>4, <2>5, <2>6 DEF RowAgrees, Status
  <2>8. RowInv'
    BY <1>a, <1>c, <2>3, <2>4, <2>6, <2>7, AgreementOfOne
  <2>9. \A e \in Runs : run[e].made # 0 =>
          run'[e].made # 0 /\ run'[e].source = run[e].source /\ run'[e].message = run[e].message
    BY <1>a, <2>3, <2>6 DEF TypeInv
  <2>10. run'[d].source = run[d].source /\ run'[d].message = run[d].message /\ run'[d].made # 0
    BY <1>a, <2>3, <2>4, <2>5 DEF TypeInv
  <2>11. MakerInv'
    <3>1. \A b \in board' : b.message # NoMessage =>
            \/ \E c \in board : c.source = b.source /\ c.message = b.message
            \/ \E e \in Runs : run'[e].source = b.source /\ run'[e].message = b.message
                             /\ run'[e].made # 0
      BY <2>1, <2>10
    <3> QED
      BY <1>a, <2>9, <3>1, MakersStay
  <2> QED
    BY <1>a, <2>6, <2>8, <2>11 DEF AccountInv, RecordType
<1>5. ASSUME NEW d \in Runs, Plan(d)  PROVE AccountInv'
  <2> DEFINE r == [run[d] EXCEPT !.pc = "record"]
  <2>1. /\ r \in Delivery /\ r.made = run[d].made /\ r.pc = "record" /\ r.status = run[d].status
        /\ r.source = run[d].source /\ r.message = run[d].message
    BY <1>b DEF Delivery, Places
  <2>2. run' = [run EXCEPT ![d] = r] /\ UNCHANGED <<board, row, spent>> /\ run[d].pc = "plan"
    BY <1>5 DEF Plan
  <2> HIDE DEF r
  <2>3. RowAgrees(r, row[d], spent.faults)
    BY <1>b, <2>1, <2>2 DEF RowAgrees
  <2> QED
    BY <1>a, <2>1, <2>2, <2>3, GoingOnKeepsAccounts
<1>6. ASSUME NEW d \in Runs, Record(d)  PROVE AccountInv'
  <2> DEFINE r == Left(run[d], "recorded", "none")
             w == [status |-> run[d].status, task |-> run[d].made]
  <2>1. /\ r.pc = "recorded" /\ r.made = run[d].made
        /\ r.source = run[d].source /\ r.message = run[d].message
    BY <1>b, LeftKeeps DEF Places
  <2>2. /\ run[d].pc = "record" /\ UNCHANGED <<board, spent>>
        /\ run' = [run EXCEPT ![d] = r] /\ row' = [row EXCEPT ![d] = w]
    BY <1>6 DEF Record, Ended
  <2>3. w \in [status : Status \union {"none"}, task : Ids \union {0}]
        /\ w.status = run[d].status /\ w.task = run[d].made
    BY <1>b DEF Delivery
  <2> HIDE DEF r, w
  <2>4. RowAgrees(r, w, spent.faults)
    BY <1>b, <2>1, <2>2, <2>3 DEF RowAgrees
  <2>5. /\ run'[d] = r /\ row'[d] = w
        /\ \A e \in Runs \ {d} : run'[e] = run[e] /\ row'[e] = row[e]
    BY <1>a, <2>2 DEF TypeInv, RecordType
  <2>6. RowInv'
    BY <1>b, <2>2, <2>4, <2>5 DEF RowInv
  <2>7. \A e \in Runs : run'[e].made = run[e].made /\ run'[e].source = run[e].source
                        /\ run'[e].message = run[e].message
    BY <2>1, <2>5
  <2>8. MakerInv'
    BY <1>a, <2>2, <2>7, MakersStay
  <2>9. RecordType'
    BY <1>a, <2>2, <2>3 DEF RecordType
  <2> QED
    BY <2>6, <2>8, <2>9 DEF AccountInv
<1>7. ASSUME NEW d \in Runs, Raise(d)  PROVE AccountInv'
  <2>1. /\ run[d].pc \in {"enter", "insert", "plan", "record"} /\ UNCHANGED <<board, row>>
        /\ run' = [run EXCEPT ![d] = Left(@, "raised", "none")]
        /\ Fault
    BY <1>7 DEF Raise, Ended
  <2>2. spent' \in [edits : Nat, faults : Nat] /\ spent'.faults >= spent.faults /\ spent'.faults > 0
    BY <1>a, <2>1, CountsAreNat
  <2>3. row[d] = NoRow
    BY <1>b, <2>1 DEF RowAgrees
  <2>4. RowAgrees(Left(run[d], "raised", "none"), row[d], spent'.faults)
    <3> DEFINE r == Left(run[d], "raised", "none")
    <3>1. r.pc = "raised" /\ r.made = run[d].made
      BY <1>b, LeftKeeps DEF Places
    <3> HIDE DEF r
    <3>2. RowAgrees(r, row[d], spent'.faults)
      BY <2>2, <2>3, <3>1 DEF RowAgrees
    <3> QED
      BY <3>2 DEF r
  <2> QED
    BY <1>a, <2>1, <2>2, <2>4, LeavingKeepsAccounts DEF AccountInv, Places
<1>8. CASE Enter \/ Correct \/ Remove
  <2>1. UNCHANGED <<row, run>> /\ Edit
    BY <1>8 DEF Enter, Correct, Remove
  <2>2. spent' \in [edits : Nat, faults : Nat] /\ spent'.faults = spent.faults
    BY <1>a, <2>1, CountsAreNat
  <2>3. \A b \in board' : b.message # NoMessage =>
          \E c \in board : c.source = b.source /\ c.message = b.message
    <3>1. CASE Enter
      BY <3>1 DEF Enter
    <3>2. CASE Correct
      <4>1. PICK c \in board, k \in Keys, e \in CourseOrNone :
              board' = (board \ {c}) \union {[c EXCEPT !.key = k, !.course = e]}
        BY <3>2 DEF Correct
      <4>2. c \in Task
        BY <1>a DEF TypeInv
      <4>3. [c EXCEPT !.key = k, !.course = e].source = c.source
            /\ [c EXCEPT !.key = k, !.course = e].message = c.message
        BY <4>2 DEF Task
      <4> QED
        BY <4>1, <4>3
    <3>3. CASE Remove
      BY <3>3 DEF Remove
    <3> QED
      BY <1>8, <3>1, <3>2, <3>3
  <2>4. MakerInv'
    BY <1>a, <2>1, <2>3, MakersStay
  <2> QED
    BY <1>a, <2>1, <2>2, <2>4 DEF AccountInv, RecordType, RowInv
<1>9. CASE Crash
  <2>1. /\ UNCHANGED <<board, row>> /\ Fault
        /\ \A d \in Runs : run'[d] = IF Running(d) THEN Left(run[d], "killed", "none") ELSE run[d]
    BY <1>9 DEF Crash
  <2>2. spent' \in [edits : Nat, faults : Nat] /\ spent'.faults >= spent.faults /\ spent'.faults > 0
    BY <1>a, <2>1, CountsAreNat
  <2>3. ASSUME NEW d \in Runs
        PROVE  /\ RowAgrees(run'[d], row[d], spent'.faults)
               /\ run'[d].made = run[d].made /\ run'[d].source = run[d].source
               /\ run'[d].message = run[d].message
    <3>1. CASE Running(d)
      <4>1. row[d] = NoRow
        BY <1>b, <3>1 DEF RowAgrees, Running
      <4> QED
        BY <1>b, <2>1, <2>2, <3>1, <4>1, LeftKeeps DEF RowAgrees, Places
    <3>2. CASE ~Running(d)
      BY <1>b, <1>c, <2>1, <2>2, <3>2 DEF RowAgrees
    <3> QED
      BY <3>1, <3>2
  <2>4. RowInv' /\ MakerInv'
    BY <1>a, <2>1, <2>3, MakersStay DEF RowInv
  <2> QED
    BY <1>a, <2>1, <2>2, <2>4 DEF AccountInv, RecordType
<1>10. CASE Tick \/ UNCHANGED vars
  BY <1>a, <1>10 DEF Tick, vars, AccountInv, RecordType, RowInv, MakerInv
<1> QED
  BY <1>1, <1>2, <1>3, <1>4, <1>5, <1>6, <1>7, <1>8, <1>9, <1>10 DEF Next, Step

-----------------------------------------------------------------------------
(* Theorems                                                                *)

\* The inductive invariant: types, one delivery in the critical section, and
\* what a delivery read there still true when it inserts.
THEOREM PipelineInvariant == Spec => []Inv
<1>1. Init => Inv
  <2> SUFFICES ASSUME Init  PROVE Inv
    OBVIOUS
  <2>1. TypeInv
    <3>1. NewRun \in Delivery
      BY DEF NewRun, Delivery, Places, CourseOrNone
    <3>2. IsFiniteSet({})
      BY FS_EmptySet
    <3> QED
      BY <3>1, <3>2, ConstantsAreNat DEF Init, TypeInv, NewRun
  <2>2. LockInv /\ InsertInv
    BY DEF Init, LockInv, InsertInv, Inside, NewRun
  <2> QED
    BY <2>1, <2>2 DEF Inv
<1>2. Inv /\ [Next]_vars => Inv'
  BY TypeStep, LockStep, InsertStep DEF Inv
<1> QED
  BY <1>1, <1>2, PTL DEF Spec

\* TaskService's lock (services/task_service.py) is never left behind by a
\* delivery that failed, was killed, or has gone on to write its row.
THEOREM LockTheorem == Spec => []LockIsOwned
<1>1. Inv => LockIsOwned
  BY DEF Inv, LockInv, Inside, LockIsOwned
<1> QED
  BY <1>1, PipelineInvariant, PTL

\* The concurrent handlers of tasks/pipeline.py implement the board on which
\* an obligation is put once.
THEOREM BoardTheorem == Spec => ImplementsBoard
<1>1. Init => Board!Init
  BY DEF Init, Board!Init
<1>2. Inv /\ [Next]_vars => [Board!Next]_<<now, board>>
  <2> SUFFICES ASSUME Inv, [Next]_vars
               PROVE  [Board!Next]_<<now, board>>
    OBVIOUS
  <2>1. ASSUME NEW d \in Runs, Insert(d)  PROVE Board!Announce
    <3>1. PICK id \in Ids :
            /\ IsNextId(id)
            /\ board' = board \union {[id |-> id, source |-> run[d].source,
                                       message |-> run[d].message, key |-> run[d].key,
                                       course |-> run[d].course, at |-> now]}
      BY <2>1 DEF Insert
    <3>2. /\ run[d].pc = "insert" /\ UNCHANGED now
          /\ run[d].source \in Sources /\ run[d].message \in MessageIds
          /\ run[d].key \in Keys /\ run[d].course \in CourseOrNone
      BY <2>1 DEF Insert, Inv, TypeInv, Delivery
    <3>3. \A b \in board : b.id # id
      BY <3>1 DEF IsNextId, Inv, TypeInv, Task
    <3>4. \A b \in board : ~(b.source = run[d].source /\ b.message = run[d].message)
      BY <3>2 DEF Inv, InsertInv, FromMessage
    <3>5. \A b \in board : Board!Recent(b) /\ Board!Visible(b) => ~Clash(b, run[d])
      BY <3>2 DEF Inv, InsertInv
    <3> DEFINE n == [id |-> id, source |-> run[d].source, message |-> run[d].message,
                     key |-> run[d].key, course |-> run[d].course, at |-> now]
    <3>6. \A b \in board : Board!Clash(b, n) <=> Clash(b, run[d])
      BY DEF Board!Clash, Clash
    <3>7. \A b \in board : Board!Recent(b) /\ Board!Visible(b) => ~Board!Clash(b, n)
      BY <3>5, <3>6
    <3>8. run[d].course \in Board!CourseOrNone
      BY <3>2 DEF Board!CourseOrNone, CourseOrNone
    <3> QED
      BY <3>1, <3>2, <3>3, <3>4, <3>7, <3>8 DEF Board!Announce
  <2>2. ASSUME Enter  PROVE Board!Enter
    BY <2>2 DEF Enter, Board!Enter, IsNextId, Inv, TypeInv, Task,
                Board!CourseOrNone, CourseOrNone
  <2>3. ASSUME Correct  PROVE Board!Correct
    BY <2>3 DEF Correct, Board!Correct, Board!CourseOrNone, CourseOrNone
  <2>4. ASSUME Remove  PROVE Board!Remove
    BY <2>4 DEF Remove, Board!Remove
  <2>5. ASSUME Tick  PROVE Board!Advance
    BY <2>5 DEF Tick, Board!Advance
  <2>6. ASSUME NEW d \in Runs,
               Start(d) \/ Ask(d) \/ CheckDuplicate(d) \/ Plan(d) \/ Record(d) \/ Raise(d)
        PROVE  UNCHANGED <<now, board>>
    BY <2>6 DEF Start, Ask, AskFails, AskSaysNone, AskFindsTask, AskRaises,
                CheckDuplicate, Plan, Record, Raise
  <2>7. ASSUME Crash \/ UNCHANGED vars  PROVE UNCHANGED <<now, board>>
    BY <2>7 DEF Crash, vars
  <2> QED
    BY <2>1, <2>2, <2>3, <2>4, <2>5, <2>6, <2>7 DEF Next, Step, Board!Next
<1> QED
  BY <1>1, <1>2, PipelineInvariant, PTL DEF Spec, ImplementsBoard, Board!Spec

\* A success in the extractions table (tasks/pipeline.py) was written by a
\* delivery that made a task, and every task from a message has its row, unless
\* the delivery that made it is still to write it or a fault cut it short.
THEOREM AccountTheorem == Spec => []Accounted
<1>1. Init => AccountInv
  BY DEF Init, AccountInv, RecordType, RowInv, RowAgrees, MakerInv, NewRun, NoRow
<1>2. Inv /\ AccountInv /\ [Next]_vars => AccountInv'
  BY AccountStep
<1>3. Inv /\ AccountInv => Accounted
  <2> SUFFICES ASSUME Inv, AccountInv  PROVE Accounted
    OBVIOUS
  <2>1. \A d \in Runs : run[d] \in Delivery /\ RowAgrees(run[d], row[d], spent.faults)
    BY DEF Inv, TypeInv, AccountInv, RowInv
  <2>2. \A d \in Runs : row[d].status = "success" => run[d].made # 0
    BY <2>1 DEF RowAgrees, NoRow
  <2>3. \A d \in Runs : run[d].pc = "recorded" => row[d].status \in Status
    BY <2>1 DEF RowAgrees
  <2>4. ASSUME NEW d \in Runs, run[d].made # 0
        PROVE  \/ row[d] = [status |-> "success", task |-> run[d].made]
               \/ run[d].pc \in {"plan", "record"}
               \/ run[d].pc \in {"raised", "killed"} /\ spent.faults > 0
    <3>1. CASE run[d].pc = "recorded"
      BY <2>1, <2>4, <3>1 DEF RowAgrees, AccountInv, RecordType
    <3>2. CASE run[d].pc # "recorded"
      BY <2>1, <2>4, <3>2 DEF RowAgrees, Delivery, Places
    <3> QED
      BY <3>1, <3>2
  <2>5. \A b \in board : b.message # NoMessage =>
          \E d \in Runs : run[d].source = b.source /\ run[d].message = b.message
                        /\ run[d].made # 0
    BY DEF AccountInv, MakerInv
  <2> QED
    BY <2>2, <2>3, <2>4, <2>5 DEF Accounted
<1> QED
  BY <1>1, <1>2, <1>3, PipelineInvariant, PTL DEF Spec

=============================================================================
