------------------------------ MODULE TaskBoard ------------------------------
(***************************************************************************)
(* What the task table promises whoever reads the board: however many       *)
(* messages announce one obligation, and however often each of them is      *)
(* delivered, it is on the board once.                                      *)
(*                                                                          *)
(* An obligation is put on the board in one step, which looks at the whole  *)
(* board.  TaskPipeline, where the search for a duplicate and the insertion *)
(* are separate transactions of concurrent handlers, implements it.         *)
(***************************************************************************)
EXTENDS Integers, FiniteSets

CONSTANTS
  Ids,        \* ids a task can get
  Sources,    \* configured group chats
  MessageIds, \* message ids within a chat
  Keys,       \* what a notice says apart from its course
  Courses,    \* courses a notice can name
  Unknown,    \* no course is named
  NoMessage,  \* the message of a task entered by hand
  Window,     \* two announcements further apart are two obligations
  Limit       \* the promise looks no further back than this many tasks

VARIABLES
  now,   \* the clock
  board  \* the tasks: id, source, message, key, course and creation time

CourseOrNone == Courses \union {Unknown}

\* The same obligation of the same chat, as far as the two texts tell.
Clash(a, b) ==
  /\ a.source = b.source /\ a.key = b.key
  /\ a.course = b.course \/ a.course = Unknown \/ b.course = Unknown

\* At most Limit tasks of its chat are as new as b.
Visible(b) ==
  Cardinality({c \in board : c.source = b.source /\ c.at >= b.at}) <= Limit

Recent(b) == b.at >= now - Window

Init == now = 0 /\ board = {}

\* A new task: nothing on the board came from its message, and nothing recent
\* and visible is the same obligation.
Announce ==
  \E id \in Ids, s \in Sources, m \in MessageIds, k \in Keys, c \in CourseOrNone :
    LET n == [id |-> id, source |-> s, message |-> m, key |-> k, course |-> c, at |-> now] IN
      /\ \A b \in board : b.id # id
      /\ \A b \in board : ~(b.source = s /\ b.message = m)
      /\ \A b \in board : Recent(b) /\ Visible(b) => ~Clash(b, n)
      /\ board' = board \union {n}
      /\ UNCHANGED now

\* A person may enter, correct or delete what he likes.
Enter ==
  \E id \in Ids, s \in Sources, k \in Keys, c \in CourseOrNone :
    /\ \A b \in board : b.id # id
    /\ board' = board \union {[id |-> id, source |-> s, message |-> NoMessage,
                               key |-> k, course |-> c, at |-> now]}
    /\ UNCHANGED now

Correct ==
  \E b \in board, k \in Keys, c \in CourseOrNone :
    /\ board' = (board \ {b}) \union {[b EXCEPT !.key = k, !.course = c]}
    /\ UNCHANGED now

Remove == \E b \in board : board' = board \ {b} /\ UNCHANGED now

Advance == now' = now + 1 /\ UNCHANGED board

Next == Announce \/ Enter \/ Correct \/ Remove \/ Advance

Spec == Init /\ [][Next]_<<now, board>>

=============================================================================
