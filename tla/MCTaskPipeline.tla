--------------------------- MODULE MCTaskPipeline ---------------------------
(***************************************************************************)
(* Properties of TaskPipeline that TLC checks on small instances.           *)
(***************************************************************************)
EXTENDS TaskPipeline, TLC

\* Messages and courses are alike, and every property is a safety property.
Symmetry == Permutations(MessageIds) \union Permutations(Courses)

\* The refinement mapping: the board the handlers share is the abstract one, and
\* an id is any that the table can give.
Board == INSTANCE TaskBoard WITH
           Ids <- Ids, Sources <- Sources, MessageIds <- MessageIds, Keys <- Keys,
           Courses <- Courses, Unknown <- Unknown, NoMessage <- NoMessage,
           Window <- Window, Limit <- Limit, now <- now, board <- board

\* The handlers, their reads and their writes in separate transactions,
\* implement a board on which an obligation is put once, by one step.
ImplementsBoard == Board!Spec

\* Provenance (tasks/pipeline.py): a success in the extractions table was
\* written by a delivery that created a task; and every task that came from a
\* message has such a row, unless the delivery that made it is still on its
\* way to write it, or was cut short by a fault.
Accounted ==
  /\ \A d \in Runs : row[d].status = "success" => run[d].made # 0
  /\ \A d \in Runs : run[d].pc = "recorded" => row[d].status \in Status
  /\ \A b \in board : b.message # NoMessage =>
       \E d \in Runs :
         /\ run[d].source = b.source /\ run[d].message = b.message
         /\ run[d].made # 0
         /\ \/ row[d] = [status |-> "success", task |-> run[d].made]
            \/ run[d].pc \in {"plan", "record"}
            \/ run[d].pc \in {"raised", "killed"} /\ spent.faults > 0

\* Whatever fails in the critical section, the lock belongs to a delivery
\* that is still inside; otherwise every later task of every chat would wait
\* for ever.
LockIsOwned == lock # Free => run[lock].pc \in {"insert", "plan"}

=============================================================================
