--------------------------- MODULE MCAgentRuntime ---------------------------
(***************************************************************************)
(* Properties of AgentRuntime that TLC checks on small instances.          *)
(***************************************************************************)
EXTENDS AgentRuntime

\* Every variable has its type, and the table keeps to its capacity.
TypeOK ==
  /\ conv \in [Threads -> Turns \cup {None}]
  /\ Cardinality(Open) <= MaxThreads
  /\ uses \in 0 .. Cardinality(Turns)
  /\ lastUsed \in [Threads -> 0 .. uses]
  /\ bound \in [Threads -> Sources \cup {None}]
  /\ pending \in [Threads -> Turns \cup {None}]
  /\ \A o \in Turns : lock[o].locked \in BOOLEAN /\ lock[o].waiters \in Seq(Turns)
  /\ cut \subseteq Turns
  /\ turn \in [Turns -> [pc : {"new", "wait", "loop", "execute", "end"},
                         thread : Threads \cup {None}, source : Sources \cup {None},
                         word : Word \cup {None}, obj : Turns \cup {None},
                         proposal : Turns \cup {None}, saw : Turns \cup {None},
                         step : 0 .. MaxSteps, half : BOOLEAN]]
  /\ runs \in [Turns -> Nat]
  /\ withdrawn \subseteq Turns

\* A proposal is executed once at most, although two turns of one thread can
\* run side by side after an eviction.
NotReplayed == \A p \in Turns : runs[p] <= 1

Executing(u) == turn[u].pc = "execute"

\* A proposal is executed only by a turn of its own thread and source, also
\* when an evicted thread came back under another source while a turn waited.
RunsInItsScope ==
  \A u \in Turns : Executing(u) =>
    /\ turn[turn[u].proposal].thread = turn[u].thread
    /\ turn[turn[u].proposal].source = turn[u].source

\* A proposal that the user rejected or left for another topic never runs.
WithdrawnNeverRuns ==
  [][\A p \in withdrawn : runs'[p] = runs[p]]_vars

\* The conversation of a turn that holds its lock stays in the table until
\* the turn ends, if it was there when the turn began.
BusyIsNotEvicted ==
  [][\A u \in Turns : turn[u].pc \in {"loop", "execute"} /\ conv[turn[u].thread] = turn[u].obj
        => conv'[turn[u].thread] = turn[u].obj]_vars

\* Every turn that waits for its conversation gets its reply, also when the
\* conversation was evicted meanwhile.
TurnsEnd == \A u \in Turns : turn[u].pc = "wait" ~> turn[u].pc = "end"

-----------------------------------------------------------------------------
(* Claims of documents and docstrings that the code does not keep.         *)

\* agents/conversation.py:6 and agents/budget.py:9: what the provider is sent
\* is protocol-valid, never half a tool exchange.
RequestIsWhole == \A u \in Turns : ~turn[u].half

\* docs/v2/M7_PRODUCT_CONTRACT.md: the Agent asks first, and the mutation
\* follows the confirmation.  So a turn executes a proposal only if its user
\* could have seen it, that is, it was pending when the turn arrived.
ConfirmedWasSeen ==
  \A u \in Turns : Executing(u) => turn[u].proposal = turn[u].saw

=============================================================================
