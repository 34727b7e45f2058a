---------------------------- MODULE StreamProofs ----------------------------
(***************************************************************************)
(* Proof about EventStream, for every queue size, number of pages and       *)
(* connections: whoever is registered is served.                            *)
(***************************************************************************)
EXTENDS MCEventStream, TLAPS

Places == {"none", "asked", "route", "open", "waiting", "ended"}

\* What the proof needs of the types.
TypeInv ==
  /\ said \in Nat
  /\ slots \subseteq Streams
  /\ queue \in [Streams -> Seq(Nat)]
  /\ stream \in [Streams -> [pc : Places, closed : BOOLEAN, last : Nat]]

\* A connection the server has not seen yet owns nothing in the hub; so its
\* queue is empty when it subscribes.
Fresh(i) ==
  stream[i].pc \in {"none", "asked"} =>
    i \notin slots /\ queue[i] = <<>> /\ ~stream[i].closed

Inv == TypeInv /\ (\A i \in Streams : Fresh(i)) /\ RegisteredIsServed

-----------------------------------------------------------------------------
\* Appending the next event leaves a registered subscriber without a gap.
LEMMA AppendServes ==
  ASSUME NEW q \in Seq(Nat), NEW last \in Nat, NEW n \in Nat,
         last + Len(q) = n, \A k \in 1..Len(q) : q[k] = last + k
  PROVE  /\ Append(q, n + 1) \in Seq(Nat)
         /\ last + Len(Append(q, n + 1)) = n + 1
         /\ \A k \in 1..Len(Append(q, n + 1)) : Append(q, n + 1)[k] = last + k
OBVIOUS

\* So does taking the oldest.
LEMMA TailServes ==
  ASSUME NEW q \in Seq(Nat), NEW last \in Nat, NEW n \in Nat, q # <<>>,
         last + Len(q) = n, \A k \in 1..Len(q) : q[k] = last + k
  PROVE  /\ Tail(q) \in Seq(Nat) /\ Head(q) = last + 1
         /\ Head(q) + Len(Tail(q)) = n
         /\ \A k \in 1..Len(Tail(q)) : Tail(q)[k] = Head(q) + k
<1>1. Len(q) \in Nat \ {0} /\ Head(q) = q[1]
  OBVIOUS
<1>2. Head(q) = last + 1
  BY <1>1
<1>3. Tail(q) \in Seq(Nat) /\ Len(Tail(q)) = Len(q) - 1
  OBVIOUS
<1>4. \A k \in 1..Len(Tail(q)) : Tail(q)[k] = q[k + 1]
  OBVIOUS
<1>5. ASSUME NEW k \in 1..Len(Tail(q))
      PROVE  Tail(q)[k] = Head(q) + k
  <2>1. k \in Nat /\ k + 1 \in 1..Len(q)
    BY <1>1, <1>3
  <2>2. q[k + 1] = last + (k + 1)
    BY <2>1
  <2>3. Tail(q)[k] = q[k + 1]
    BY <1>4
  <2>4. last + (k + 1) = (last + 1) + k
    BY <2>1
  <2> QED
    BY <1>2, <2>2, <2>3, <2>4
<1> QED
  BY <1>1, <1>2, <1>3, <1>5

LEMMA InitInv == Init => Inv
BY DEF Init, Inv, TypeInv, Fresh, RegisteredIsServed, Places, NewStream

\* A stream that leaves the hub leaves the others alone.
LEMMA UnsubscribedInv ==
  ASSUME Inv, NEW i \in Streams, Unsubscribed(i), UNCHANGED <<said, queue>>
  PROVE  Inv'
<1> USE DEF Inv, TypeInv, Unsubscribed
<1>1. TypeInv'
  BY DEF Places
<1>2. ASSUME NEW j \in Streams
      PROVE  Fresh(j)'
  BY DEF Fresh
<1>3. ASSUME NEW j \in slots'
      PROVE  Served(j)'
  BY DEF RegisteredIsServed, Served
<1> QED
  BY <1>1, <1>2, <1>3 DEF RegisteredIsServed

\* So does one that only goes on to its next place.
LEMMA MoveInv ==
  ASSUME Inv, NEW i \in Streams, NEW p \in Places,
         stream' = [stream EXCEPT ![i].pc = p],
         UNCHANGED <<said, slots, queue>>,
         p \in {"none", "asked"} => stream[i].pc \in {"none", "asked"},
         i \in slots => p \in {"route", "open", "waiting"}
  PROVE  Inv'
<1> USE DEF Inv, TypeInv
<1>1. TypeInv'
  OBVIOUS
<1>2. ASSUME NEW j \in Streams
      PROVE  Fresh(j)'
  BY DEF Fresh
<1>3. ASSUME NEW j \in slots'
      PROVE  Served(j)'
  BY DEF RegisteredIsServed, Served
<1> QED
  BY <1>1, <1>2, <1>3 DEF RegisteredIsServed

LEMMA SubscribeInv ==
  ASSUME Inv, NEW i \in Streams, Subscribe(i)
  PROVE  Inv'
<1> USE DEF Inv, TypeInv, Subscribe
<1>1. TypeInv'
  BY DEF Places
<1>2. ASSUME NEW j \in Streams
      PROVE  Fresh(j)'
  BY DEF Fresh
<1>3. ASSUME NEW j \in slots'
      PROVE  Served(j)'
  <2>1. CASE j = i
    BY <2>1 DEF Fresh, Served
  <2>2. CASE j # i
    BY <2>2 DEF RegisteredIsServed, Served
  <2> QED
    BY <2>1, <2>2
<1> QED
  BY <1>1, <1>2, <1>3 DEF RegisteredIsServed

LEMMA PublishInv == Inv /\ Publish => Inv'
<1> SUFFICES ASSUME Inv, Publish
             PROVE  Inv'
  OBVIOUS
<1> USE DEF Inv, TypeInv, Publish
<1>1. ASSUME NEW i \in slots, Fits(i)
      PROVE  queue'[i] = Append(queue[i], said + 1) /\ stream'[i] = stream[i]
  BY <1>1
<1>2. ASSUME NEW i \in Streams, ~(i \in slots /\ Fits(i))
      PROVE  queue'[i] = queue[i]
  BY <1>2
<1>3. queue' \in [Streams -> Seq(Nat)]
  OBVIOUS
<1>4. stream' \in [Streams -> [pc : Places, closed : BOOLEAN, last : Nat]]
  OBVIOUS
<1>5. ASSUME NEW i \in Streams
      PROVE  Fresh(i)'
  BY <1>2 DEF Fresh
<1>6. ASSUME NEW i \in slots'
      PROVE  Served(i)'
  <2>1. i \in slots /\ Fits(i) /\ Served(i)
    BY DEF RegisteredIsServed
  <2>2. queue'[i] = Append(queue[i], said + 1) /\ stream'[i] = stream[i]
    BY <1>1, <2>1
  <2> QED
    BY <2>1, <2>2, AppendServes DEF Served
<1> QED
  BY <1>3, <1>4, <1>5, <1>6 DEF RegisteredIsServed

LEMMA DeliverInv ==
  ASSUME Inv, NEW i \in Streams, Deliver(i)
  PROVE  Inv'
<1> USE DEF Inv, TypeInv, Deliver, Awake
<1>1. queue[i] \in Seq(Nat) /\ queue[i] # <<>>
  OBVIOUS
<1>2. Head(queue[i]) \in Nat /\ Tail(queue[i]) \in Seq(Nat)
  BY <1>1
<1>3. TypeInv'
  BY <1>2
<1>4. ASSUME NEW j \in Streams
      PROVE  Fresh(j)'
  BY DEF Fresh
<1>5. ASSUME NEW j \in slots'
      PROVE  Served(j)'
  <2>1. Served(j)
    BY DEF RegisteredIsServed
  <2>2. CASE j = i
    BY <1>1, <2>1, <2>2, TailServes DEF Served
  <2>3. CASE j # i
    BY <2>1, <2>3 DEF Served
  <2> QED
    BY <2>2, <2>3
<1> QED
  BY <1>3, <1>4, <1>5 DEF RegisteredIsServed

LEMMA ServeInv ==
  ASSUME Inv, NEW i \in Streams, Serve(i)
  PROVE  Inv'
<1>1. CASE Subscribe(i)
  BY <1>1, SubscribeInv
<1>2. CASE Begin(i)
  BY <1>2, MoveInv DEF Begin, hub, Places
<1>3. CASE EnterHub(i)
  <2>1. CASE i \in slots
    BY <1>3, <2>1, MoveInv DEF EnterHub, Places
  <2>2. CASE i \notin slots
    BY <1>3, <2>2, UnsubscribedInv DEF EnterHub
  <2> QED
    BY <2>1, <2>2
<1>4. CASE Deliver(i)
  BY <1>4, DeliverInv
<1>5. CASE End(i) \/ Lose(i)
  BY <1>5, UnsubscribedInv DEF End, Lose
<1> QED
  BY <1>1, <1>2, <1>3, <1>4, <1>5 DEF Serve

\* The pages change nothing of the hub; Connect only asks for a stream.
LEMMA PageInv ==
  ASSUME Inv, NEW c \in Clients, Browse(c) \/ Break(c) \/ LoadFails(c)
  PROVE  Inv'
<1>1. CASE Connect(c)
  <2>1. PICK i \in Streams :
          stream[i].pc = "none" /\ stream' = [stream EXCEPT ![i].pc = "asked"]
    BY <1>1 DEF Connect
  <2>2. i \notin slots
    BY <2>1 DEF Inv, Fresh
  <2>3. UNCHANGED <<said, slots, queue>>
    BY <1>1 DEF Connect, hub
  <2> QED
    BY <2>1, <2>2, <2>3, MoveInv DEF Places
<1>2. CASE UNCHANGED <<hub, stream>>
  BY <1>2 DEF Inv, TypeInv, Fresh, RegisteredIsServed, Served, hub
<1>3. Browse(c) \/ Break(c) \/ LoadFails(c) => Connect(c) \/ UNCHANGED <<hub, stream>>
  BY DEF Browse, Opened, Read, ReadEnd, Answer, Show, Break, LoadFails, hub
<1> QED
  BY <1>1, <1>2, <1>3

LEMMA NextInv == Inv /\ [Next]_vars => Inv'
<1> SUFFICES ASSUME Inv, [Next]_vars
             PROVE  Inv'
  OBVIOUS
<1>1. CASE Commit \/ UNCHANGED vars
  BY <1>1 DEF Inv, TypeInv, Fresh, RegisteredIsServed, Served, Commit, vars
<1>2. CASE Publish
  BY <1>2, PublishInv
<1>3. CASE \E i \in Streams : Serve(i)
  BY <1>3, ServeInv
<1>4. CASE \E c \in Clients : Browse(c) \/ Break(c) \/ LoadFails(c)
  BY <1>4, PageInv
<1> QED
  BY <1>1, <1>2, <1>3, <1>4 DEF Next

\* In every state of every instance, a registered subscriber has a living
\* generator and no gap between what it took, what is queued and what was
\* published.
THEOREM StreamTheorem == Spec => []RegisteredIsServed
<1>1. Inv => RegisteredIsServed
  BY DEF Inv
<1> QED
  BY InitInv, NextInv, <1>1, PTL DEF Spec

=============================================================================
