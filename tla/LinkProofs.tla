----------------------------- MODULE LinkProofs -----------------------------
(***************************************************************************)
(* Proofs about OneBotLink, for any number of connections, events, fired   *)
(* reminders and messages and any capacities: what becomes of an action,   *)
(* and that a repeated message is not handled again.                       *)
(***************************************************************************)
EXTENDS MCOneBotLink, TLAPS

ActPc == {"idle", "sem", "send", "wait", "ok", "failed", "done"}

ActRecord == [pc : ActPc,
              conn : Conns \cup {None},
              fut : {"none", "pending", "answered", "failed"}]

Frame == [kind : {"event"}, of : Events] \cup [kind : {"answer"}, of : Senders]

LoopRecord == [pc : {"new", "replace", "read", "publish", "ended"},
               event : Events \cup {None}]

Keys == Messages \cup {None}

\* What the proofs need of the types.
TypeInv ==
  /\ active \in Conns \cup {None}
  /\ act \in [Senders -> ActRecord]
  /\ loop \in [Conns -> LoopRecord]
  /\ wire \in [Conns -> Seq(Frame)]
  /\ key \in [Events -> Keys]
  /\ cache \in Seq(Keys) /\ recent \in Seq(Keys)

\* An answer under way, or taken, or believed, was given.
AnswerInv ==
  /\ \A c \in Conns : \A i \in 1 .. Len(wire[c]) :
       wire[c][i].kind = "answer" => wire[c][i].of \in replied
  /\ \A s \in Senders : act[s].fut = "answered" \/ act[s].pc = "ok" => s \in replied

\* A connection that was not accepted yet is not the active one.
ActiveInv == \A c \in Conns : loop[c].pc = "new" => active # c

\* The cache is the end of what was let through and has not expired: all of
\* it, or as much as the capacity allows.
CacheInv ==
  /\ Len(cache) <= Len(recent) /\ Len(cache) <= DedupCapacity
  /\ Len(cache) = DedupCapacity \/ Len(cache) = Len(recent)
  /\ \A i \in 1 .. Len(cache) : cache[i] = recent[Len(recent) - Len(cache) + i]

Inv == TypeInv /\ WaitsOnActive /\ AnswerInv /\ ActiveInv /\ CacheInv

-----------------------------------------------------------------------------
(* Lemmas                                                                  *)

LEMMA NoneIsNobody == None \notin Conns /\ None \notin Events /\ DedupCapacity \in Nat \ {0}
BY LinkAssumption

LEMMA TailOf ==
  ASSUME NEW S, NEW q \in Seq(S), q # <<>>
  PROVE  /\ Tail(q) \in Seq(S) /\ Len(Tail(q)) = Len(q) - 1
         /\ Len(q) \in Nat \ {0} /\ Head(q) \in S /\ Head(q) = q[1]
         /\ \A i \in 1 .. Len(q) - 1 : Tail(q)[i] = q[i + 1]
OBVIOUS

LEMMA AppendOf ==
  ASSUME NEW S, NEW q \in Seq(S), NEW x \in S
  PROVE  /\ Append(q, x) \in Seq(S) /\ Len(Append(q, x)) = Len(q) + 1
         /\ \A i \in 1 .. Len(q) : Append(q, x)[i] = q[i]
         /\ Append(q, x)[Len(q) + 1] = x
OBVIOUS

LEMMA PrefixOf ==
  ASSUME NEW S, NEW q \in Seq(S), NEW n \in 0 .. Len(q)
  PROVE  /\ SubSeq(q, 1, n) \in Seq(S) /\ Len(SubSeq(q, 1, n)) = n
         /\ \A i \in 1 .. n : SubSeq(q, 1, n)[i] = q[i]
OBVIOUS

\* What a frame says that the reader takes.
LEMMA NextIsFrame ==
  ASSUME TypeInv, NEW c \in Conns, wire[c] # <<>>
  PROVE  /\ NextFrame(c) = wire[c][1] /\ 1 \in 1 .. Len(wire[c])
         /\ NextFrame(c).kind = "event" => NextFrame(c).of \in Events
         /\ NextFrame(c).kind = "answer" => NextFrame(c).of \in Senders
<1>1. wire[c] \in Seq(Frame)
  BY DEF TypeInv
<1>2. NextFrame(c) \in Frame /\ NextFrame(c) = wire[c][1] /\ Len(wire[c]) \in Nat \ {0}
  BY <1>1, TailOf DEF NextFrame
<1> QED
  BY <1>2 DEF Frame

\* _fail_pending leaves no future of the current map pending.
LEMMA FailedEnds ==
  ASSUME TypeInv, WaitsOnActive
  PROVE  /\ Failed \in [Senders -> ActRecord]
         /\ \A s \in Senders : Failed[s].fut # "pending" /\ Failed[s].pc = act[s].pc
         /\ \A s \in Senders : Failed[s].fut = "answered" => act[s].fut = "answered"
<1>1. ASSUME NEW s \in Senders
      PROVE  /\ Failed[s] = IF s \in pend /\ act[s].fut = "pending"
                              THEN [act[s] EXCEPT !.fut = "failed"] ELSE act[s]
             /\ act[s] \in ActRecord
             /\ act[s].fut = "pending" => s \in pend
  BY DEF Failed, TypeInv, WaitsOnActive
<1>2. ASSUME NEW s \in Senders
      PROVE  /\ Failed[s] \in ActRecord
             /\ Failed[s].fut # "pending" /\ Failed[s].pc = act[s].pc
             /\ Failed[s].fut = "answered" => act[s].fut = "answered"
  BY <1>1 DEF ActRecord, ActPc
<1>3. Failed \in [Senders -> ActRecord]
  BY <1>2 DEF Failed
<1> QED
  BY <1>2, <1>3

-----------------------------------------------------------------------------
(* What each action does to the actions under way                          *)

\* act changes at one sender at most, to a record that is harmless: it waits
\* for the active connection, or for nothing, and believes only what it may.
Fine(s, r) ==
  /\ r \in ActRecord
  /\ r.fut = "pending" => s \in pend' /\ active' # None /\ r.conn = active'
  /\ r.fut = "answered" \/ r.pc = "ok" => s \in replied'

\* A step that changes one action and neither the owner of the slot nor the
\* place of another in the map.
LEMMA OneAct ==
  ASSUME TypeInv, WaitsOnActive, AnswerInv, NEW s \in Senders, NEW r,
         act' = [act EXCEPT ![s] = r], active' = active, Fine(s, r),
         \A x \in Senders \ {s} : x \in pend => x \in pend',
         replied \subseteq replied'
  PROVE  /\ act' \in [Senders -> ActRecord]
         /\ WaitsOnActive'
         /\ \A x \in Senders : act'[x].fut = "answered" \/ act'[x].pc = "ok" => x \in replied'
<1>1. \A x \in Senders : act'[x] = IF x = s THEN r ELSE act[x]
  BY DEF TypeInv
<1>2. act' \in [Senders -> ActRecord]
  BY <1>1 DEF TypeInv, Fine
<1>3. WaitsOnActive'
  BY <1>1 DEF WaitsOnActive, Fine
<1>4. \A x \in Senders : act'[x].fut = "answered" \/ act'[x].pc = "ok" => x \in replied'
  BY <1>1 DEF AnswerInv, Fine
<1> QED
  BY <1>2, <1>3, <1>4

\* What the invariant says of act alone.
ActInv ==
  /\ act \in [Senders -> ActRecord]
  /\ WaitsOnActive
  /\ \A s \in Senders : act[s].fut = "answered" \/ act[s].pc = "ok" => s \in replied

LEMMA HasActInv == ASSUME Inv PROVE ActInv
BY DEF Inv, TypeInv, AnswerInv, ActInv

\* The slot changes hands, or is cleared, and what was pending fails.
LEMMA SlotLeft ==
  ASSUME Inv, act' = Failed, replied' = replied
  PROVE  ActInv'
<1>1. /\ act' \in [Senders -> ActRecord]
      /\ \A s \in Senders : act'[s].fut # "pending" /\ act'[s].pc = act[s].pc
      /\ \A s \in Senders : act'[s].fut = "answered" => act[s].fut = "answered"
  BY FailedEnds DEF Inv
<1>2. WaitsOnActive'
  BY <1>1 DEF WaitsOnActive
<1>3. \A s \in Senders : act'[s].fut = "answered" \/ act'[s].pc = "ok" => s \in replied'
  BY <1>1 DEF Inv, AnswerInv
<1> QED
  BY <1>1, <1>2, <1>3 DEF ActInv

\* Nothing happens to the actions.
LEMMA ActKept ==
  ASSUME Inv, act' = act, \A s \in pend : s \in pend', replied \subseteq replied',
         active' = active \/ \A s \in Senders : act[s].fut # "pending"
  PROVE  ActInv'
BY HasActInv DEF ActInv, WaitsOnActive

\* One sender goes on.
LEMMA SenderStep ==
  ASSUME Inv, NEW s \in Senders,
         \/ StartFire(s) \/ Register(s) \/ Transmit(s) \/ Resume(s) \/ Timeout(s)
  PROVE  ActInv'
<1>1. /\ act[s] \in ActRecord
      /\ act[s].fut = "pending" => s \in pend /\ active # None /\ act[s].conn = active
      /\ act[s].fut = "answered" \/ act[s].pc = "ok" => s \in replied
      /\ active \in Conns \cup {None}
  BY DEF Inv, TypeInv, WaitsOnActive, AnswerInv
<1>2. active' = active /\ replied' = replied
  BY DEF StartFire, Register, Transmit, Resume, Timeout, SendUnchanged
<1>3. \A x \in Senders \ {s} : x \in pend => x \in pend'
  BY DEF StartFire, Register, Transmit, Resume, Timeout, SendUnchanged, End
<1>4. ASSUME NEW pc \in ActPc, pc # "ok", act' = [act EXCEPT ![s].pc = pc], pend' = pend
      PROVE  ActInv'
  <2> DEFINE r == [act[s] EXCEPT !.pc = pc]
  <2>1. r \in ActRecord /\ r.pc = pc /\ r.fut = act[s].fut /\ r.conn = act[s].conn
    BY <1>1, <1>4 DEF ActRecord, ActPc
  <2>2. act' = [act EXCEPT ![s] = r]
    BY <1>4
  <2> HIDE DEF r
  <2>3. Fine(s, r)
    BY <1>1, <1>2, <1>4, <2>1 DEF Fine
  <2> QED
    BY <1>2, <1>3, <2>1, <2>2, <2>3, OneAct DEF Inv, ActInv
<1>5. ASSUME NEW pc \in {"ok", "failed"}, pc = "ok" => act[s].fut = "answered", End(s, pc)
      PROVE  ActInv'
  <2> DEFINE r == [act[s] EXCEPT !.pc = pc, !.fut = "none"]
  <2>1. r \in ActRecord /\ r.pc = pc /\ r.fut = "none"
    BY <1>1 DEF ActRecord, ActPc
  <2>2. act' = [act EXCEPT ![s] = r]
    BY <1>5 DEF End
  <2> HIDE DEF r
  <2>3. Fine(s, r)
    BY <1>1, <1>2, <1>5, <2>1 DEF Fine
  <2> QED
    BY <1>2, <1>3, <2>1, <2>2, <2>3, OneAct DEF Inv, ActInv
<1>6. CASE StartFire(s)
  <2>1. PICK pc \in {"failed", "sem"} : act' = [act EXCEPT ![s].pc = pc]
    BY <1>6 DEF StartFire
  <2> QED
    BY <1>4, <1>6, <2>1 DEF StartFire, ActPc
<1>7. CASE Register(s)
  <2>1. CASE active = None
    BY <1>4, <1>7, <2>1 DEF Register, ActPc
  <2>2. CASE active # None
    <3> DEFINE r == [pc |-> "send", conn |-> active, fut |-> "pending"]
    <3>1. act' = [act EXCEPT ![s] = r] /\ pend' = pend \cup {s}
      BY <1>7, <2>2 DEF Register
    <3>2. r \in ActRecord /\ r.pc = "send" /\ r.fut = "pending" /\ r.conn = active
      BY <1>1 DEF ActRecord, ActPc
    <3> HIDE DEF r
    <3>3. Fine(s, r)
      BY <1>2, <2>2, <3>1, <3>2 DEF Fine
    <3> QED
      BY <1>2, <1>3, <3>1, <3>2, <3>3, OneAct DEF Inv, ActInv
  <2> QED
    BY <2>1, <2>2
<1>8. CASE Transmit(s)
  <2>1. CASE open[act[s].conn]
    BY <1>4, <1>8, <2>1 DEF Transmit, ActPc
  <2>2. CASE ~open[act[s].conn]
    BY <1>5, <1>8, <2>2 DEF Transmit
  <2> QED
    BY <2>1, <2>2
<1>9. CASE Resume(s)
  BY <1>5, <1>9 DEF Resume
<1>10. CASE Timeout(s)
  BY <1>5, <1>10 DEF Timeout
<1> QED
  BY <1>6, <1>7, <1>8, <1>9, <1>10

\* The reader takes an answer.
LEMMA AnswerStep ==
  ASSUME Inv, NEW c \in Conns, ReadAnswer(c)
  PROVE  ActInv'
<1> DEFINE s == NextFrame(c).of
<1>1. /\ wire[c] # <<>> /\ NextFrame(c).kind = "answer"
      /\ active' = active /\ pend' = pend /\ replied' = replied
      /\ act' = IF s \in pend /\ act[s].fut = "pending"
                  THEN [act EXCEPT ![s].fut = "answered"] ELSE act
  BY DEF ReadAnswer, TakeFrame, linkVars
<1>2. s \in Senders /\ s \in replied
  BY <1>1, NextIsFrame DEF Inv, AnswerInv
<1> HIDE DEF s
<1>3. CASE s \in pend /\ act[s].fut = "pending"
  <2> DEFINE r == [act[s] EXCEPT !.fut = "answered"]
  <2>1. act[s] \in ActRecord
    BY <1>2 DEF Inv, TypeInv
  <2>2. r \in ActRecord /\ r.fut = "answered"
    BY <2>1 DEF ActRecord, ActPc
  <2>3. act' = [act EXCEPT ![s] = r]
    BY <1>1, <1>3
  <2> HIDE DEF r
  <2>4. Fine(s, r)
    BY <1>1, <1>2, <2>2 DEF Fine
  <2> QED
    BY <1>1, <1>2, <2>2, <2>3, <2>4, OneAct DEF Inv, ActInv
<1>4. CASE ~(s \in pend /\ act[s].fut = "pending")
  BY <1>1, <1>4, ActKept
<1> QED
  BY <1>3, <1>4

\* A handler starts with something to send, or ends.
LEMMA DispatchStep ==
  ASSUME Inv, Dispatch
  PROVE  ActInv'
<1> DEFINE s == Head(queue)
<1>1. /\ active' = active /\ pend' = pend /\ replied' = replied
      /\ \E pc \in {"sem", "done"} : act' = [act EXCEPT ![s].pc = pc]
  BY DEF Dispatch, BusUnchanged, linkVars, peerVars
<1> HIDE DEF s
<1>2. PICK pc \in {"sem", "done"} : act' = [act EXCEPT ![s].pc = pc]
  BY <1>1
<1>3. CASE s \in Senders
  <2> DEFINE r == [act[s] EXCEPT !.pc = pc]
  <2>1. act[s] \in ActRecord
        /\ (act[s].fut = "pending" => s \in pend /\ active # None /\ act[s].conn = active)
        /\ (act[s].fut = "answered" => s \in replied)
    BY <1>3 DEF Inv, TypeInv, WaitsOnActive, AnswerInv
  <2>2. r \in ActRecord /\ r.pc = pc /\ r.fut = act[s].fut /\ r.conn = act[s].conn
    BY <2>1 DEF ActRecord, ActPc
  <2>3. act' = [act EXCEPT ![s] = r]
    BY <1>2
  <2> HIDE DEF r
  <2>4. Fine(s, r)
    BY <1>1, <2>1, <2>2 DEF Fine
  <2> QED
    BY <1>1, <1>3, <2>2, <2>3, <2>4, OneAct DEF Inv, ActInv
<1>4. CASE s \notin Senders
  <2>1. act' = act
    BY <1>2, <1>4 DEF Inv, TypeInv
  <2> QED
    BY <1>1, <2>1, ActKept
<1> QED
  BY <1>3, <1>4

\* A cancelled handler gives back what it took.
LEMMA CancelStep ==
  ASSUME Inv, CancelHandlers
  PROVE  ActInv'
<1> DEFINE caught == {s \in inflight : act[s].pc \in {"sem", "send", "wait"}}
<1>1. /\ active' = active /\ replied' = replied /\ pend' = pend \ caught
      /\ act' = [s \in Senders |-> IF s \in caught
                               THEN [act[s] EXCEPT !.pc = "failed", !.fut = "none"]
                               ELSE act[s]]
  BY DEF CancelHandlers, peerVars
<1> HIDE DEF caught
<1>2. ASSUME NEW s \in Senders
      PROVE  /\ act'[s] \in ActRecord
             /\ act'[s].fut = "pending" => s \in pend' /\ active' # None /\ act'[s].conn = active'
             /\ act'[s].fut = "answered" \/ act'[s].pc = "ok" => s \in replied'
  <2>1. /\ act[s] \in ActRecord
        /\ act[s].fut = "pending" => s \in pend /\ active # None /\ act[s].conn = active
        /\ act[s].fut = "answered" \/ act[s].pc = "ok" => s \in replied
    BY DEF Inv, TypeInv, WaitsOnActive, AnswerInv
  <2>2. CASE s \in caught
    <3>1. act'[s] = [act[s] EXCEPT !.pc = "failed", !.fut = "none"]
      BY <1>1, <2>2
    <3> QED
      BY <2>1, <3>1 DEF ActRecord, ActPc
  <2>3. CASE s \notin caught
    BY <1>1, <2>1, <2>3
  <2> QED
    BY <2>2, <2>3
<1>3. act' \in [Senders -> ActRecord]
  BY <1>1, <1>2
<1> QED
  BY <1>2, <1>3 DEF ActInv, WaitsOnActive

LEMMA NextAct == Inv /\ [Next]_vars => ActInv'
<1> SUFFICES ASSUME Inv, [Next]_vars
             PROVE  ActInv'
  OBVIOUS
<1>1. ASSUME NEW c \in Conns, Accept(c)
      PROVE  ActInv'
  <2>1. CASE stopping
    BY <1>1, <2>1, ActKept DEF Accept, peerVars
  <2>2. CASE ~stopping /\ active = None
    <3>1. \A s \in Senders : act[s].fut # "pending"
      BY <2>2 DEF Inv, WaitsOnActive
    <3> QED
      BY <1>1, <2>2, <3>1, ActKept DEF Accept, peerVars
  <2>3. CASE ~stopping /\ active # None
    BY <1>1, <2>3, SlotLeft DEF Accept, peerVars
  <2> QED
    BY <2>1, <2>2, <2>3
<1>2. ASSUME NEW c \in Conns, EndLoop(c)
      PROVE  ActInv'
  <2>1. CASE active = c
    BY <1>2, <2>1, SlotLeft DEF EndLoop, peerVars
  <2>2. CASE active # c
    BY <1>2, <2>2, ActKept DEF EndLoop, peerVars
  <2> QED
    BY <2>1, <2>2
<1>3. CASE StopEnd
  BY <1>3, SlotLeft DEF StopEnd, peerVars
<1>4. ASSUME NEW c \in Conns, Peer(c) \/ Replaced(c) \/ ReadEvent(c) \/ Publish(c)
      PROVE  ActInv'
  BY <1>4, ActKept
     DEF Peer, PeerEvent, PeerAnswer, PeerDrop, PeerUnchanged, Replaced, ReadEvent, TakeFrame,
         Publish, peerVars
<1>5. ASSUME NEW e \in Events, EndHandler(e)
      PROVE  ActInv'
  BY <1>5, ActKept DEF EndHandler, BusUnchanged, linkVars, peerVars
<1>6. CASE TakeSlot \/ Drain \/ Expire \/ StopBegin
  BY <1>6, ActKept DEF TakeSlot, Drain, BusUnchanged, Expire, StopBegin, linkVars, peerVars
<1>7. CASE UNCHANGED vars
  BY <1>7, ActKept DEF vars, linkVars, peerVars
<1> QED
  BY <1>1, <1>2, <1>3, <1>4, <1>5, <1>6, <1>7, SenderStep, AnswerStep, DispatchStep, CancelStep
     DEF Next, ReadLoop, Sending

-----------------------------------------------------------------------------
(* The wire                                                                *)

Honest(q) == \A i \in 1 .. Len(q) : q[i].kind = "answer" => q[i].of \in replied

WireInv ==
  /\ wire \in [Conns -> Seq(Frame)]
  /\ \A c \in Conns : Honest(wire[c])

LEMMA NextWire == Inv /\ [Next]_vars => WireInv'
<1> SUFFICES ASSUME Inv, [Next]_vars
             PROVE  WireInv'
  OBVIOUS
<1>1. /\ wire \in [Conns -> Seq(Frame)]
      /\ \A c \in Conns : \A i \in 1 .. Len(wire[c]) :
           wire[c][i].kind = "answer" => wire[c][i].of \in replied
  BY DEF Inv, TypeInv, AnswerInv
<1>2. ASSUME NEW c \in Conns, NEW q \in Seq(Frame), wire' = [wire EXCEPT ![c] = q],
             replied \subseteq replied',
             \A i \in 1 .. Len(q) : q[i].kind = "answer" => q[i].of \in replied'
      PROVE  WireInv'
  <2>1. \A d \in Conns : wire'[d] = IF d = c THEN q ELSE wire[d]
    BY <1>1, <1>2
  <2>2. wire' \in [Conns -> Seq(Frame)]
    BY <1>1, <1>2
  <2>3. ASSUME NEW d \in Conns, NEW i \in 1 .. Len(wire'[d]), wire'[d][i].kind = "answer"
        PROVE  wire'[d][i].of \in replied'
    BY <1>1, <1>2, <2>1, <2>3
  <2> QED
    BY <2>2, <2>3 DEF WireInv, Honest
<1>3. ASSUME wire' = wire, replied' = replied
      PROVE  WireInv'
  BY <1>1, <1>3 DEF WireInv, Honest
<1>4. ASSUME NEW c \in Conns, NEW f \in Frame, f.kind = "answer" => f.of \in replied',
             replied \subseteq replied', wire' = [wire EXCEPT ![c] = Append(@, f)]
      PROVE  WireInv'
  <2> DEFINE q == Append(wire[c], f)
  <2>1. /\ q \in Seq(Frame) /\ Len(q) = Len(wire[c]) + 1 /\ Len(wire[c]) \in Nat
        /\ \A i \in 1 .. Len(wire[c]) : q[i] = wire[c][i]
        /\ q[Len(wire[c]) + 1] = f
    BY <1>1, AppendOf
  <2>2. wire' = [wire EXCEPT ![c] = q]
    BY <1>4
  <2> HIDE DEF q
  <2>3. ASSUME NEW i \in 1 .. Len(q), q[i].kind = "answer"
        PROVE  q[i].of \in replied'
    <3>1. CASE i = Len(wire[c]) + 1
      BY <1>4, <2>1, <2>3, <3>1
    <3>2. CASE i \in 1 .. Len(wire[c])
      BY <1>1, <1>4, <2>1, <2>3, <3>2
    <3> QED
      BY <2>1, <3>1, <3>2
  <2> QED
    BY <1>2, <1>4, <2>1, <2>2, <2>3
<1>5. ASSUME NEW c \in Conns, NEW e \in Events, NEW m \in Messages, PeerEvent(c, e, m)
      PROVE  WireInv'
  <2>1. EventFrame(e) \in Frame /\ EventFrame(e).kind = "event"
    BY DEF EventFrame, Frame
  <2> QED
    BY <1>4, <1>5, <2>1 DEF PeerEvent, PeerSends
<1>6. ASSUME NEW c \in Conns, NEW s \in Senders, PeerAnswer(c, s)
      PROVE  WireInv'
  <2>1. AnswerFrame(s) \in Frame /\ AnswerFrame(s).of = s
    BY DEF AnswerFrame, Frame
  <2>2. replied' = replied \cup {s} /\ wire' = [wire EXCEPT ![c] = Append(@, AnswerFrame(s))]
    BY <1>6 DEF PeerAnswer, PeerSends
  <2> QED
    BY <1>4, <2>1, <2>2
<1>7. ASSUME NEW c \in Conns, PeerDrop(c)
      PROVE  WireInv'
  <2>1. PICK n \in 0 .. Len(wire[c]) : wire' = [wire EXCEPT ![c] = SubSeq(@, 1, n)]
    BY <1>7 DEF PeerDrop
  <2>2. replied' = replied /\ wire[c] \in Seq(Frame) /\ Len(wire[c]) \in Nat
    BY <1>1, <1>7 DEF PeerDrop
  <2> DEFINE q == SubSeq(wire[c], 1, n)
  <2>3. q \in Seq(Frame) /\ Len(q) = n /\ \A i \in 1 .. n : q[i] = wire[c][i]
    BY <2>2, PrefixOf
  <2>4. wire' = [wire EXCEPT ![c] = q]
    BY <2>1
  <2> HIDE DEF q
  <2>5. \A i \in 1 .. Len(q) : i \in 1 .. Len(wire[c]) /\ q[i] = wire[c][i]
    BY <2>2, <2>3
  <2>6. \A i \in 1 .. Len(q) : q[i].kind = "answer" => q[i].of \in replied'
    BY <1>1, <2>2, <2>5
  <2> QED
    BY <1>2, <2>2, <2>3, <2>4, <2>6
<1>8. ASSUME NEW c \in Conns, TakeFrame(c), replied' = replied
      PROVE  WireInv'
  <2>1. wire' = [wire EXCEPT ![c] = Tail(wire[c])] /\ wire[c] \in Seq(Frame) /\ wire[c] # <<>>
    BY <1>1, <1>8 DEF TakeFrame
  <2> DEFINE q == Tail(wire[c])
  <2>2. /\ q \in Seq(Frame) /\ Len(q) = Len(wire[c]) - 1 /\ Len(wire[c]) \in Nat
        /\ \A i \in 1 .. Len(wire[c]) - 1 : q[i] = wire[c][i + 1]
    BY <2>1, TailOf
  <2>3. wire' = [wire EXCEPT ![c] = q]
    BY <2>1
  <2> HIDE DEF q
  <2>4. \A i \in 1 .. Len(q) : i + 1 \in 1 .. Len(wire[c]) /\ q[i] = wire[c][i + 1]
    BY <2>2
  <2> QED
    BY <1>1, <1>2, <1>8, <2>2, <2>3, <2>4
<1>9. ASSUME NEW c \in Conns,
             Accept(c) \/ Replaced(c) \/ Publish(c) \/ EndLoop(c)
      PROVE  WireInv'
  BY <1>3, <1>9 DEF Accept, Replaced, Publish, EndLoop, peerVars
<1>10. ASSUME NEW c \in Conns, ReadAnswer(c) \/ ReadEvent(c)
       PROVE  WireInv'
  BY <1>8, <1>10 DEF ReadAnswer, ReadEvent
<1>11. ASSUME NEW s \in Senders,
              StartFire(s) \/ Register(s) \/ Transmit(s) \/ Resume(s) \/ Timeout(s)
       PROVE  WireInv'
  BY <1>3, <1>11 DEF StartFire, Register, Transmit, Resume, Timeout, SendUnchanged
<1>12. ASSUME \/ \E e \in Events : EndHandler(e)
              \/ TakeSlot \/ Dispatch \/ Drain \/ CancelHandlers
              \/ Expire \/ StopBegin \/ StopEnd \/ UNCHANGED vars
       PROVE  WireInv'
  BY <1>3, <1>12 DEF EndHandler, TakeSlot, Dispatch, Drain, CancelHandlers, BusUnchanged, Expire,
                     StopBegin, StopEnd, vars, peerVars
<1> QED
  BY <1>5, <1>6, <1>7, <1>9, <1>10, <1>11, <1>12 DEF Next, Peer, ReadLoop, Sending

-----------------------------------------------------------------------------
(* The reader and the cache                                                *)

LoopInv ==
  /\ active \in Conns \cup {None} /\ loop \in [Conns -> LoopRecord]
  /\ key \in [Events -> Keys] /\ ActiveInv

LEMMA NextLoop == Inv /\ [Next]_vars => LoopInv'
<1> SUFFICES ASSUME Inv, [Next]_vars
             PROVE  LoopInv'
  OBVIOUS
<1>1. LoopInv
  BY DEF Inv, TypeInv, LoopInv
<1>2. ASSUME loop' = loop, key' \in [Events -> Keys], active' \in {active, None}
      PROVE  LoopInv'
  BY <1>1, <1>2, NoneIsNobody DEF LoopInv, ActiveInv
<1>3. ASSUME NEW c \in Conns, NEW r \in LoopRecord, loop' = [loop EXCEPT ![c] = r],
             key' = key, r.pc # "new",
             active' \in {active, None, c}
      PROVE  LoopInv'
  <2>1. \A d \in Conns : loop'[d] = IF d = c THEN r ELSE loop[d]
    BY <1>1, <1>3 DEF LoopInv
  <2>2. loop' \in [Conns -> LoopRecord]
    BY <1>1, <1>3 DEF LoopInv
  <2>3. ActiveInv'
    BY <1>1, <1>3, <2>1, NoneIsNobody DEF LoopInv, ActiveInv
  <2> QED
    BY <1>1, <1>3, <2>2, <2>3 DEF LoopInv
<1>4. ASSUME NEW c \in Conns, NEW pc \in {"replace", "read", "ended"},
             loop' = [loop EXCEPT ![c].pc = pc], key' = key, active' \in {active, None, c}
      PROVE  LoopInv'
  <2> DEFINE r == [loop[c] EXCEPT !.pc = pc]
  <2>1. r \in LoopRecord /\ r.pc = pc
    BY <1>1 DEF LoopInv, LoopRecord
  <2>2. loop' = [loop EXCEPT ![c] = r]
    BY <1>4
  <2> HIDE DEF r
  <2> QED
    BY <1>3, <1>4, <2>1, <2>2
<1>5. ASSUME NEW c \in Conns, Accept(c) \/ Replaced(c) \/ EndLoop(c)
      PROVE  LoopInv'
  BY <1>4, <1>5 DEF Accept, Replaced, EndLoop, peerVars
<1>6. ASSUME NEW c \in Conns, Publish(c)
      PROVE  LoopInv'
  <2>1. [pc |-> "read", event |-> None] \in LoopRecord
    BY DEF LoopRecord
  <2> QED
    BY <1>3, <1>6, <2>1 DEF Publish, peerVars
<1>7. ASSUME NEW c \in Conns, ReadEvent(c)
      PROVE  LoopInv'
  <2> DEFINE e == NextFrame(c).of
             r == [pc |-> "publish", event |-> e]
  <2>1. e \in Events /\ active' = active /\ key' = key
    BY <1>7, NextIsFrame DEF ReadEvent, TakeFrame, Inv
  <2>2. loop' = loop \/ loop' = [loop EXCEPT ![c] = r]
    BY <1>7 DEF ReadEvent
  <2>3. r \in LoopRecord /\ r.pc = "publish"
    BY <2>1 DEF LoopRecord
  <2> HIDE DEF e, r
  <2> QED
    BY <1>1, <1>2, <1>3, <2>1, <2>2, <2>3 DEF LoopInv
<1>8. ASSUME NEW c \in Conns, Peer(c) \/ ReadAnswer(c)
      PROVE  LoopInv'
  BY <1>1, <1>2, <1>8
     DEF Peer, PeerEvent, PeerAnswer, PeerDrop, PeerUnchanged, ReadAnswer, linkVars, LoopInv, Keys
<1>9. ASSUME NEW s \in Senders,
              StartFire(s) \/ Register(s) \/ Transmit(s) \/ Resume(s) \/ Timeout(s)
      PROVE  LoopInv'
  BY <1>1, <1>2, <1>9 DEF StartFire, Register, Transmit, Resume, Timeout, SendUnchanged, LoopInv
<1>10. ASSUME \/ \E e \in Events : EndHandler(e)
              \/ TakeSlot \/ Dispatch \/ Drain \/ CancelHandlers
              \/ Expire \/ StopBegin \/ StopEnd \/ UNCHANGED vars
       PROVE  LoopInv'
  BY <1>1, <1>2, <1>10 DEF EndHandler, TakeSlot, Dispatch, Drain, CancelHandlers, BusUnchanged,
                     Expire, StopBegin, StopEnd, vars, linkVars, peerVars, LoopInv
<1> QED
  BY <1>5, <1>6, <1>7, <1>8, <1>9, <1>10 DEF Next, ReadLoop, Sending

CachePart == cache \in Seq(Keys) /\ recent \in Seq(Keys) /\ CacheInv

\* The oldest key expires.
LEMMA ExpireStep ==
  ASSUME CachePart, Expire
  PROVE  CachePart'
<1>1. /\ Len(recent) \in Nat \ {0} /\ Len(cache) \in Nat
      /\ recent' = Tail(recent) /\ recent' \in Seq(Keys) /\ Len(recent') = Len(recent) - 1
      /\ \A i \in 1 .. Len(recent) - 1 : recent'[i] = recent[i + 1]
  BY TailOf DEF Expire, CachePart
<1>2. CASE Len(cache) = Len(recent)
  <2>1. /\ cache' = Tail(cache) /\ cache' \in Seq(Keys) /\ Len(cache') = Len(cache) - 1
        /\ \A i \in 1 .. Len(cache) - 1 : cache'[i] = cache[i + 1]
    <3>1. cache' = Tail(cache) /\ cache # <<>> /\ cache \in Seq(Keys)
      BY <1>1, <1>2 DEF Expire, CachePart
    <3> QED
      BY <3>1, TailOf
  <2>2. ASSUME NEW i \in 1 .. Len(cache')
        PROVE  cache'[i] = recent'[Len(recent') - Len(cache') + i]
    <3>1. i + 1 \in 1 .. Len(cache) /\ i \in 1 .. Len(cache) - 1 /\ i \in 1 .. Len(recent) - 1
      BY <1>1, <1>2, <2>1
    <3>2. cache[i + 1] = recent[i + 1]
      <4>1. Len(recent) - Len(cache) + (i + 1) = i + 1
        BY <1>1, <1>2, <3>1
      <4> QED
        BY <3>1, <4>1 DEF CachePart, CacheInv
    <3>3. Len(recent') - Len(cache') + i = i
      <4>1. Len(recent') = Len(cache') /\ Len(cache') \in Nat
        BY <1>1, <1>2, <2>1
      <4> QED
        BY <4>1
    <3> QED
      BY <1>1, <2>1, <3>1, <3>2, <3>3
  <2> QED
    BY <1>1, <1>2, <2>1, <2>2, NoneIsNobody DEF CachePart, CacheInv
<1>3. CASE Len(cache) # Len(recent)
  <2>1. cache' = cache /\ Len(cache) = DedupCapacity /\ Len(cache) < Len(recent)
    BY <1>1, <1>3, NoneIsNobody DEF Expire, CachePart, CacheInv
  <2>2. ASSUME NEW i \in 1 .. Len(cache')
        PROVE  cache'[i] = recent'[Len(recent') - Len(cache') + i]
    <3>1. /\ i \in 1 .. Len(cache)
          /\ Len(recent') - Len(cache') + i \in 1 .. Len(recent) - 1
          /\ (Len(recent') - Len(cache') + i) + 1 = Len(recent) - Len(cache) + i
      BY <1>1, <2>1
    <3>2. cache[i] = recent[Len(recent) - Len(cache) + i]
      BY <3>1 DEF CachePart, CacheInv
    <3> QED
      BY <1>1, <2>1, <3>1, <3>2
  <2> QED
    BY <1>1, <2>1, <2>2, NoneIsNobody DEF CachePart, CacheInv
<1> QED
  BY <1>2, <1>3

\* A key is let through.
LEMMA RememberStep ==
  ASSUME CachePart, NEW m \in Keys, Remember(m)
  PROVE  CachePart'
<1>1. /\ Len(recent) \in Nat /\ Len(cache) \in Nat
      /\ recent' \in Seq(Keys) /\ Len(recent') = Len(recent) + 1
      /\ \A i \in 1 .. Len(recent) : recent'[i] = recent[i]
      /\ recent'[Len(recent) + 1] = m
  BY AppendOf DEF Remember, CachePart
<1>2. CASE Len(cache) < DedupCapacity
  <2>1. Len(cache) = Len(recent)
    BY <1>1, <1>2, NoneIsNobody DEF CachePart, CacheInv
  <2>2. /\ cache' \in Seq(Keys) /\ Len(cache') = Len(cache) + 1
        /\ \A i \in 1 .. Len(cache) : cache'[i] = cache[i]
        /\ cache'[Len(cache) + 1] = m
    BY <1>2, AppendOf DEF Remember, CachePart
  <2>3. ASSUME NEW i \in 1 .. Len(cache')
        PROVE  cache'[i] = recent'[Len(recent') - Len(cache') + i]
    <3>1. Len(recent') - Len(cache') + i = i
      BY <1>1, <2>1, <2>2
    <3>2. CASE i = Len(cache) + 1
      BY <1>1, <2>1, <2>2, <3>1, <3>2
    <3>3. CASE i \in 1 .. Len(cache)
      <4>1. Len(recent) - Len(cache) + i = i
        BY <1>1, <2>1
      <4>2. cache[i] = recent[i]
        BY <3>3, <4>1 DEF CachePart, CacheInv
      <4> QED
        BY <1>1, <2>1, <2>2, <3>1, <3>3, <4>2
    <3> QED
      BY <1>1, <2>2, <3>2, <3>3
  <2> QED
    BY <1>1, <1>2, <2>1, <2>2, <2>3, NoneIsNobody DEF CachePart, CacheInv
<1>3. CASE ~(Len(cache) < DedupCapacity)
  <2>1. Len(cache) = DedupCapacity /\ Len(cache) <= Len(recent) /\ cache # <<>>
    BY <1>1, <1>3, NoneIsNobody DEF CachePart, CacheInv
  <2>2. /\ Tail(cache) \in Seq(Keys) /\ Len(Tail(cache)) = Len(cache) - 1
        /\ \A i \in 1 .. Len(cache) - 1 : Tail(cache)[i] = cache[i + 1]
    BY <2>1, TailOf DEF CachePart
  <2>3. /\ cache' \in Seq(Keys) /\ Len(cache') = Len(cache)
        /\ \A i \in 1 .. Len(cache) - 1 : cache'[i] = cache[i + 1]
        /\ cache'[Len(cache)] = m
    <3>1. cache' = Append(Tail(cache), m)
      BY <1>3 DEF Remember
    <3> QED
      BY <1>1, <2>2, <3>1, AppendOf
  <2>4. ASSUME NEW i \in 1 .. Len(cache')
        PROVE  cache'[i] = recent'[Len(recent') - Len(cache') + i]
    <3>1. CASE i = Len(cache)
      BY <1>1, <2>3, <3>1
    <3>2. CASE i \in 1 .. Len(cache) - 1
      <4>1. /\ i \in Nat /\ i + 1 \in 1 .. Len(cache)
            /\ Len(recent') - Len(cache') + i = Len(recent) - Len(cache) + (i + 1)
            /\ Len(recent) - Len(cache) + (i + 1) \in 1 .. Len(recent)
        <5>1. i \in Nat /\ 1 <= i /\ i <= Len(cache) - 1
          BY <1>1, <3>2
        <5>2. Len(cache') = Len(cache) /\ Len(recent') = Len(recent) + 1
          BY <1>1, <2>3
        <5>3. i + 1 \in 1 .. Len(cache)
          BY <1>1, <5>1
        <5>4. Len(recent) - Len(cache) + (i + 1) \in 1 .. Len(recent)
          BY <1>1, <2>1, <5>1
        <5> QED
          BY <1>1, <5>1, <5>2, <5>3, <5>4
      <4>2. cache[i + 1] = recent[Len(recent) - Len(cache) + (i + 1)]
        BY <4>1 DEF CachePart, CacheInv
      <4> QED
        BY <1>1, <2>3, <3>2, <4>1, <4>2
    <3> QED
      BY <1>1, <2>3, <3>1, <3>2
  <2> QED
    BY <1>1, <2>1, <2>3, <2>4, NoneIsNobody DEF CachePart, CacheInv
<1> QED
  BY <1>2, <1>3

LEMMA NextCache == Inv /\ [Next]_vars => CachePart'
<1> SUFFICES ASSUME Inv, [Next]_vars
             PROVE  CachePart'
  OBVIOUS
<1>1. CachePart
  BY DEF Inv, TypeInv, CachePart
<1>2. ASSUME cache' = cache, recent' = recent
      PROVE  CachePart'
  BY <1>1, <1>2 DEF CachePart, CacheInv
<1>3. ASSUME NEW c \in Conns, ReadEvent(c)
      PROVE  CachePart'
  <2>1. key[NextFrame(c).of] \in Keys
    BY <1>3, NextIsFrame DEF ReadEvent, TakeFrame, Inv, TypeInv
  <2> QED
    BY <1>1, <1>2, <1>3, <2>1, RememberStep DEF ReadEvent, dedupVars
<1>4. ASSUME NEW c \in Conns,
             \/ Peer(c) \/ Accept(c) \/ Replaced(c) \/ ReadAnswer(c) \/ Publish(c) \/ EndLoop(c)
      PROVE  CachePart'
  BY <1>2, <1>4
     DEF Peer, PeerEvent, PeerAnswer, PeerDrop, PeerUnchanged, Accept, Replaced, ReadAnswer,
         Publish, EndLoop, dedupVars
<1>5. ASSUME NEW s \in Senders,
             StartFire(s) \/ Register(s) \/ Transmit(s) \/ Resume(s) \/ Timeout(s)
      PROVE  CachePart'
  BY <1>2, <1>5 DEF StartFire, Register, Transmit, Resume, Timeout, SendUnchanged, dedupVars
<1>6. ASSUME \/ \E e \in Events : EndHandler(e)
             \/ TakeSlot \/ Dispatch \/ Drain \/ CancelHandlers
             \/ StopBegin \/ StopEnd \/ UNCHANGED vars
      PROVE  CachePart'
  BY <1>2, <1>6 DEF EndHandler, TakeSlot, Dispatch, Drain, CancelHandlers, BusUnchanged,
                    StopBegin, StopEnd, vars, dedupVars
<1> QED
  BY <1>1, <1>3, <1>4, <1>5, <1>6, ExpireStep DEF Next, ReadLoop, Sending

-----------------------------------------------------------------------------
(* The invariant                                                           *)

LEMMA InitInv == Init => Inv
<1> SUFFICES ASSUME Init
             PROVE  Inv
  OBVIOUS
<1>1. NoAct \in ActRecord /\ NoAct.fut = "none" /\ NoAct.pc = "idle" /\ NoLoop \in LoopRecord
  BY DEF NoAct, ActRecord, ActPc, NoLoop, LoopRecord
<1>2. <<>> \in Seq(Keys) /\ <<>> \in Seq(Frame) /\ Len(<<>>) = 0
  OBVIOUS
<1>3. TypeInv
  BY <1>1, <1>2 DEF Init, TypeInv, Keys
<1>4. WaitsOnActive /\ AnswerInv /\ ActiveInv
  BY <1>1, <1>2, NoneIsNobody DEF Init, WaitsOnActive, AnswerInv, ActiveInv
<1>5. CacheInv
  BY <1>2, NoneIsNobody DEF Init, CacheInv
<1> QED
  BY <1>3, <1>4, <1>5 DEF Inv

LEMMA NextInv == Inv /\ [Next]_vars => Inv'
BY NextAct, NextWire, NextLoop, NextCache
   DEF Inv, TypeInv, AnswerInv, ActInv, WireInv, Honest, LoopInv, CachePart

LEMMA LinkInvariant == Spec => []Inv
BY InitInv, NextInv, PTL DEF Spec

-----------------------------------------------------------------------------
(* Theorems                                                                *)

\* No action waits for a connection that is gone: whoever takes the slot fails
\* what is pending in the same step.
THEOREM WaitTheorem == Spec => []WaitsOnActive
<1>1. Inv => WaitsOnActive
  BY DEF Inv
<1> QED
  BY <1>1, LinkInvariant, PTL

\* Success is reported only of an action that NapCat answered.
THEOREM AnswerTheorem == Spec => []OkMeansAnswered
<1>1. Inv => OkMeansAnswered
  BY DEF Inv, AnswerInv, OkMeansAnswered
<1> QED
  BY <1>1, LinkInvariant, PTL

\* A message that was let through is not let through again as long as the
\* cache's capacity and its TTL remember it.
THEOREM DedupTheorem == Spec => NotHandledTwice
<1> DEFINE Once == \A c \in Conns : loop[c].pc = "read" /\ loop'[c].pc = "publish" =>
                     key[loop'[c].event] \notin LastOf(recent, DedupCapacity)
<1>1. Inv /\ [Next]_vars => [Once]_vars
  <2> SUFFICES ASSUME Inv, Next, NEW c \in Conns, loop[c].pc = "read", loop'[c].pc = "publish"
               PROVE  key[loop'[c].event] \notin LastOf(recent, DedupCapacity)
    OBVIOUS
  <2>1. loop \in [Conns -> LoopRecord] /\ loop[c] \in LoopRecord
    BY DEF Inv, TypeInv
  <2>2. ReadEvent(c)
    <3>1. loop'[c] # loop[c]
      BY <2>1
    <3>2. \A d \in Conns : Accept(d) \/ Replaced(d) \/ EndLoop(d) \/ Publish(d) =>
            loop'[c] = loop[c] \/ loop'[c].pc \in {"read", "replace", "ended"}
      <4>1. \A d \in Conns, pc \in {"read", "replace", "ended"} :
              loop' = [loop EXCEPT ![d].pc = pc] =>
                loop'[c] = loop[c] \/ loop'[c].pc = pc
        BY <2>1 DEF LoopRecord
      <4>2. \A d \in Conns : Publish(d) => loop'[c] = loop[c] \/ loop'[c].pc = "read"
        BY <2>1 DEF Publish
      <4> QED
        BY <4>1, <4>2 DEF Accept, Replaced, EndLoop
    <3>3. \A d \in Conns : ReadEvent(d) => d = c \/ loop'[c] = loop[c]
      BY <2>1 DEF ReadEvent
    <3>4. \A d \in Conns : Peer(d) \/ ReadAnswer(d) => loop' = loop
      BY DEF Peer, PeerEvent, PeerAnswer, PeerDrop, PeerUnchanged, ReadAnswer, linkVars
    <3>5. \A s \in Senders :
            StartFire(s) \/ Register(s) \/ Transmit(s) \/ Resume(s) \/ Timeout(s) => loop' = loop
      BY DEF StartFire, Register, Transmit, Resume, Timeout, SendUnchanged
    <3>6. (\E e \in Events : EndHandler(e)) \/ TakeSlot \/ Dispatch \/ Drain \/ CancelHandlers
          \/ Expire \/ StopBegin \/ StopEnd => loop' = loop
      BY DEF EndHandler, TakeSlot, Dispatch, Drain, CancelHandlers, BusUnchanged, Expire,
             StopBegin, StopEnd, linkVars
    <3> QED
      BY <3>1, <3>2, <3>3, <3>4, <3>5, <3>6 DEF Next, ReadLoop, Sending
  <2> DEFINE m == key[NextFrame(c).of]
  <2>3. ~Known(m) /\ loop'[c].event = NextFrame(c).of
    BY <2>1, <2>2 DEF ReadEvent
  <2>4. ASSUME NEW j \in DOMAIN recent, j > Len(recent) - DedupCapacity
        PROVE  recent[j] # m
    <3>1. j \in 1 .. Len(recent) /\ Len(recent) \in Nat /\ Len(cache) \in Nat
          /\ DOMAIN cache = 1 .. Len(cache)
      BY DEF Inv, TypeInv
    <3> DEFINE i == j - (Len(recent) - Len(cache))
    <3>2. i \in 1 .. Len(cache) /\ Len(recent) - Len(cache) + i = j
      <4>1. Len(cache) <= Len(recent) /\ (Len(cache) = DedupCapacity \/ Len(cache) = Len(recent))
        BY DEF Inv, CacheInv
      <4>2. j \in Nat /\ DedupCapacity \in Nat
        BY <3>1, NoneIsNobody
      <4>3. CASE Len(cache) = Len(recent)
        BY <3>1, <4>2, <4>3
      <4>4. CASE Len(cache) = DedupCapacity
        BY <2>4, <3>1, <4>1, <4>2, <4>4
      <4> QED
        BY <4>1, <4>3, <4>4
    <3>3. cache[i] = recent[j]
      BY <3>2 DEF Inv, CacheInv
    <3> QED
      BY <2>3, <3>1, <3>2, <3>3 DEF Known
  <2> QED
    BY <2>3, <2>4 DEF LastOf
<1> QED
  BY <1>1, LinkInvariant, PTL DEF Spec, NotHandledTwice

\* Only the step in which a connection leaves the slot fails its actions as
\* lost, never the late cleanup of another.
THEOREM OwnLossTheorem == Spec => OnlyItsConnectionFails
<1> DEFINE Own == \A s \in Senders : act[s].fut = "pending" /\ act'[s].fut = "failed" =>
                    act[s].conn = active /\ active' # active
<1>1. Inv /\ [Next]_vars => [Own]_vars
  <2> SUFFICES ASSUME Inv, Next, NEW s \in Senders,
                      act[s].fut = "pending", act'[s].fut = "failed"
               PROVE  act[s].conn = active /\ active' # active
    OBVIOUS
  <2>1. act \in [Senders -> ActRecord] /\ act[s].conn = active /\ active \in Conns
    BY NoneIsNobody DEF Inv, TypeInv, WaitsOnActive
  <2>2. \A x \in Senders :
          ~(StartFire(x) \/ Register(x) \/ Transmit(x) \/ Resume(x) \/ Timeout(x))
    <3>1. \A x : \A pc : act' = [act EXCEPT ![x].pc = pc] => act'[s].fut = act[s].fut
      BY <2>1 DEF ActRecord
    <3>2. \A x \in Senders : \A pc : End(x, pc) => act'[s].fut \in {act[s].fut, "none"}
      BY <2>1 DEF End, ActRecord
    <3>3. \A x \in Senders : Register(x) => act'[s].fut \in {act[s].fut, "pending"}
      BY <2>1, <3>1 DEF Register
    <3> QED
      BY <3>1, <3>2, <3>3 DEF StartFire, Transmit, Resume, Timeout
  <2>3. ~(Dispatch \/ CancelHandlers)
    <3>1. \A x : \A pc : act' = [act EXCEPT ![x].pc = pc] => act'[s].fut = act[s].fut
      BY <2>1 DEF ActRecord
    <3>2. ASSUME CancelHandlers
          PROVE  act'[s].fut \in {act[s].fut, "none"}
      <4>1. act'[s] \in {act[s], [act[s] EXCEPT !.pc = "failed", !.fut = "none"]}
        BY <3>2 DEF CancelHandlers
      <4>2. act[s] \in ActRecord
        BY <2>1
      <4> QED
        BY <4>1, <4>2 DEF ActRecord
    <3> QED
      BY <3>1, <3>2 DEF Dispatch
  <2>4. \A c \in Conns : ~(Peer(c) \/ Replaced(c) \/ ReadEvent(c) \/ Publish(c) \/ ReadAnswer(c))
    <3>1. \A c \in Conns : Peer(c) \/ Replaced(c) \/ ReadEvent(c) \/ Publish(c) => act' = act
      BY DEF Peer, PeerEvent, PeerAnswer, PeerDrop, PeerUnchanged, Replaced, ReadEvent, Publish
    <3>2. \A x : act' = [act EXCEPT ![x].fut = "answered"] =>
            act'[s].fut \in {act[s].fut, "answered"}
      BY <2>1 DEF ActRecord
    <3>3. \A c \in Conns : ReadAnswer(c) => act'[s].fut \in {act[s].fut, "answered"}
      BY <3>2 DEF ReadAnswer
    <3> QED
      BY <3>1, <3>3
  <2>5. ~((\E e \in Events : EndHandler(e)) \/ TakeSlot \/ Drain \/ Expire \/ StopBegin)
    BY DEF EndHandler, TakeSlot, Drain, Expire, StopBegin
  <2>6. \A c \in Conns : Accept(c) \/ EndLoop(c) => active' # active
    BY <2>1, NoneIsNobody DEF Accept, EndLoop, Inv, ActiveInv
  <2>7. StopEnd => active' # active
    BY <2>1, NoneIsNobody DEF StopEnd
  <2> QED
    BY <2>1, <2>2, <2>3, <2>4, <2>5, <2>6, <2>7 DEF Next, ReadLoop, Sending
<1> QED
  BY <1>1, LinkInvariant, PTL DEF Spec, OnlyItsConnectionFails

=============================================================================
