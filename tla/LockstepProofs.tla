---------------------------- MODULE LockstepProofs ----------------------------
(***************************************************************************)
(* Proofs about Lockstep: for every step budget, every pair of delays and  *)
(* every feed, the two seats execute the same complete inputs.             *)
(***************************************************************************)
EXTENDS Lockstep, LockstepCoreProofs

(* Pushing behind, and draining the head of, an ordered wire. *)
LEMMA WireAppend ==
  ASSUME NEW w \in Seq(Message), NEW b \in Message
  PROVE  /\ Append(w, b) \in Seq(Message)
         /\ Len(w) + 1 \in DOMAIN Append(w, b)
         /\ Append(w, b)[Len(w) + 1] = b
         /\ DOMAIN w \subseteq DOMAIN Append(w, b)
         /\ \A i \in DOMAIN w : Append(w, b)[i] = w[i]
         /\ \A i \in DOMAIN Append(w, b) :
              i \in Nat /\ (i = Len(w) + 1 \/ (i \in DOMAIN w /\ i < Len(w) + 1))
<1>1. /\ Append(w, b) \in Seq(Message)
      /\ Len(Append(w, b)) = Len(w) + 1
      /\ \A i \in 1 .. Len(w) : Append(w, b)[i] = w[i]
      /\ Append(w, b)[Len(w) + 1] = b
  BY AppendProperties
<1>2. /\ Len(w) \in Nat /\ DOMAIN w = 1 .. Len(w)
      /\ DOMAIN Append(w, b) = 1 .. Len(w) + 1
  BY <1>1, LenProperties
<1> QED BY <1>1, <1>2

(* What travels, once its head is drained. *)
LEMMA WireTail ==
  ASSUME NEW w \in Seq(Message), w # <<>>
  PROVE  /\ Tail(w) \in Seq(Message)
         /\ 1 \in DOMAIN w /\ w[1] = Head(w) /\ Head(w) \in Message
         /\ \A i \in DOMAIN Tail(w) :
              i \in Nat /\ i + 1 > 1 /\ i + 1 \in DOMAIN w /\ Tail(w)[i] = w[i + 1]
         /\ \A i \in DOMAIN w :
              i = 1 \/ (i - 1 \in DOMAIN Tail(w) /\ Tail(w)[i - 1] = w[i])
<1>1. /\ Head(w) \in Message /\ Tail(w) \in Seq(Message)
      /\ Len(Tail(w)) = Len(w) - 1
      /\ \A i \in 1 .. Len(Tail(w)) : Tail(w)[i] = w[i + 1]
  BY HeadTailProperties
<1>2. /\ Len(w) \in Nat \ {0} /\ DOMAIN w = 1 .. Len(w)
      /\ DOMAIN Tail(w) = 1 .. Len(w) - 1
  BY <1>1, LenProperties, EmptySeq
<1>3. w[1] = Head(w)
  OBVIOUS
<1> QED BY <1>1, <1>2, <1>3

(* The two kinds of broadcasts, built and read. *)
LEMMA MessageFacts ==
  /\ \A m \in Scheduled :
       /\ CommandMsg(m) \in Message
       /\ CommandMsg(m).m = m
       /\ CommandMsg(m).type = "command"
  /\ \A t \in Nat :
       /\ CommitMsg(t) \in Message
       /\ CommitMsg(t).through = t
       /\ CommitMsg(t).type = "commit"
  /\ \A b \in Message :
       \/ b.type = "command" /\ b.m \in Scheduled
       \/ b.type = "commit" /\ b.through \in Nat
BY DEF Message, CommandMsg, CommitMsg

-------------------------------------------------------------------------------

(* No feed has answered, no message travels: the invariant holds at once. *)
LEMMA InitIInv == Init => IInv
<1> SUFFICES ASSUME Init PROVE IInv
  OBVIOUS
<1> USE ConfigAssumption
<1>1. NewCore \in Core
  BY DEF NewCore, Core
<1>2. \A r \in Role :
        /\ core[r] = NewCore /\ outbox[r] = {} /\ wire[r] = <<>>
        /\ issued[r] = {} /\ phase[r] \in {"finished", "pump"}
  BY DEF Init
<1>3. TypeOK
  BY <1>1 DEF Init, TypeOK, Phase
<1>4. NoProtocolError /\ OutboxInv
  BY <1>2 DEF NoProtocolError, OutboxInv
<1>5. WatermarksOrdered
  BY <1>2, PeerFacts DEF WatermarksOrdered, NewCore
<1>6. OwnInv
  BY <1>2 DEF OwnInv, NewCore
<1>7. NothingLost /\ NothingForged /\ CommitsInOrder /\ Ranked /\ InSendOrder
  BY <1>2, PeerFacts DEF NothingLost, NothingForged, CommitsInOrder, Ranked, InSendOrder,
                         Travelling, Commits, NewCore
<1>8. RunIsComplete
  <2>1. Script(0) = {}
    BY <1>2 DEF Script, InSlot, Due, Role
  <2>2. NewCore.step = 0 /\ NewCore.ran = {}
    BY DEF NewCore
  <2> QED BY <1>2, <2>1, <2>2 DEF RunIsComplete
<1> QED BY <1>3, <1>4, <1>5, <1>6, <1>7, <1>8 DEF IInv

(* One push moves the least unsent command behind what already travels. *)
LEMMA PushCommandIInv ==
  ASSUME IInv, NEW s \in Role, PushCommand(s)
  PROVE  IInv'
<1> USE ConfigAssumption
<1>1. PICK m \in outbox[s] :
        /\ outbox' = [outbox EXCEPT ![s] = @ \ {m}]
        /\ wire' = [wire EXCEPT ![s] = Append(@, CommandMsg(m))]
        /\ \A x \in outbox[s] \ {m} : Before(m, x)
  BY DEF PushCommand
<1>2. phase[s] = "push" /\ UNCHANGED <<core, phase, issued>>
  BY DEF PushCommand
<1>3. TypeOK
  BY DEF IInv
<1>4. m \in Scheduled /\ CommandMsg(m) \in Message /\ wire[s] \in Seq(Message)
  BY <1>3, MessageFacts DEF TypeOK
<1>5. /\ wire'[s] = Append(wire[s], CommandMsg(m)) /\ outbox'[s] = outbox[s] \ {m}
      /\ \A r \in Role : r # s => wire'[r] = wire[r] /\ outbox'[r] = outbox[r]
  BY <1>1, <1>3 DEF TypeOK
<1> DEFINE w == wire[s]
           v == wire'[s]
           last == Len(wire[s]) + 1
<1>6. /\ v \in Seq(Message) /\ last \in DOMAIN v
      /\ v[last].type = "command" /\ v[last].m = m
      /\ DOMAIN w \subseteq DOMAIN v
      /\ \A i \in DOMAIN w : v[i] = w[i]
      /\ \A i \in DOMAIN v : i \in Nat /\ (i = last \/ (i \in DOMAIN w /\ i < last))
  BY <1>4, <1>5, WireAppend, MessageFacts
<1> HIDE DEF w, v, last
<1>7. TypeOK'
  BY <1>1, <1>2, <1>3, <1>6 DEF TypeOK, v
<1>8. NoProtocolError' /\ WatermarksOrdered' /\ OwnInv' /\ Ranked' /\ RunIsComplete'
  BY <1>2 DEF IInv, NoProtocolError, WatermarksOrdered, OwnInv, Ranked, RunIsComplete, Script
<1>9. OutboxInv'
  BY <1>2, <1>5 DEF IInv, OutboxInv
<1>10. NothingLost'
  <2> SUFFICES ASSUME NEW r \in Role, NEW x \in issued[r], x.at >= core[Peer(r)].step
               PROVE  \/ x \in core[Peer(r)].peer
                      \/ x \in outbox'[r]
                      \/ \E i \in Travelling(wire'[r]) : wire'[r][i].m = x
    BY <1>2 DEF NothingLost
  <2>1. \/ x \in core[Peer(r)].peer
        \/ x \in outbox[r]
        \/ \E i \in Travelling(wire[r]) : wire[r][i].m = x
    BY DEF IInv, NothingLost
  <2>2. CASE r # s
    BY <1>5, <2>1, <2>2 DEF Travelling
  <2>3. CASE r = s
    <3>1. CASE \E i \in Travelling(wire[r]) : wire[r][i].m = x
      BY <1>6, <2>3, <3>1 DEF Travelling, w, v
    <3>2. CASE x = m
      BY <1>6, <2>3, <3>2 DEF Travelling, v
    <3>3. CASE x \in outbox[r] /\ x # m
      BY <1>5, <2>3, <3>3
    <3> QED BY <2>1, <3>1, <3>2, <3>3
  <2> QED BY <2>2, <2>3
<1>11. NothingForged'
  <2> SUFFICES ASSUME NEW r \in Role
               PROVE  /\ \A x \in outbox'[r] : x \in issued[r] /\ x.at >= core[Peer(r)].peer_next
                      /\ \A i \in Travelling(wire'[r]) :
                           /\ wire'[r][i].m \in issued[r]
                           /\ wire'[r][i].m.at >= core[Peer(r)].peer_next
    BY <1>2 DEF IInv, NothingForged
  <2>1. /\ \A x \in outbox[r] : x \in issued[r] /\ x.at >= core[Peer(r)].peer_next
        /\ \A i \in Travelling(wire[r]) :
             wire[r][i].m \in issued[r] /\ wire[r][i].m.at >= core[Peer(r)].peer_next
    BY DEF IInv, NothingForged
  <2>2. CASE r # s
    BY <1>5, <2>1, <2>2 DEF Travelling
  <2>3. CASE r = s
    BY <1>5, <1>6, <2>1, <2>3 DEF Travelling, w, v
  <2> QED BY <2>2, <2>3
<1>12. CommitsInOrder'
  <2> SUFFICES ASSUME NEW r \in Role, NEW i \in Commits(wire'[r])
               PROVE  /\ wire'[r][i].through < core[r].next_sample
                      /\ \A x \in outbox'[r] : x.at > wire'[r][i].through
                      /\ \A j \in Travelling(wire'[r]) :
                           i < j => wire'[r][j].m.at > wire'[r][i].through
    BY <1>2 DEF CommitsInOrder
  <2>1. \A k \in Commits(wire[r]) :
          /\ wire[r][k].through < core[r].next_sample
          /\ \A x \in outbox[r] : x.at > wire[r][k].through
          /\ \A j \in Travelling(wire[r]) : k < j => wire[r][j].m.at > wire[r][k].through
    BY DEF IInv, CommitsInOrder
  <2>2. CASE r # s
    BY <1>5, <2>1, <2>2 DEF Travelling, Commits
  <2>3. CASE r = s
    <3>1. i \in Commits(wire[r]) /\ wire'[r][i] = wire[r][i]
      BY <1>6, <2>3 DEF Commits, w, v
    <3>2. ASSUME NEW j \in Travelling(wire'[r]), i < j
          PROVE  wire'[r][j].m.at > wire'[r][i].through
      BY <1>6, <2>1, <2>3, <3>1, <3>2 DEF Travelling, w, v
    <3> QED BY <1>5, <2>1, <2>3, <3>1, <3>2
  <2> QED BY <2>2, <2>3
<1>13. InSendOrder'
  <2> SUFFICES ASSUME NEW r \in Role
               PROVE  /\ \A i, j \in Travelling(wire'[r]) :
                           i < j => Before(wire'[r][i].m, wire'[r][j].m)
                      /\ \A i \in Travelling(wire'[r]), x \in outbox'[r] :
                           Before(wire'[r][i].m, x)
                      /\ \A x \in core[Peer(r)].peer :
                           /\ \A i \in Travelling(wire'[r]) : Before(x, wire'[r][i].m)
                           /\ \A y \in outbox'[r] : Before(x, y)
    BY <1>2 DEF InSendOrder
  <2>1. /\ \A i, j \in Travelling(wire[r]) : i < j => Before(wire[r][i].m, wire[r][j].m)
        /\ \A i \in Travelling(wire[r]), x \in outbox[r] : Before(wire[r][i].m, x)
        /\ \A x \in core[Peer(r)].peer :
             /\ \A i \in Travelling(wire[r]) : Before(x, wire[r][i].m)
             /\ \A y \in outbox[r] : Before(x, y)
    BY DEF IInv, InSendOrder
  <2>2. CASE r # s
    BY <1>5, <2>1, <2>2
  <2>3. CASE r = s
    <3>1. \A i \in Travelling(v) : (i = last /\ v[i].m = m)
                                   \/ (i \in Travelling(w) /\ i < last /\ v[i] = w[i])
      BY <1>6 DEF Travelling
    <3>2. \A i, j \in Travelling(v) : i < j => Before(v[i].m, v[j].m)
      <4> SUFFICES ASSUME NEW i \in Travelling(v), NEW j \in Travelling(v), i < j
                   PROVE  Before(v[i].m, v[j].m)
        OBVIOUS
      <4>1. i # last
        BY <1>6, <3>1 DEF Travelling
      <4>2. i \in Travelling(w) /\ v[i] = w[i]
        BY <3>1, <4>1
      <4> QED BY <1>1, <2>1, <2>3, <3>1, <4>2 DEF w
    <3>3. \A i \in Travelling(v), x \in outbox'[s] : Before(v[i].m, x)
      BY <1>1, <1>5, <2>1, <2>3, <3>1 DEF w
    <3>4. \A x \in core[Peer(s)].peer : \A i \in Travelling(v) : Before(x, v[i].m)
      BY <1>1, <2>1, <2>3, <3>1 DEF w
    <3> QED BY <1>5, <2>1, <2>3, <3>2, <3>3, <3>4 DEF v
  <2> QED BY <2>2, <2>3
<1> QED BY <1>7, <1>8, <1>9, <1>10, <1>11, <1>12, <1>13 DEF IInv

(* The commit goes out only when every command it covers is on its way. *)
LEMMA PushCommitIInv ==
  ASSUME IInv, NEW s \in Role, PushCommit(s)
  PROVE  IInv'
<1> USE ConfigAssumption
<1> DEFINE t == core[s].next_sample - 1
<1>1. /\ phase[s] = "push" /\ outbox[s] = {}
      /\ wire' = [wire EXCEPT ![s] = Append(@, CommitMsg(t))]
      /\ phase' = [phase EXCEPT ![s] = "drain"]
      /\ UNCHANGED <<core, outbox, issued>>
  BY DEF PushCommit
<1>2. TypeOK
  BY DEF IInv
<1>3. t \in Nat /\ t < core[s].next_sample
  BY <1>1, <1>2 DEF IInv, OutboxInv, TypeOK, Core
<1> HIDE DEF t
<1>4. CommitMsg(t) \in Message /\ wire[s] \in Seq(Message)
  BY <1>2, <1>3, MessageFacts DEF TypeOK
<1>5. /\ wire'[s] = Append(wire[s], CommitMsg(t))
      /\ \A r \in Role : r # s => wire'[r] = wire[r]
  BY <1>1, <1>2 DEF TypeOK
<1> DEFINE w == wire[s]
           v == wire'[s]
           last == Len(wire[s]) + 1
<1>6. /\ v \in Seq(Message) /\ last \in DOMAIN v
      /\ v[last].type = "commit" /\ v[last].through = t
      /\ DOMAIN w \subseteq DOMAIN v
      /\ \A i \in DOMAIN w : v[i] = w[i]
      /\ \A i \in DOMAIN v : i \in Nat /\ (i = last \/ (i \in DOMAIN w /\ i < last))
      /\ last \in Nat
  BY <1>3, <1>4, <1>5, WireAppend, MessageFacts
<1> HIDE DEF w, v, last
<1>7. TypeOK'
  BY <1>1, <1>2, <1>6 DEF TypeOK, v, Phase
<1>8. NoProtocolError' /\ WatermarksOrdered' /\ OwnInv' /\ Ranked' /\ RunIsComplete'
  BY <1>1, <1>2 DEF IInv, NoProtocolError, WatermarksOrdered, OwnInv, Ranked, RunIsComplete,
                    Script, TypeOK
<1>9. OutboxInv'
  BY <1>1, <1>2 DEF IInv, OutboxInv, TypeOK
<1>10. \A r \in Role :
         /\ Travelling(wire'[r]) = Travelling(wire[r])
         /\ \A i \in Travelling(wire[r]) : wire'[r][i] = wire[r][i]
  <2> SUFFICES ASSUME NEW r \in Role
               PROVE  /\ Travelling(wire'[r]) = Travelling(wire[r])
                      /\ \A i \in Travelling(wire[r]) : wire'[r][i] = wire[r][i]
    OBVIOUS
  <2>1. CASE r # s
    BY <1>5, <2>1 DEF Travelling
  <2>2. CASE r = s
    BY <1>6, <2>2 DEF Travelling, w, v
  <2> QED BY <2>1, <2>2
<1>11. NothingLost'
  <2> SUFFICES ASSUME NEW r \in Role, NEW x \in issued[r], x.at >= core[Peer(r)].step
               PROVE  \/ x \in core[Peer(r)].peer
                      \/ x \in outbox[r]
                      \/ \E i \in Travelling(wire'[r]) : wire'[r][i].m = x
    BY <1>1, ZenonT(40) DEF NothingLost
  <2>1. \/ x \in core[Peer(r)].peer
        \/ x \in outbox[r]
        \/ \E i \in Travelling(wire[r]) : wire[r][i].m = x
    BY DEF IInv, NothingLost
  <2> QED BY <1>10, <2>1
<1>12. NothingForged'
  <2> SUFFICES ASSUME NEW r \in Role, NEW i \in Travelling(wire'[r])
               PROVE  /\ wire'[r][i].m \in issued[r]
                      /\ wire'[r][i].m.at >= core[Peer(r)].peer_next
    BY <1>1 DEF IInv, NothingForged
  <2>1. /\ wire[r][i].m \in issued[r]
        /\ wire[r][i].m.at >= core[Peer(r)].peer_next
    BY <1>10 DEF IInv, NothingForged
  <2> QED BY <1>10, <2>1
<1>13. CommitsInOrder'
  <2> SUFFICES ASSUME NEW r \in Role, NEW i \in Commits(wire'[r])
               PROVE  /\ wire'[r][i].through < core[r].next_sample
                      /\ \A x \in outbox[r] : x.at > wire'[r][i].through
                      /\ \A j \in Travelling(wire'[r]) :
                           i < j => wire'[r][j].m.at > wire'[r][i].through
    BY <1>1 DEF CommitsInOrder
  <2>1. \A k \in Commits(wire[r]) :
          /\ wire[r][k].through < core[r].next_sample
          /\ \A x \in outbox[r] : x.at > wire[r][k].through
          /\ \A j \in Travelling(wire[r]) : k < j => wire[r][j].m.at > wire[r][k].through
    BY DEF IInv, CommitsInOrder
  <2>2. CASE r # s
    BY <1>5, <2>1, <2>2 DEF Commits
  <2>3. CASE r = s /\ i \in DOMAIN wire[s]
    BY <1>6, <1>10, <2>1, <2>3, SMTT(40) DEF Commits, w, v
  <2>4. CASE r = s /\ i = last
    <3>1. \A j \in Travelling(wire[r]) : j \in Nat /\ j < last
      BY <1>4, <1>6, <2>4, <1>10 DEF Travelling, w, v
    <3> QED BY <1>1, <1>3, <1>6, <1>10, <2>4, <3>1 DEF v
  <2> QED BY <1>6, <2>2, <2>3, <2>4 DEF Commits, v, w
<1>14. InSendOrder'
  <2> SUFFICES ASSUME NEW r \in Role
               PROVE  /\ \A i, j \in Travelling(wire'[r]) :
                           i < j => Before(wire'[r][i].m, wire'[r][j].m)
                      /\ \A i \in Travelling(wire'[r]), m \in outbox[r] :
                           Before(wire'[r][i].m, m)
                      /\ \A x \in core[Peer(r)].peer :
                           /\ \A i \in Travelling(wire'[r]) : Before(x, wire'[r][i].m)
                           /\ \A m \in outbox[r] : Before(x, m)
    BY <1>1 DEF InSendOrder
  <2>1. /\ \A i, j \in Travelling(wire[r]) : i < j => Before(wire[r][i].m, wire[r][j].m)
        /\ \A i \in Travelling(wire[r]), m \in outbox[r] : Before(wire[r][i].m, m)
        /\ \A x \in core[Peer(r)].peer :
             /\ \A i \in Travelling(wire[r]) : Before(x, wire[r][i].m)
             /\ \A m \in outbox[r] : Before(x, m)
    BY DEF IInv, InSendOrder
  <2> QED BY <1>10, <2>1
<1> QED BY <1>7, <1>8, <1>9, <1>11, <1>12, <1>13, <1>14 DEF IInv

(* New samples lie above everything committed, in the outbox alone. *)
LEMMA PumpIInv ==
  ASSUME IInv, NEW s \in Role, PumpOutgoing(s)
  PROVE  IInv'
<1> USE ConfigAssumption
<1>1. PICK answers \in [SampleWindow(s, core[s]) -> Feed] :
        /\ core' = [core EXCEPT ![s] = Pump(s, @, answers)]
        /\ outbox' = [outbox EXCEPT ![s] = Schedule(answers)]
        /\ issued' = [issued EXCEPT ![s] = @ \cup Schedule(answers)]
  BY DEF PumpOutgoing
<1>2. /\ phase[s] = "pump" /\ wire' = wire
      /\ phase' = [phase EXCEPT ![s] = IF SampleWindow(s, core[s]) = {} THEN "drain" ELSE "push"]
  BY DEF PumpOutgoing
<1>3. TypeOK /\ core[s] \in Core
  BY DEF IInv, TypeOK
<1> DEFINE c == core[s]
           d == Pump(s, core[s], answers)
           new == Schedule(answers)
<1>4. /\ d \in Core
      /\ d.step = c.step /\ d.peer_next = c.peer_next /\ d.ran = c.ran /\ d.peer = c.peer
      /\ d.own = c.own \cup new
      /\ d.next_sample >= c.next_sample
      /\ SampleWindow(s, c) = {} => d.next_sample = c.next_sample /\ new = {}
      /\ SampleWindow(s, c) # {} => d.next_sample > 0 /\ d.next_sample <= MaxSteps
                                    /\ d.next_sample <= c.step + InputDelay[s] + 1
      /\ \A m \in new : c.next_sample <= m.at /\ m.at < d.next_sample
      /\ new \subseteq Scheduled
  <2>1. \A m \in core[s].own : m.at < core[s].next_sample
    BY DEF IInv, OwnInv
  <2>2. /\ d \in Core
        /\ d.step = c.step /\ d.peer_next = c.peer_next /\ d.ran = c.ran /\ d.peer = c.peer
        /\ d.own = c.own \cup new
        /\ SampleWindow(s, c) = {} => d.next_sample = c.next_sample
        /\ SampleWindow(s, c) # {} =>
             /\ d.next_sample > c.next_sample
             /\ d.next_sample <= MaxSteps
             /\ d.next_sample <= c.step + InputDelay[s] + 1
        /\ \A m \in new : c.next_sample <= m.at /\ m.at < d.next_sample
    BY <1>3, <2>1, PumpFacts
  <2>3. new \subseteq Scheduled /\ \A m \in new : m.at \in SampleWindow(s, c)
    BY <1>3, ScheduleFacts
  <2>4. c.next_sample \in Nat /\ d.next_sample \in Nat
    BY <1>3, <2>2 DEF Core
  <2> HIDE DEF c, d, new
  <2> QED BY <2>2, <2>3, <2>4
<1>5. /\ core'[s] = d /\ outbox'[s] = new /\ issued'[s] = issued[s] \cup new
      /\ \A r \in Role : r # s =>
           core'[r] = core[r] /\ outbox'[r] = outbox[r] /\ issued'[r] = issued[r]
                              /\ phase'[r] = phase[r]
      /\ phase'[s] = IF SampleWindow(s, c) = {} THEN "drain" ELSE "push"
  BY <1>1, <1>2, <1>3 DEF TypeOK
<1>6. outbox[s] = {}
  BY <1>2 DEF IInv, OutboxInv
<1> HIDE DEF c, d, new
<1>7. \A r \in Role :
        /\ core'[r].step = core[r].step /\ core'[r].peer_next = core[r].peer_next
        /\ core'[r].ran = core[r].ran /\ core'[r].peer = core[r].peer
        /\ core'[r].next_sample >= core[r].next_sample
  <2> SUFFICES ASSUME NEW r \in Role
               PROVE  /\ core'[r].step = core[r].step /\ core'[r].peer_next = core[r].peer_next
                      /\ core'[r].ran = core[r].ran /\ core'[r].peer = core[r].peer
                      /\ core'[r].next_sample >= core[r].next_sample
    OBVIOUS
  <2>1. CASE r = s
    BY <1>4, <1>5, <2>1 DEF c
  <2>2. CASE r # s
    <3>1. core[r].next_sample \in Nat
      BY <1>3 DEF TypeOK, Core
    <3> QED BY <1>5, <2>2, <3>1
  <2> QED BY <2>1, <2>2
<1>8. TypeOK'
  BY <1>1, <1>2, <1>3, <1>4 DEF TypeOK, Phase, d, new
<1>9. NoProtocolError' /\ OutboxInv'
  BY <1>2, <1>4, <1>5, <1>6 DEF IInv, NoProtocolError, OutboxInv
<1>10. WatermarksOrdered'
  <2>1. WatermarksOrdered
    BY DEF IInv
  <2>2. \A r \in Role : core[r] \in Core /\ core'[r] \in Core
    BY <1>3, <1>8 DEF TypeOK
  <2>3. /\ d.next_sample <= MaxSteps
        /\ d.next_sample <= c.step + InputDelay[s] + 1
    BY <1>4, <2>1 DEF WatermarksOrdered, c
  <2>4. \A r \in Role : r = s \/ core'[r] = core[r]
    BY <1>5
  <2> SUFFICES ASSUME NEW r \in Role
               PROVE  /\ core'[r].step <= core'[r].peer_next
                      /\ core'[r].step <= core'[r].next_sample
                      /\ core'[r].next_sample <= MaxSteps
                      /\ core'[r].next_sample <= core'[r].step + InputDelay[r] + 1
                      /\ core'[r].peer_next <= core'[Peer(r)].next_sample
    BY DEF WatermarksOrdered
  <2>5. /\ core[r].step <= core[r].peer_next
        /\ core[r].step <= core[r].next_sample
        /\ core[r].next_sample <= MaxSteps
        /\ core[r].next_sample <= core[r].step + InputDelay[r] + 1
        /\ core[r].peer_next <= core[Peer(r)].next_sample
    BY <2>1 DEF WatermarksOrdered
  <2>6. /\ core[r].step \in Nat /\ core[r].next_sample \in Nat /\ core[r].peer_next \in Nat
        /\ core'[r].next_sample \in Nat
        /\ core[Peer(r)].next_sample \in Nat /\ core'[Peer(r)].next_sample \in Nat
    BY <2>2, PeerFacts DEF Core
  <2>7. core'[r].peer_next <= core'[Peer(r)].next_sample
    BY <1>7, <2>5, <2>6, PeerFacts
  <2>8. /\ core'[r].next_sample <= MaxSteps
        /\ core'[r].next_sample <= core[r].step + InputDelay[r] + 1
    BY <1>5, <2>3, <2>4, <2>5 DEF c
  <2> QED BY <1>7, <2>5, <2>6, <2>7, <2>8
<1>11. OwnInv'
  <2> SUFFICES ASSUME NEW r \in Role
               PROVE  /\ \A m \in issued'[r] : m.at < core'[r].next_sample
                      /\ core'[r].own = {m \in issued'[r] : m.at >= core'[r].step}
    BY DEF OwnInv
  <2>1. /\ \A m \in issued[r] : m.at < core[r].next_sample
        /\ core[r].own = {m \in issued[r] : m.at >= core[r].step}
    BY DEF IInv, OwnInv
  <2>2. CASE r # s
    BY <1>5, <2>1, <2>2
  <2>3. CASE r = s
    <3>1. \A m \in new : m.at >= core[s].step
      BY <1>3, <1>4 DEF IInv, WatermarksOrdered, Core, c, Scheduled
    <3>2. \A m \in issued[s] : m.at < d.next_sample
      BY <1>3, <1>4, <2>1, <2>3 DEF c, TypeOK, Core, Scheduled
    <3> QED BY <1>4, <1>5, <2>1, <2>3, <3>1, <3>2 DEF c
  <2> QED BY <2>2, <2>3
<1>12. \A r \in Role : outbox[r] \subseteq outbox'[r] /\ issued[r] \subseteq issued'[r]
  BY <1>5, <1>6
<1>13. NothingLost'
  <2> SUFFICES ASSUME NEW r \in Role, NEW x \in issued'[r], x.at >= core[Peer(r)].step
               PROVE  \/ x \in core[Peer(r)].peer
                      \/ x \in outbox'[r]
                      \/ \E i \in Travelling(wire[r]) : wire[r][i].m = x
    BY <1>2, <1>7, PeerFacts DEF NothingLost, Travelling
  <2>1. CASE x \in issued[r]
    BY <1>12, <2>1 DEF IInv, NothingLost
  <2>2. CASE x \notin issued[r]
    BY <1>5, <2>2
  <2> QED BY <2>1, <2>2
<1>14. \A m \in new : m.at >= core[Peer(s)].peer_next
  <2>1. core[Peer(s)].peer_next <= core[s].next_sample
    BY PeerFacts DEF IInv, WatermarksOrdered
  <2>2. core[Peer(s)].peer_next \in Nat /\ core[s].next_sample \in Nat
    BY <1>3, PeerFacts DEF TypeOK, Core
  <2> QED BY <1>4, <2>1, <2>2 DEF c, Scheduled
<1>15. NothingForged'
  <2> SUFFICES ASSUME NEW r \in Role
               PROVE  /\ core[Peer(r)].peer \subseteq {m \in issued'[r] : m.at >= core[Peer(r)].step}
                      /\ \A m \in outbox'[r] : m \in issued'[r] /\ m.at >= core[Peer(r)].peer_next
                      /\ \A i \in Travelling(wire[r]) :
                           wire[r][i].m \in issued'[r] /\ wire[r][i].m.at >= core[Peer(r)].peer_next
    BY <1>2, <1>7, PeerFacts DEF NothingForged, Travelling
  <2>1. /\ core[Peer(r)].peer \subseteq {m \in issued[r] : m.at >= core[Peer(r)].step}
        /\ \A m \in outbox[r] : m \in issued[r] /\ m.at >= core[Peer(r)].peer_next
        /\ \A i \in Travelling(wire[r]) :
             wire[r][i].m \in issued[r] /\ wire[r][i].m.at >= core[Peer(r)].peer_next
    BY DEF IInv, NothingForged
  <2>2. CASE r # s
    BY <1>5, <2>1, <2>2
  <2>3. CASE r = s
    BY <1>5, <1>12, <1>14, <2>1, <2>3
  <2> QED BY <2>2, <2>3
<1>16. CommitsInOrder'
  <2> SUFFICES ASSUME NEW r \in Role, NEW i \in Commits(wire[r])
               PROVE  /\ wire[r][i].through < core'[r].next_sample
                      /\ \A m \in outbox'[r] : m.at > wire[r][i].through
                      /\ \A j \in Travelling(wire[r]) :
                           i < j => wire[r][j].m.at > wire[r][i].through
    BY <1>2 DEF CommitsInOrder, Travelling, Commits
  <2>1. /\ wire[r][i].through < core[r].next_sample
        /\ \A m \in outbox[r] : m.at > wire[r][i].through
        /\ \A j \in Travelling(wire[r]) : i < j => wire[r][j].m.at > wire[r][i].through
    BY DEF IInv, CommitsInOrder
  <2>2. CASE r # s
    BY <1>5, <2>1, <2>2
  <2>3. CASE r = s
    <3>1. wire[s][i] \in Message /\ wire[s][i].type = "commit"
      BY <1>3, <2>3, ElementOfSeq, LenProperties DEF TypeOK, Commits
    <3>2. wire[s][i].through \in Nat
      BY <3>1, MessageFacts
    <3>3. \A m \in new : m.at \in Nat
      BY <1>4 DEF Scheduled
    <3>4. c.next_sample \in Nat /\ d.next_sample \in Nat
      BY <1>3, <1>4 DEF c, Core
    <3>5. wire[s][i].through < c.next_sample
      BY <2>1, <2>3 DEF c
    <3> QED BY <1>4, <1>5, <2>1, <2>3, <3>2, <3>3, <3>4, <3>5
  <2> QED BY <2>2, <2>3
<1>17. RunIsComplete'
  <2>1. \A r, q \in Role : \A m \in issued'[q] : m \in issued[q] \/ m.at >= core[r].step
    <3> SUFFICES ASSUME NEW r \in Role, NEW m \in new
                 PROVE  m.at >= core[r].step
      BY <1>5
    <3>1. core[r].step <= core[s].next_sample
      <4>1. core[r].step \in Nat /\ core[r].peer_next \in Nat /\ core[s].next_sample \in Nat
        BY <1>3 DEF TypeOK, Core
      <4>2. CASE r = s
        BY <4>2 DEF IInv, WatermarksOrdered
      <4>3. CASE r = Peer(s)
        <5>1. core[r].step <= core[r].peer_next /\ core[r].peer_next <= core[s].next_sample
          BY <4>3, PeerFacts DEF IInv, WatermarksOrdered
        <5> QED BY <4>1, <5>1
      <4> QED BY <4>2, <4>3, PeerFacts
    <3>2. core[r].step \in Nat /\ core[s].next_sample \in Nat /\ m.at \in Nat
      BY <1>3, <1>4 DEF TypeOK, Core, Scheduled
    <3> QED BY <1>4, <3>1, <3>2 DEF c
  <2>2. \A r, q \in Role : Due(issued'[q], 0, core[r].step) = Due(issued[q], 0, core[r].step)
    <3> SUFFICES ASSUME NEW r \in Role, NEW q \in Role
                 PROVE  Due(issued'[q], 0, core[r].step) = Due(issued[q], 0, core[r].step)
      OBVIOUS
    <3>1. issued[q] \subseteq issued'[q] /\ issued'[q] \subseteq Scheduled /\ core[r].step \in Nat
      BY <1>3, <1>8, <1>12 DEF TypeOK, Core
    <3> QED BY <2>1, <3>1 DEF Due, Scheduled
  <2>3. \A r \in Role : Script(core[r].step)' = Script(core[r].step)
    BY <1>7, <2>2 DEF Script, Role
  <2> QED BY <1>7, <2>3 DEF IInv, RunIsComplete
<1>18. \A r \in Role : \A m \in issued[r], x \in issued'[r] :
         x \notin issued[r] => r = s /\ x \in new /\ m.at < x.at
  <2> SUFFICES ASSUME NEW r \in Role, NEW m \in issued[r], NEW x \in issued'[r],
                      x \notin issued[r]
               PROVE  r = s /\ x \in new /\ m.at < x.at
    OBVIOUS
  <2>1. r = s /\ x \in new
    BY <1>5
  <2>2. m.at < c.next_sample /\ c.next_sample <= x.at
    BY <1>4, <2>1 DEF IInv, OwnInv, c
  <2>3. m.at \in Nat /\ x.at \in Nat /\ c.next_sample \in Nat
    BY <1>3, <1>4, <2>1 DEF TypeOK, Scheduled, Core, c
  <2> QED BY <2>1, <2>2, <2>3
<1>19. Ranked'
  <2> SUFFICES ASSUME NEW r \in Role, NEW m \in issued'[r]
               PROVE  /\ m.n > 0
                      /\ \A k \in 1 .. m.n - 1 :
                           \E x \in issued'[r] : x.at = m.at /\ x.n = k
                      /\ \A x \in issued'[r] : x.at = m.at /\ x.n = m.n => x = m
    BY DEF Ranked
  <2>0. \A x \in issued'[r] : x.at \in Nat
    BY <1>8 DEF TypeOK, Scheduled
  <2>1. CASE m \in issued[r]
    <3>1. /\ m.n > 0
          /\ \A k \in 1 .. m.n - 1 : \E x \in issued[r] : x.at = m.at /\ x.n = k
          /\ \A x \in issued[r] : x.at = m.at /\ x.n = m.n => x = m
      BY <2>1 DEF IInv, Ranked
    <3>2. \A x \in issued'[r] : x.at = m.at => x \in issued[r]
      BY <1>12, <1>18, <2>0, <2>1
    <3> QED BY <1>12, <3>1, <3>2
  <2>2. CASE m \notin issued[r]
    <3>1. r = s /\ m \in new
      BY <1>5, <2>2
    <3>2. /\ m.n > 0
          /\ \A k \in 1 .. m.n - 1 : \E x \in new : x.at = m.at /\ x.n = k
          /\ \A x \in new : x.at = m.at /\ x.n = m.n => x = m
      BY <1>3, <3>1, ScheduleRanked DEF new
    <3>3. \A x \in issued'[r] : x.at = m.at => x \in new
      BY <1>5, <1>18, <2>0, <2>2, <3>1
    <3> QED BY <1>5, <3>1, <3>2, <3>3
  <2> QED BY <2>1, <2>2
<1>20. InSendOrder'
  <2> SUFFICES ASSUME NEW r \in Role
               PROVE  /\ \A i, j \in Travelling(wire[r]) :
                           i < j => Before(wire[r][i].m, wire[r][j].m)
                      /\ \A i \in Travelling(wire[r]), m \in outbox'[r] :
                           Before(wire[r][i].m, m)
                      /\ \A x \in core[Peer(r)].peer :
                           /\ \A i \in Travelling(wire[r]) : Before(x, wire[r][i].m)
                           /\ \A m \in outbox'[r] : Before(x, m)
    BY <1>2, <1>7, PeerFacts DEF InSendOrder
  <2>1. /\ \A i, j \in Travelling(wire[r]) : i < j => Before(wire[r][i].m, wire[r][j].m)
        /\ \A i \in Travelling(wire[r]), m \in outbox[r] : Before(wire[r][i].m, m)
        /\ \A x \in core[Peer(r)].peer :
             /\ \A i \in Travelling(wire[r]) : Before(x, wire[r][i].m)
             /\ \A m \in outbox[r] : Before(x, m)
    BY DEF IInv, InSendOrder
  <2>2. CASE r # s
    BY <1>5, <2>1, <2>2
  <2>3. CASE r = s
    <3>1. \A x \in issued[s], m \in new : Before(x, m)
      <4> SUFFICES ASSUME NEW x \in issued[s], NEW m \in new PROVE Before(x, m)
        OBVIOUS
      <4>1. x.at < c.next_sample /\ c.next_sample <= m.at
        BY <1>4 DEF IInv, OwnInv, c
      <4>2. x.at \in Nat /\ m.at \in Nat /\ c.next_sample \in Nat
        BY <1>3, <1>4 DEF TypeOK, Scheduled, Core, c
      <4> QED BY <4>1, <4>2 DEF Before
    <3>2. /\ \A i \in Travelling(wire[s]) : wire[s][i].m \in issued[s]
          /\ core[Peer(s)].peer \subseteq issued[s]
      BY DEF IInv, NothingForged
    <3> QED BY <1>5, <2>1, <2>3, <3>1, <3>2
  <2> QED BY <2>2, <2>3
<1> QED BY <1>8, <1>9, <1>10, <1>11, <1>13, <1>15, <1>16, <1>17, <1>19, <1>20 DEF IInv

(* A command takes, on arrival, the rank its sender gave it: everything sent *)
(* before it in its tick is buffered, and nothing sent after it.             *)
LEMMA ArrivedFacts ==
  ASSUME IInv, NEW s \in Role, wire[Peer(s)] # <<>>, Head(wire[Peer(s)]).type = "command"
  PROVE  Arrived(core[s], Head(wire[Peer(s)]).m) = Head(wire[Peer(s)]).m
<1> DEFINE p == Peer(s)
           w == wire[p]
           m == Head(w).m
           S == {x \in core[s].peer : x.at = m.at}
<1>1. p \in Role /\ Peer(p) = s
  BY PeerFacts
<1>2. TypeOK /\ core[s] \in Core /\ w \in Seq(Message) /\ issued[p] \subseteq Scheduled
  BY <1>1 DEF IInv, TypeOK
<1>3. 1 \in Travelling(w) /\ w[1].m = m
  BY <1>2, WireTail DEF Travelling
<1>4. m \in issued[p] /\ m.at >= core[s].peer_next
  BY <1>1, <1>3 DEF IInv, NothingForged
<1>5. m \in Scheduled /\ m.at \in Nat /\ m.n \in Nat /\ m.at >= core[s].step
  <2>1. core[s].step <= core[s].peer_next
    BY DEF IInv, WatermarksOrdered
  <2> QED BY <1>2, <1>4, <2>1 DEF Scheduled, Core
<1>6. /\ m.n > 0
      /\ \A k \in 1 .. m.n - 1 : \E x \in issued[p] : x.at = m.at /\ x.n = k
      /\ \A x \in core[s].peer : x \in issued[p]
      /\ \A x \in issued[p] : x.n > 0
      /\ \A x, y \in issued[p] : x.at = y.at /\ x.n = y.n => x = y
  BY <1>1, <1>4 DEF IInv, Ranked, NothingForged
<1>7. /\ \A j \in Travelling(w) : 1 < j => Before(m, w[j].m)
      /\ \A x \in outbox[p] : Before(m, x)
      /\ \A x \in core[s].peer : Before(x, m)
  BY <1>1, <1>3 DEF IInv, InSendOrder
<1> HIDE DEF m, w, p
<1>8. \A x \in S : x.n \in 1 .. m.n - 1
  <2> SUFFICES ASSUME NEW x \in S PROVE x.n \in 1 .. m.n - 1
    OBVIOUS
  <2>1. x \in Scheduled /\ x.n \in Nat /\ x.n > 0
    BY <1>2, <1>6 DEF Scheduled
  <2>2. x.n < m.n
    BY <1>5, <1>7 DEF Before
  <2> QED BY <1>5, <2>1, <2>2
<1>9. \A k \in 1 .. m.n - 1 : \E x \in S : x.n = k
  <2> SUFFICES ASSUME NEW k \in 1 .. m.n - 1 PROVE \E x \in S : x.n = k
    OBVIOUS
  <2>1. PICK x \in issued[p] : x.at = m.at /\ x.n = k
    BY <1>6
  <2>2. ~Before(m, x) /\ x # m
    BY <1>5, <2>1 DEF Before
  <2>3. \/ x \in core[s].peer
        \/ x \in outbox[p]
        \/ \E i \in Travelling(w) : w[i].m = x
    BY <1>1, <1>5, <2>1 DEF IInv, NothingLost, w
  <2>4. \A i \in Travelling(w) : i = 1 \/ 1 < i
    BY <1>2, LenProperties DEF Travelling
  <2>5. x \in core[s].peer
    BY <1>3, <1>7, <2>2, <2>3, <2>4
  <2> QED BY <2>1, <2>5
<1>10. \A x, y \in S : x.n = y.n => x = y
  BY <1>6
<1>11. m.n - 1 \in Nat
  BY <1>5, <1>6
<1> HIDE DEF S
<1>12. Cardinality(S) = m.n - 1
  BY <1>8, <1>9, <1>10, <1>11, RankCount
<1>13. Arrived(core[s], m) = [m EXCEPT !.n = 1 + Cardinality(S)]
  BY DEF Arrived, S
<1>14. Arrived(core[s], m) = [m EXCEPT !.n = m.n]
  BY <1>5, <1>12, <1>13
<1>15. Arrived(core[s], m) = m
  BY <1>5, <1>14 DEF Scheduled
<1> QED BY <1>15 DEF m, w, p

(* A drained command joins the buffer; a drained commit raises the watermark *)
(* only over ticks whose commands have all arrived before it.               *)
LEMMA DrainIInv ==
  ASSUME IInv, NEW s \in Role, Drain(s)
  PROVE  IInv'
<1> USE ConfigAssumption
<1> DEFINE p == Peer(s)
           w == wire[p]
           v == wire'[p]
           b == Head(w)
           c == core[s]
           d == core'[s]
<1>1. /\ p \in Role /\ p # s /\ Peer(p) = s
      /\ \A q \in Role : q = s \/ q = p
  BY PeerFacts
<1>2. TypeOK
  BY DEF IInv
<1>3. /\ w # <<>> /\ wire' = [wire EXCEPT ![p] = Tail(@)]
      /\ outbox' = outbox /\ issued' = issued
  BY DEF Drain
<1>4. v = Tail(w) /\ wire'[s] = wire[s] /\ w \in Seq(Message)
  BY <1>1, <1>2, <1>3 DEF TypeOK
<1>5. /\ v \in Seq(Message)
      /\ 1 \in DOMAIN w /\ w[1] = b /\ b \in Message
      /\ \A i \in DOMAIN v : i \in Nat /\ i + 1 > 1 /\ i + 1 \in DOMAIN w /\ v[i] = w[i + 1]
      /\ \A i \in DOMAIN w : i = 1 \/ (i - 1 \in DOMAIN v /\ v[i - 1] = w[i])
  BY <1>3, <1>4, WireTail
<1>6. /\ c \in Core /\ core[p] \in Core
      /\ c.step \in Nat /\ c.peer_next \in Nat /\ c.next_sample \in Nat
      /\ core[p].next_sample \in Nat /\ core[p].step \in Nat
  BY <1>1, <1>2 DEF TypeOK, Core
<1>7. /\ c.step <= c.peer_next /\ c.peer_next <= core[p].next_sample
      /\ core[p].next_sample <= MaxSteps
  BY <1>1 DEF IInv, WatermarksOrdered
<1>8. \/ b.type = "command" /\ b.m \in Scheduled
      \/ b.type = "commit" /\ b.through \in Nat
  BY <1>5, MessageFacts
<1>9. b.type = "command" => /\ b.m \in issued[p] /\ b.m.at >= c.peer_next
                            /\ b.m.at < core[p].next_sample
  <2> SUFFICES ASSUME b.type = "command"
               PROVE  /\ b.m \in issued[p] /\ b.m.at >= c.peer_next
                      /\ b.m.at < core[p].next_sample
    OBVIOUS
  <2>1. 1 \in Travelling(wire[p])
    BY <1>5 DEF Travelling
  <2>2. b.m \in issued[p] /\ b.m.at >= c.peer_next
    BY <1>1, <1>5, <2>1 DEF IInv, NothingForged
  <2> QED BY <1>1, <2>2 DEF IInv, OwnInv
<1>10. b.type = "commit" =>
          /\ b.through < core[p].next_sample
          /\ \A m \in outbox[p] : m.at > b.through
          /\ \A j \in Travelling(w) : 1 < j => w[j].m.at > b.through
  <2> SUFFICES ASSUME b.type = "commit"
               PROVE  /\ b.through < core[p].next_sample
                      /\ \A m \in outbox[p] : m.at > b.through
                      /\ \A j \in Travelling(w) : 1 < j => w[j].m.at > b.through
    OBVIOUS
  <2>1. 1 \in Commits(wire[p])
    BY <1>5 DEF Commits
  <2> QED BY <1>1, <1>5, <2>1 DEF IInv, CommitsInOrder
<1>11. ~Refused(s, b)
  <2>1. CASE b.type = "command"
    <3>1. b.m.at \in Nat
      BY <1>8, <2>1 DEF Scheduled
    <3>2. ~(b.m.at < c.peer_next) /\ ~(b.m.at >= MaxSteps)
      BY <1>6, <1>7, <1>9, <2>1, <3>1
    <3> QED BY <2>1, <3>2 DEF Refused, CommandRefused
  <2>2. CASE b.type = "commit"
    <3>1. ~(b.through >= MaxSteps)
      BY <1>6, <1>7, <1>8, <1>10, <2>2
    <3> QED BY <2>2, <3>1 DEF Refused, CommitRefused
  <2> QED BY <1>8, <2>1, <2>2
<1>12. /\ phase' = phase
       /\ core' = [core EXCEPT ![s] = IF b.type = "command" THEN OnPeerCommand(@, b.m)
                                      ELSE OnPeerCommit(@, b.through)]
  BY <1>11 DEF Drain
<1>13. /\ d = IF b.type = "command" THEN OnPeerCommand(c, b.m) ELSE OnPeerCommit(c, b.through)
       /\ core'[p] = core[p]
  BY <1>1, <1>2, <1>12 DEF TypeOK
<1>14. /\ d \in Core
       /\ d.step = c.step /\ d.next_sample = c.next_sample
       /\ d.own = c.own /\ d.ran = c.ran
       /\ d.peer = IF b.type = "command" THEN c.peer \cup {b.m} ELSE c.peer
       /\ d.peer_next = IF b.type = "commit" /\ b.through + 1 > c.peer_next
                        THEN b.through + 1 ELSE c.peer_next
  <2>1. CASE b.type = "command"
    <3>1. d = OnPeerCommand(c, b.m) /\ c \in Core /\ b.m \in Scheduled
          /\ Arrived(c, b.m) = b.m
      BY <1>3, <1>6, <1>8, <1>13, <2>1, ArrivedFacts
    <3> HIDE DEF d, c, b
    <3> QED BY <2>1, <3>1, CommandFacts
  <2>2. CASE b.type = "commit"
    <3>1. d = OnPeerCommit(c, b.through) /\ c \in Core /\ b.through \in Nat
      BY <1>6, <1>8, <1>13, <2>2
    <3> HIDE DEF d, c, b
    <3> QED BY <2>2, <3>1, CommitFacts
  <2> QED BY <1>8, <2>1, <2>2
<1> HIDE DEF d, c, b, v, w, p
<1>15. \A r \in Role :
         /\ core'[r].step = core[r].step /\ core'[r].next_sample = core[r].next_sample
         /\ core'[r].own = core[r].own /\ core'[r].ran = core[r].ran
  BY <1>1, <1>13, <1>14 DEF c, d
<1>16. TypeOK'
  <2>1. core' \in [Role -> Core]
    BY <1>2, <1>12, <1>14 DEF TypeOK, d
  <2>2. wire' \in [Role -> Seq(Message)]
    BY <1>2, <1>3, <1>5 DEF TypeOK, v
  <2> QED BY <1>2, <1>3, <1>12, <2>1, <2>2 DEF TypeOK
<1>17. NoProtocolError' /\ OutboxInv' /\ OwnInv'
  BY <1>3, <1>12, <1>15 DEF IInv, NoProtocolError, OutboxInv, OwnInv
<1>18. RunIsComplete'
  BY <1>3, <1>15 DEF IInv, RunIsComplete, Script
<1>19. d.peer_next >= c.peer_next /\ d.peer_next <= core[p].next_sample /\ d.peer_next \in Nat
  BY <1>6, <1>7, <1>8, <1>10, <1>14
<1>20. WatermarksOrdered'
  <2> SUFFICES ASSUME NEW r \in Role
               PROVE  /\ core[r].step <= core'[r].peer_next
                      /\ core[r].step <= core[r].next_sample
                      /\ core[r].next_sample <= MaxSteps
                      /\ core[r].next_sample <= core[r].step + InputDelay[r] + 1
                      /\ core'[r].peer_next <= core[Peer(r)].next_sample
    BY <1>15, PeerFacts DEF WatermarksOrdered
  <2>1. /\ core[r].step <= core[r].peer_next
        /\ core[r].step <= core[r].next_sample
        /\ core[r].next_sample <= MaxSteps
        /\ core[r].next_sample <= core[r].step + InputDelay[r] + 1
        /\ core[r].peer_next <= core[Peer(r)].next_sample
    BY DEF IInv, WatermarksOrdered
  <2>2. CASE r = s
    BY <1>6, <1>7, <1>19, <2>1, <2>2 DEF c, d, p
  <2>3. CASE r = p
    BY <1>13, <2>1, <2>3
  <2> QED BY <1>1, <2>2, <2>3
<1>21. NothingLost'
  <2> SUFFICES ASSUME NEW r \in Role, NEW x \in issued'[r], x.at >= core'[Peer(r)].step
               PROVE  \/ x \in core'[Peer(r)].peer
                      \/ x \in outbox'[r]
                      \/ \E i \in Travelling(wire'[r]) : wire'[r][i].m = x
    BY DEF NothingLost
  <2>0. x \in issued[r] /\ x.at >= core[Peer(r)].step /\ outbox'[r] = outbox[r]
    BY <1>3, <1>15, PeerFacts
  <2>1. \/ x \in core[Peer(r)].peer
        \/ x \in outbox[r]
        \/ \E i \in Travelling(wire[r]) : wire[r][i].m = x
    BY <2>0 DEF IInv, NothingLost
  <2>2. CASE r = s
    BY <1>4, <1>13, <2>0, <2>1, <2>2 DEF p
  <2>3. CASE r = p
    <3>1. CASE x \in core[Peer(r)].peer
      BY <1>1, <1>14, <2>3, <3>1 DEF c, d
    <3>2. CASE \E i \in Travelling(wire[r]) : wire[r][i].m = x
      <4>1. PICK i \in Travelling(w) : w[i].m = x
        BY <2>3, <3>2 DEF w
      <4>2. i \in DOMAIN w /\ w[i].type = "command"
        BY DEF Travelling
      <4>3. CASE i = 1
        <5>1. x \in d.peer
          BY <1>5, <1>14, <4>1, <4>2, <4>3
        <5> QED BY <1>1, <2>3, <5>1 DEF d
      <4>4. CASE i # 1
        <5>1. i - 1 \in Travelling(v) /\ v[i - 1].m = x
          BY <1>5, <4>1, <4>2, <4>4 DEF Travelling
        <5> QED BY <2>3, <5>1 DEF v
      <4> QED BY <4>3, <4>4
    <3> QED BY <2>0, <2>1, <3>1, <3>2
  <2> QED BY <1>1, <2>2, <2>3
<1>22. \A j \in Travelling(v) : j + 1 \in Travelling(w) /\ 1 < j + 1 /\ v[j] = w[j + 1]
  BY <1>5 DEF Travelling
<1>23. \A j \in Travelling(v) : v[j].m \in issued[p] /\ v[j].m.at >= d.peer_next
  <2> SUFFICES ASSUME NEW j \in Travelling(v)
               PROVE  v[j].m \in issued[p] /\ v[j].m.at >= d.peer_next
    OBVIOUS
  <2>1. w[j + 1].m \in issued[p] /\ w[j + 1].m.at >= c.peer_next
    BY <1>1, <1>22 DEF IInv, NothingForged, w, c
  <2>2. w[j + 1].m.at \in Nat
    BY <1>1, <1>2, <2>1 DEF TypeOK, Scheduled
  <2>3. b.type = "commit" => w[j + 1].m.at > b.through
    BY <1>10, <1>22
  <2> QED BY <1>6, <1>8, <1>14, <1>22, <2>1, <2>2, <2>3
<1>24. \A m \in outbox[p] : m \in issued[p] /\ m.at >= d.peer_next
  <2> SUFFICES ASSUME NEW m \in outbox[p]
               PROVE  m \in issued[p] /\ m.at >= d.peer_next
    OBVIOUS
  <2>1. m \in issued[p] /\ m.at >= c.peer_next
    BY <1>1 DEF IInv, NothingForged, c
  <2>2. m.at \in Nat
    BY <1>1, <1>2, <2>1 DEF TypeOK, Scheduled
  <2> QED BY <1>6, <1>8, <1>10, <1>14, <2>1, <2>2
<1>25. d.peer \subseteq {m \in issued[p] : m.at >= c.step}
  <2>1. c.peer \subseteq {m \in issued[p] : m.at >= c.step}
    BY <1>1 DEF IInv, NothingForged, c
  <2>2. b.type = "command" => b.m.at >= c.step
    BY <1>6, <1>7, <1>8, <1>9 DEF Scheduled
  <2> QED BY <1>9, <1>14, <2>1, <2>2
<1>26. NothingForged'
  <2> SUFFICES ASSUME NEW r \in Role
               PROVE  /\ core'[Peer(r)].peer \subseteq {m \in issued[r] : m.at >= core[Peer(r)].step}
                      /\ \A m \in outbox[r] : m \in issued[r] /\ m.at >= core'[Peer(r)].peer_next
                      /\ \A i \in Travelling(wire'[r]) :
                           /\ wire'[r][i].m \in issued[r]
                           /\ wire'[r][i].m.at >= core'[Peer(r)].peer_next
    BY <1>3, <1>15, PeerFacts DEF NothingForged
  <2>1. CASE r = s
    BY <1>4, <1>13, <2>1 DEF IInv, NothingForged, p
  <2>2. CASE r = p
    BY <1>1, <1>23, <1>24, <1>25, <2>2 DEF c, d, v
  <2> QED BY <1>1, <2>1, <2>2
<1>27. CommitsInOrder'
  <2> SUFFICES ASSUME NEW r \in Role, NEW i \in Commits(wire'[r])
               PROVE  /\ wire'[r][i].through < core[r].next_sample
                      /\ \A m \in outbox[r] : m.at > wire'[r][i].through
                      /\ \A j \in Travelling(wire'[r]) :
                           i < j => wire'[r][j].m.at > wire'[r][i].through
    BY <1>3, <1>15 DEF CommitsInOrder
  <2>1. \A k \in Commits(wire[r]) :
          /\ wire[r][k].through < core[r].next_sample
          /\ \A m \in outbox[r] : m.at > wire[r][k].through
          /\ \A j \in Travelling(wire[r]) : k < j => wire[r][j].m.at > wire[r][k].through
    BY DEF IInv, CommitsInOrder
  <2>2. CASE r = s
    BY <1>4, <2>1, <2>2
  <2>3. CASE r = p
    <3>1. i + 1 \in Commits(wire[r]) /\ wire'[r][i] = wire[r][i + 1] /\ i \in Nat
      BY <1>5, <2>3 DEF Commits, v, w
    <3>2. ASSUME NEW j \in Travelling(wire'[r]), i < j
          PROVE  wire'[r][j].m.at > wire'[r][i].through
      <4>1. j + 1 \in Travelling(wire[r]) /\ wire'[r][j] = wire[r][j + 1] /\ j \in Nat
        BY <1>5, <1>22, <2>3 DEF Travelling, v, w
      <4>2. i + 1 < j + 1
        BY <3>1, <3>2, <4>1
      <4> QED BY <2>1, <3>1, <4>1, <4>2
    <3> QED BY <2>1, <3>1, <3>2
  <2> QED BY <1>1, <2>2, <2>3
<1>28. Ranked'
  BY <1>3 DEF IInv, Ranked
<1>29. InSendOrder'
  <2> SUFFICES ASSUME NEW r \in Role
               PROVE  /\ \A i, j \in Travelling(wire'[r]) :
                           i < j => Before(wire'[r][i].m, wire'[r][j].m)
                      /\ \A i \in Travelling(wire'[r]), m \in outbox[r] :
                           Before(wire'[r][i].m, m)
                      /\ \A x \in core'[Peer(r)].peer :
                           /\ \A i \in Travelling(wire'[r]) : Before(x, wire'[r][i].m)
                           /\ \A m \in outbox[r] : Before(x, m)
    BY <1>3 DEF InSendOrder
  <2>1. /\ \A i, j \in Travelling(wire[r]) : i < j => Before(wire[r][i].m, wire[r][j].m)
        /\ \A i \in Travelling(wire[r]), m \in outbox[r] : Before(wire[r][i].m, m)
        /\ \A x \in core[Peer(r)].peer :
             /\ \A i \in Travelling(wire[r]) : Before(x, wire[r][i].m)
             /\ \A m \in outbox[r] : Before(x, m)
    BY DEF IInv, InSendOrder
  <2>2. CASE r = s
    BY <1>4, <1>13, <2>1, <2>2 DEF p
  <2>3. CASE r = p
    <3>1. \A j \in Travelling(v) :
            j \in Nat /\ j + 1 \in Travelling(w) /\ v[j] = w[j + 1] /\ 1 < j + 1
      BY <1>5, <1>22 DEF Travelling
    <3>2. \A i, j \in Travelling(v) : i < j => Before(v[i].m, v[j].m)
      <4> SUFFICES ASSUME NEW i \in Travelling(v), NEW j \in Travelling(v), i < j
                   PROVE  Before(v[i].m, v[j].m)
        OBVIOUS
      <4>1. i + 1 < j + 1
        BY <3>1
      <4> QED BY <2>1, <2>3, <3>1, <4>1 DEF w
    <3>3. \A i \in Travelling(v), m \in outbox[p] : Before(v[i].m, m)
      BY <2>1, <2>3, <3>1 DEF w
    <3>4. \A x \in d.peer : x \in c.peer \/ (b.type = "command" /\ x = b.m)
      BY <1>14
    <3>5. b.type = "command" => 1 \in Travelling(w) /\ w[1].m = b.m
      BY <1>5 DEF Travelling
    <3>6. \A x \in d.peer : /\ \A i \in Travelling(v) : Before(x, v[i].m)
                            /\ \A m \in outbox[p] : Before(x, m)
      BY <1>1, <2>1, <2>3, <3>1, <3>4, <3>5 DEF w, c
    <3> QED BY <1>1, <2>3, <3>2, <3>3, <3>6 DEF v, d
  <2> QED BY <1>1, <2>2, <2>3
<1> QED BY <1>16, <1>17, <1>18, <1>20, <1>21, <1>26, <1>27, <1>28, <1>29 DEF IInv

(* Executing the ready ticks: below the peer's watermark the buffer holds all *)
(* the peer ever issued, so the merged inputs are the whole script.          *)
LEMMA AdvanceIInv ==
  ASSUME IInv, NEW s \in Role, AdvanceReady(s)
  PROVE  IInv'
<1> USE ConfigAssumption
<1> DEFINE p == Peer(s)
           c == core[s]
           d == core'[s]
<1>1. /\ p \in Role /\ p # s /\ Peer(p) = s
      /\ \A q \in Role : q = s \/ q = p
  BY PeerFacts
<1>2. TypeOK /\ c \in Core
  BY DEF IInv, TypeOK
<1>3. /\ phase[s] = "drain"
      /\ core' = [core EXCEPT ![s] = Advance(s, @)]
      /\ phase' = [phase EXCEPT ![s] = IF Finished(core'[s]) THEN "finished" ELSE "pump"]
      /\ outbox' = outbox /\ wire' = wire /\ issued' = issued
  BY DEF AdvanceReady
<1>4. /\ d = Advance(s, c) /\ core'[p] = core[p]
      /\ \A r \in Role : r # s => phase'[r] = phase[r]
      /\ phase'[s] \in {"finished", "pump"}
  BY <1>1, <1>2, <1>3 DEF TypeOK
<1>5. /\ d \in Core
      /\ d.next_sample = c.next_sample /\ d.peer_next = c.peer_next
      /\ c.step <= d.step
      /\ d.step = c.step \/ (d.step <= c.peer_next /\ d.step <= c.next_sample)
      /\ d.own = c.own \ Due(c.own, c.step, d.step)
      /\ d.peer = c.peer \ Due(c.peer, c.step, d.step)
      /\ d.ran = c.ran \cup InSlot(1, Due(First(s, c), c.step, d.step))
                       \cup InSlot(2, Due(Second(s, c), c.step, d.step))
  BY <1>2, <1>4, AdvanceFacts
<1>6. /\ c.step \in Nat /\ d.step \in Nat /\ c.peer_next \in Nat /\ c.next_sample \in Nat
      /\ c.own \subseteq Scheduled /\ c.peer \subseteq Scheduled
  BY <1>2, <1>5 DEF Core
<1>7. issued[s] \subseteq Scheduled /\ issued[p] \subseteq Scheduled
  BY <1>1, <1>2 DEF TypeOK
<1> HIDE DEF c, d, p
<1>8. TypeOK'
  <2>1. core' \in [Role -> Core]
    BY <1>2, <1>3, <1>5 DEF TypeOK, d
  <2> QED BY <1>2, <1>3, <1>4, <2>1 DEF TypeOK, Phase
<1>9. NoProtocolError' /\ OutboxInv'
  <2>1. \A r \in Role : core'[r].next_sample = core[r].next_sample
    BY <1>1, <1>4, <1>5 DEF c, d
  <2> QED BY <1>3, <1>4, <2>1 DEF IInv, NoProtocolError, OutboxInv
<1>10. /\ c.step <= c.peer_next /\ c.step <= c.next_sample /\ c.next_sample <= MaxSteps
       /\ c.next_sample <= c.step + InputDelay[s] + 1
       /\ c.peer_next <= core[p].next_sample
  BY DEF IInv, WatermarksOrdered, c, p
<1>11. d.step <= c.peer_next /\ d.step <= c.next_sample
  BY <1>5, <1>10
<1>12. WatermarksOrdered'
  <2> SUFFICES ASSUME NEW r \in Role
               PROVE  /\ core'[r].step <= core'[r].peer_next
                      /\ core'[r].step <= core'[r].next_sample
                      /\ core'[r].next_sample <= MaxSteps
                      /\ core'[r].next_sample <= core'[r].step + InputDelay[r] + 1
                      /\ core'[r].peer_next <= core'[Peer(r)].next_sample
    BY DEF WatermarksOrdered
  <2>1. CASE r = s
    <3>1. c.next_sample <= d.step + InputDelay[s] + 1
      BY <1>5, <1>6, <1>10
    <3> QED BY <1>4, <1>5, <1>10, <1>11, <2>1, <3>1 DEF d, p
  <2>2. CASE r = p
    BY <1>1, <1>4, <1>5, <2>2 DEF IInv, WatermarksOrdered, c, d
  <2> QED BY <1>1, <2>1, <2>2
<1>13. /\ c.own = {m \in issued[s] : m.at >= c.step}
       /\ \A m \in issued[s] : m.at < c.next_sample
  BY DEF IInv, OwnInv, c
<1>14. OwnInv'
  <2> SUFFICES ASSUME NEW r \in Role
               PROVE  /\ \A m \in issued[r] : m.at < core'[r].next_sample
                      /\ core'[r].own = {m \in issued[r] : m.at >= core'[r].step}
    BY <1>3 DEF OwnInv
  <2>1. CASE r = s
    <3>1. d.own = {m \in issued[s] : m.at >= d.step}
      BY <1>5, <1>6, <1>7, <1>13 DEF Due, Scheduled
    <3> QED BY <1>5, <1>13, <2>1, <3>1 DEF d
  <2>2. CASE r = p
    BY <1>4, <2>2 DEF IInv, OwnInv
  <2> QED BY <1>1, <2>1, <2>2
<1>15. /\ c.peer \subseteq {m \in issued[p] : m.at >= c.step}
       /\ \A m \in outbox[p] : m.at >= c.peer_next
       /\ \A i \in Travelling(wire[p]) : wire[p][i].m.at >= c.peer_next
  BY <1>1 DEF IInv, NothingForged, c
<1>16. \A x \in issued[p] : x.at >= c.step =>
         x \in c.peer \/ x \in outbox[p] \/ \E i \in Travelling(wire[p]) : wire[p][i].m = x
  BY <1>1 DEF IInv, NothingLost, c
<1>17. \A x \in c.peer : x.at >= d.step => x \in d.peer
  BY <1>5, <1>6 DEF Due, Scheduled
<1>18. NothingLost'
  <2> SUFFICES ASSUME NEW r \in Role, NEW x \in issued[r], x.at >= core'[Peer(r)].step
               PROVE  \/ x \in core'[Peer(r)].peer
                      \/ x \in outbox[r]
                      \/ \E i \in Travelling(wire[r]) : wire[r][i].m = x
    BY <1>3 DEF NothingLost
  <2>1. CASE r = s
    BY <1>4, <2>1 DEF IInv, NothingLost, p
  <2>2. CASE r = p
    <3>1. x \in issued[p] /\ x.at >= d.step /\ x.at \in Nat
      BY <1>1, <1>7, <2>2 DEF d, Scheduled
    <3>2. x.at >= c.step
      BY <1>5, <1>6, <3>1
    <3> QED BY <1>1, <1>16, <1>17, <2>2, <3>1, <3>2 DEF d
  <2> QED BY <1>1, <2>1, <2>2
<1>19. NothingForged'
  <2> SUFFICES ASSUME NEW r \in Role
               PROVE  /\ core'[Peer(r)].peer \subseteq {m \in issued[r] : m.at >= core'[Peer(r)].step}
                      /\ \A m \in outbox[r] : m \in issued[r] /\ m.at >= core'[Peer(r)].peer_next
                      /\ \A i \in Travelling(wire[r]) :
                           /\ wire[r][i].m \in issued[r]
                           /\ wire[r][i].m.at >= core'[Peer(r)].peer_next
    BY <1>3 DEF NothingForged
  <2>1. CASE r = s
    BY <1>4, <2>1 DEF IInv, NothingForged, p
  <2>2. CASE r = p
    <3>1. d.peer \subseteq {m \in issued[p] : m.at >= d.step}
      BY <1>5, <1>6, <1>15 DEF Due, Scheduled
    <3>2. /\ \A m \in outbox[p] : m \in issued[p] /\ m.at >= d.peer_next
          /\ \A i \in Travelling(wire[p]) :
               wire[p][i].m \in issued[p] /\ wire[p][i].m.at >= d.peer_next
      BY <1>1, <1>5 DEF IInv, NothingForged, c
    <3> QED BY <1>1, <2>2, <3>1, <3>2 DEF d
  <2> QED BY <1>1, <2>1, <2>2
<1>20. CommitsInOrder'
  <2>1. \A r \in Role : core'[r].next_sample = core[r].next_sample
    BY <1>1, <1>4, <1>5 DEF c, d
  <2> QED BY <1>3, <2>1 DEF IInv, CommitsInOrder
<1>21. Due(c.own, c.step, d.step) = Due(issued[s], c.step, d.step)
  BY <1>6, <1>7, <1>13 DEF Due, Scheduled
<1>22. Due(c.peer, c.step, d.step) = Due(issued[p], c.step, d.step)
  <2>1. Due(c.peer, c.step, d.step) \subseteq Due(issued[p], c.step, d.step)
    BY <1>15 DEF Due
  <2>2. ASSUME NEW x \in Due(issued[p], c.step, d.step)
        PROVE  x \in Due(c.peer, c.step, d.step)
    <3>1. x \in issued[p] /\ c.step <= x.at /\ x.at < d.step /\ x.at \in Nat
      BY <1>7, <2>2 DEF Due, Scheduled
    <3>2. x.at >= c.step /\ ~(x.at >= c.peer_next)
      BY <1>6, <1>11, <3>1
    <3>3. x \in c.peer
      BY <1>15, <1>16, <3>1, <3>2
    <3> QED BY <3>1, <3>3 DEF Due
  <2> QED BY <2>1, <2>2
<1>23. d.ran = Script(d.step)
  <2>1. c.ran = Script(c.step)
    BY DEF IInv, RunIsComplete, c
  <2>2. \A q \in Role : \A k \in {1, 2} :
          InSlot(k, Due(issued[q], 0, d.step)) =
            InSlot(k, Due(issued[q], 0, c.step)) \cup InSlot(k, Due(issued[q], c.step, d.step))
    <3> TAKE q \in Role
    <3> TAKE k \in {1, 2}
    <3> DEFINE from == c.step
               stop == d.step
    <3>1. /\ issued[q] \subseteq Scheduled
          /\ from \in Nat /\ stop \in Nat /\ from <= stop
      BY <1>1, <1>5, <1>6, <1>7
    <3> HIDE DEF from, stop
    <3>2. InSlot(k, Due(issued[q], 0, stop)) =
            InSlot(k, Due(issued[q], 0, from)) \cup InSlot(k, Due(issued[q], from, stop))
      BY <3>1, DueSplit
    <3> QED BY <3>2 DEF from, stop
  <2> DEFINE infiltrators == issued["infiltrator"]
             hackers == issued["hacker"]
  <2>3. /\ Script(d.step) = InSlot(1, Due(infiltrators, 0, d.step))
                              \cup InSlot(2, Due(hackers, 0, d.step))
        /\ c.ran = InSlot(1, Due(infiltrators, 0, c.step))
                     \cup InSlot(2, Due(hackers, 0, c.step))
    BY <2>1 DEF Script
  <2>4. /\ InSlot(1, Due(infiltrators, 0, d.step)) =
             InSlot(1, Due(infiltrators, 0, c.step))
               \cup InSlot(1, Due(infiltrators, c.step, d.step))
        /\ InSlot(2, Due(hackers, 0, d.step)) =
             InSlot(2, Due(hackers, 0, c.step)) \cup InSlot(2, Due(hackers, c.step, d.step))
    BY <2>2 DEF Role
  <2>5. /\ Due(First(s, c), c.step, d.step) = Due(infiltrators, c.step, d.step)
        /\ Due(Second(s, c), c.step, d.step) = Due(hackers, c.step, d.step)
    <3>1. CASE s = "infiltrator"
      <4>1. p = "hacker"
        BY <3>1 DEF p, Peer
      <4> QED BY <1>21, <1>22, <3>1, <4>1 DEF First, Second
    <3>2. CASE s = "hacker"
      <4>1. p = "infiltrator" /\ s # "infiltrator"
        BY <3>2 DEF p, Peer
      <4> QED BY <1>21, <1>22, <3>2, <4>1 DEF First, Second
    <3> QED BY <3>1, <3>2 DEF Role
  <2> HIDE DEF infiltrators, hackers
  <2> QED BY <1>5, <2>3, <2>4, <2>5
<1>24. RunIsComplete'
  <2> SUFFICES ASSUME NEW r \in Role
               PROVE  core'[r].ran = Script(core'[r].step)
    BY <1>3 DEF RunIsComplete, Script
  <2>2. CASE r = s
    BY <1>23, <2>2 DEF d
  <2>3. CASE r = p
    BY <1>4, <2>3 DEF IInv, RunIsComplete
  <2> QED BY <1>1, <2>2, <2>3
<1>25. Ranked'
  BY <1>3 DEF IInv, Ranked
<1>26. InSendOrder'
  <2>1. \A r \in Role : core'[r].peer \subseteq core[r].peer
    BY <1>1, <1>4, <1>5 DEF c, d
  <2> QED BY <1>3, <2>1, PeerFacts DEF IInv, InSendOrder
<1> QED BY <1>8, <1>9, <1>12, <1>14, <1>18, <1>19, <1>20, <1>24, <1>25, <1>26 DEF IInv

-------------------------------------------------------------------------------

(* A step that changes nothing keeps the invariant. *)
LEMMA StutterIInv == IInv /\ UNCHANGED vars => IInv'
BY DEF vars, IInv, TypeOK, NoProtocolError, WatermarksOrdered, OutboxInv, OwnInv,
       NothingLost, NothingForged, CommitsInOrder, Ranked, InSendOrder, RunIsComplete, Script

(* Every step of either seat preserves the inductive invariant. *)
THEOREM StepIInv == IInv /\ [Next]_vars => IInv'
<1> SUFFICES ASSUME IInv, [Next]_vars PROVE IInv'
  OBVIOUS
<1>1. ASSUME NEW s \in Role, PumpOutgoing(s) PROVE IInv'
  BY <1>1, PumpIInv
<1>2. ASSUME NEW s \in Role, PushCommand(s) PROVE IInv'
  BY <1>2, PushCommandIInv
<1>3. ASSUME NEW s \in Role, PushCommit(s) PROVE IInv'
  BY <1>3, PushCommitIInv
<1>4. ASSUME NEW s \in Role, Drain(s) PROVE IInv'
  BY <1>4, DrainIInv
<1>5. ASSUME NEW s \in Role, AdvanceReady(s) PROVE IInv'
  BY <1>5, AdvanceIInv
<1>6. CASE Stopped
  BY <1>6, StutterIInv DEF Stopped
<1>7. CASE UNCHANGED vars
  BY <1>7, StutterIInv
<1> QED BY <1>1, <1>2, <1>3, <1>4, <1>5, <1>6, <1>7 DEF Next

(* The inductive invariant, in every reachable state. *)
THEOREM Invariant == Spec => []IInv
BY InitIInv, StepIInv, PTL DEF Spec

(* Type correctness: cores, buffers and messages keep their shapes. *)
THEOREM TypeCorrect == Spec => []TypeOK
<1>1. IInv => TypeOK
  BY DEF IInv
<1> QED BY <1>1, Invariant, PTL

(* Completeness: no interleaving of pushes, drains and frames lets a tick *)
(* run without a command either feed scheduled for it.                    *)
THEOREM Completeness == Spec => []RunIsComplete
<1>1. IInv => RunIsComplete
  BY DEF IInv
<1> QED BY <1>1, Invariant, PTL

(* Two correct seats never reject each other's broadcasts. *)
THEOREM NeverRejected == Spec => []NoProtocolError
<1>1. IInv => NoProtocolError
  BY DEF IInv
<1> QED BY <1>1, Invariant, PTL

(* No seat runs further ahead than its peer's delay allows. *)
THEOREM BoundedSkew == Spec => []SkewBounded
<1>1. IInv => SkewBounded
  <2> SUFFICES ASSUME IInv, NEW r \in Role
               PROVE  core[r].step <= core[Peer(r)].step + InputDelay[Peer(r)] + 1
    BY DEF SkewBounded
  <2>1. /\ core[r].step <= core[r].peer_next
        /\ core[r].peer_next <= core[Peer(r)].next_sample
        /\ core[Peer(r)].next_sample <= core[Peer(r)].step + InputDelay[Peer(r)] + 1
    BY PeerFacts DEF IInv, WatermarksOrdered
  <2>2. /\ core[r].step \in Nat /\ core[r].peer_next \in Nat
        /\ core[Peer(r)].next_sample \in Nat /\ core[Peer(r)].step \in Nat
        /\ InputDelay[Peer(r)] \in Nat
    BY PeerFacts, ConfigAssumption DEF IInv, TypeOK, Core
  <2> QED BY <2>1, <2>2
<1> QED BY <1>1, Invariant, PTL

(* The inputs of the earlier ticks, cut out of a longer script. *)
LEMMA ScriptPrefix ==
  ASSUME TypeOK, NEW a \in Nat, NEW b \in Nat, a <= b
  PROVE  Script(a) = {e \in Script(b) : e.at < a}
<1>1. issued["infiltrator"] \subseteq Scheduled /\ issued["hacker"] \subseteq Scheduled
  BY DEF TypeOK, Role
<1>2. \A S \in SUBSET Scheduled : \A k \in {1, 2} :
        InSlot(k, Due(S, 0, a)) = {e \in InSlot(k, Due(S, 0, b)) : e.at < a}
  <2> TAKE S \in SUBSET Scheduled
  <2> TAKE k \in {1, 2}
  <2>1. \A m \in S : m.at \in Nat
    BY DEF Scheduled
  <2> QED BY <2>1 DEF InSlot, Due
<1> QED BY <1>1, <1>2 DEF Script

(* The seat that is behind has executed a prefix of what the other has; at *)
(* equal steps their simulations are in the same state.                    *)
LEMMA IInvAgrees == IInv => RunsAgree
<1> SUFFICES ASSUME IInv, NEW r \in Role, NEW q \in Role, core[r].step <= core[q].step
             PROVE  core[r].ran = {e \in core[q].ran : e.at < core[r].step}
  BY DEF RunsAgree
<1>1. /\ core[r].ran = Script(core[r].step) /\ core[q].ran = Script(core[q].step)
      /\ TypeOK /\ core[r].step \in Nat /\ core[q].step \in Nat
  BY DEF IInv, RunIsComplete, TypeOK, Core
<1>2. Script(core[r].step) = {e \in Script(core[q].step) : e.at < core[r].step}
  BY <1>1, ScriptPrefix
<1> QED BY <1>1, <1>2

(* Determinism: whatever the relay's timing, the two runs never part. *)
THEOREM Determinism == Spec => []RunsAgree
BY IInvAgrees, Invariant, PTL

(* Only advance_ready changes what was executed. *)
LEMMA CoreSteps ==
  ASSUME TypeOK, [Next]_vars
  PROVE  \/ \A r \in Role : SameRun(core[r], core'[r])
         \/ \E s \in Role : AdvanceReady(s)
<1>0. core \in [Role -> Core] /\ \A r \in Role : SameRun(core[r], core[r])
  BY DEF TypeOK, SameRun
<1>1. ASSUME NEW s \in Role, NEW d, core' = [core EXCEPT ![s] = d], SameRun(core[s], d)
      PROVE  \A r \in Role : SameRun(core[r], core'[r])
  BY <1>0, <1>1
<1>2. ASSUME NEW s \in Role, PumpOutgoing(s) PROVE \A r \in Role : SameRun(core[r], core'[r])
  <2>1. PICK answers \in [SampleWindow(s, core[s]) -> Feed] :
               core' = [core EXCEPT ![s] = Pump(s, core[s], answers)]
    BY <1>2 DEF PumpOutgoing
  <2>2. SameRun(core[s], Pump(s, core[s], answers))
    BY <1>0, HandlersKeepRun
  <2> QED BY <1>1, <2>1, <2>2
<1>3. ASSUME NEW s \in Role, Drain(s) PROVE \A r \in Role : SameRun(core[r], core'[r])
  <2>1. \/ core' = core
        \/ \E m : core' = [core EXCEPT ![s] = OnPeerCommand(core[s], m)]
        \/ \E t : core' = [core EXCEPT ![s] = OnPeerCommit(core[s], t)]
    BY <1>3 DEF Drain
  <2>2. CASE core' = core
    BY <1>0, <2>2
  <2>3. CASE \E m : core' = [core EXCEPT ![s] = OnPeerCommand(core[s], m)]
    BY <1>0, <1>1, <2>3, HandlersKeepRun
  <2>4. CASE \E t : core' = [core EXCEPT ![s] = OnPeerCommit(core[s], t)]
    BY <1>0, <1>1, <2>4, HandlersKeepRun
  <2> QED BY <2>1, <2>2, <2>3, <2>4
<1>4. ASSUME \/ \E s \in Role : PushCommand(s) \/ PushCommit(s)
             \/ Stopped \/ UNCHANGED vars
      PROVE  core' = core
  BY <1>4 DEF PushCommand, PushCommit, Stopped, vars
<1> QED BY <1>0, <1>2, <1>3, <1>4 DEF Next

(* Lockstep does not roll back: whatever a step executes, it only adds ticks. *)
THEOREM NeverRollsBack == Spec => NoRollback
<1> DEFINE Kept == \A r \in Role :
             {e \in core'[r].ran : e.at < core[r].step} = core[r].ran
<1>1. ASSUME IInv, IInv', [Next]_vars PROVE Kept
  <2> SUFFICES ASSUME NEW r \in Role
               PROVE  {e \in core'[r].ran : e.at < core[r].step} = core[r].ran
    OBVIOUS
  <2>1. /\ core[r].ran = Script(core[r].step) /\ core'[r].ran = Script(core[r].step)'
        /\ TypeOK /\ TypeOK' /\ core[r].step \in Nat /\ core'[r].step \in Nat
        /\ core[r] \in Core
    BY <1>1 DEF IInv, RunIsComplete, TypeOK, Core
  <2>2. CASE core'[r].ran = core[r].ran
    <3>1. \A e \in Script(core[r].step) : e.at < core[r].step
      BY DEF Script, InSlot, Due
    <3> QED BY <2>1, <2>2, <3>1
  <2>3. CASE issued' = issued /\ core[r].step <= core'[r].step
    <3>1. core'[r].ran = Script(core'[r].step)
      BY <1>1, <2>3 DEF IInv, RunIsComplete, Script
    <3>2. Script(core[r].step) = {e \in Script(core'[r].step) : e.at < core[r].step}
      BY <2>1, <2>3, ScriptPrefix
    <3> QED BY <2>1, <3>1, <3>2
  <2>4. ASSUME NEW s \in Role, AdvanceReady(s)
        PROVE  issued' = issued /\ core[r].step <= core'[r].step
    <3>1. core' = [core EXCEPT ![s] = Advance(s, core[s])] /\ issued' = issued
      BY <2>4 DEF AdvanceReady
    <3>2. core \in [Role -> Core]
      BY <2>1 DEF TypeOK
    <3>3. core[s].step <= Advance(s, core[s]).step
      BY <3>2, AdvanceFacts
    <3> QED BY <2>1, <3>1, <3>2, <3>3
  <2> QED BY <1>1, <2>1, <2>2, <2>3, <2>4, CoreSteps DEF SameRun
<1>2. IInv /\ IInv' /\ [Next]_vars => [Kept]_core
  BY <1>1
<1>3. [][Kept]_core => NoRollback
  BY DEF NoRollback
<1> QED BY <1>2, <1>3, Invariant, PTL DEF Spec

(* The end of the run, as an inductive invariant: no core holds anything   *)
(* behind a command that ends the simulation, and a seat that left the     *)
(* frame loop has a reason to.                                             *)
EndsLast ==
  \A r \in Role : EndedLast(core[r]) /\ (phase[r] = "finished" => Finished(core[r]))

(* A fresh core has executed no end. *)
LEMMA InitEndsLast == Init => EndsLast
<1> SUFFICES ASSUME Init, NEW r \in Role
             PROVE  EndedLast(core[r]) /\ (phase[r] = "finished" => Finished(core[r]))
  BY DEF EndsLast
<1>1. core[r] = NewCore /\ phase[r] = IF Finished(NewCore) THEN "finished" ELSE "pump"
  BY DEF Init
<1>2. EndedLast(NewCore)
  BY ConfigAssumption DEF EndedLast, NewCore
<1> QED BY <1>1, <1>2

(* No step executes anything behind an ending tick. *)
LEMMA StepEndsLast == TypeOK /\ EndsLast /\ [Next]_vars => EndsLast'
<1> SUFFICES ASSUME TypeOK, EndsLast, [Next]_vars, NEW r \in Role
             PROVE  EndedLast(core'[r]) /\ (phase'[r] = "finished" => Finished(core'[r]))
  BY DEF EndsLast
<1>0. /\ core \in [Role -> Core] /\ phase \in [Role -> Phase]
      /\ EndedLast(core[r]) /\ (phase[r] = "finished" => Finished(core[r]))
  BY DEF TypeOK, EndsLast
<1>1. ASSUME NEW s \in Role, AdvanceReady(s)
      PROVE  EndedLast(core'[r]) /\ (phase'[r] = "finished" => Finished(core'[r]))
  <2>1. /\ core' = [core EXCEPT ![s] = Advance(s, core[s])]
        /\ phase' = [phase EXCEPT ![s] = IF Finished(core'[s]) THEN "finished" ELSE "pump"]
    BY <1>1 DEF AdvanceReady
  <2>2. EndedLast(Advance(s, core[s]))
    BY <1>0, AdvanceEndsLast DEF EndsLast
  <2>3. CASE r = s
    BY <1>0, <2>1, <2>2, <2>3
  <2>4. CASE r # s
    BY <1>0, <2>1, <2>4
  <2> QED BY <2>3, <2>4
<1>2. ASSUME \A s \in Role : ~AdvanceReady(s)
      PROVE  EndedLast(core'[r]) /\ (phase'[r] = "finished" => Finished(core'[r]))
  <2>1. SameRun(core[r], core'[r])
    BY <1>2, CoreSteps
  <2>2. phase'[r] = "finished" => phase[r] = "finished"
    <3>1. ASSUME NEW s \in Role, PumpOutgoing(s) \/ PushCommand(s) \/ PushCommit(s) \/ Drain(s)
          PROVE  phase'[r] = "finished" => phase[r] = "finished"
      BY <1>0, <3>1 DEF PumpOutgoing, PushCommand, PushCommit, Drain
    <3>2. CASE Stopped \/ UNCHANGED vars
      BY <3>2 DEF Stopped, vars
    <3> QED BY <1>2, <3>1, <3>2 DEF Next
  <2> QED BY <1>0, <2>1, <2>2, SameRunEnds
<1> QED BY <1>1, <1>2

(* What an advance executes never goes past the tick that ends the run. *)
THEOREM EndInvariant == Spec => []EndsLast
<1>1. IInv => TypeOK
  BY DEF IInv
<1> QED BY <1>1, Invariant, InitEndsLast, StepEndsLast, PTL DEF Spec

(* Two seats that both finished stopped at the same step: the seat that    *)
(* stopped first has executed the ending command or the whole budget, and  *)
(* the other's log, which has that command too, cannot go past it.         *)
THEOREM FinishesTogether == Spec => []FinishTogether
<1>1. ASSUME IInv, RunsAgree, EndsLast, NEW r \in Role, NEW q \in Role,
             Finished(core[r])
      PROVE  core[q].step <= core[r].step
  <2>1. core[r] \in Core /\ core[q] \in Core /\ core[r].ran = Script(core[r].step)
    BY <1>1 DEF IInv, TypeOK, RunIsComplete
  <2>2. core[r].step \in Nat /\ core[q].step \in Nat /\ MaxSteps \in Nat
    BY <2>1, ConfigAssumption DEF Core
  <2>3. EndedLast(core[r]) /\ EndedLast(core[q])
    BY <1>1 DEF EndsLast
  <2>4. CASE core[r].step >= MaxSteps
    BY <2>2, <2>3, <2>4 DEF EndedLast
  <2>5. CASE core[r].ended /\ core[r].step < core[q].step
    <3>1. PICK e \in core[r].ran : e.cmd \in EndCommands
      BY <2>3, <2>5 DEF EndedLast, SimEnded
    <3>2. e.at < core[r].step /\ e.at \in Nat
      BY <2>1, <3>1 DEF Script, InSlot, Due, Core, Executed
    <3>3. e \in core[q].ran
      BY <1>1, <2>2, <2>5, <3>1 DEF RunsAgree
    <3>4. core[q].step <= e.at + 1
      BY <2>3, <3>1, <3>3 DEF EndedLast
    <3> QED BY <2>2, <2>5, <3>2, <3>4
  <2> QED BY <1>1, <2>2, <2>4, <2>5 DEF Finished
<1>2. IInv /\ RunsAgree /\ EndsLast => FinishTogether
  <2> SUFFICES ASSUME IInv, RunsAgree, EndsLast, \A r \in Role : phase[r] = "finished"
               PROVE  core["infiltrator"].step = core["hacker"].step
    BY DEF FinishTogether
  <2>1. "infiltrator" \in Role /\ "hacker" \in Role
    BY DEF Role
  <2>2. Finished(core["infiltrator"]) /\ Finished(core["hacker"])
    BY <2>1 DEF EndsLast
  <2>3. core["infiltrator"].step \in Nat /\ core["hacker"].step \in Nat
    BY <2>1 DEF IInv, TypeOK, Core
  <2> QED BY <1>1, <2>1, <2>2, <2>3
<1> QED BY <1>2, Determinism, Invariant, EndInvariant, PTL

-------------------------------------------------------------------------------
(* The refinement.  The shared run's script is the log of a seat that is   *)
(* ahead; when the seats are level their logs are the same, so which of    *)
(* them is chosen makes no difference.                                     *)
Leads == Ahead \in Role /\ \A q \in Role : core[q].step <= core[Ahead].step

(* No seat is ahead of the seat that is called ahead. *)
LEMMA AheadLeads == TypeOK => Leads
<1> SUFFICES ASSUME TypeOK PROVE Leads
  OBVIOUS
<1>1. \A r \in Role : core[r].step \in Nat
  BY DEF TypeOK, Core
<1>2. \E r \in Role : \A q \in Role : core[q].step <= core[r].step
  BY <1>1 DEF Role
<1> QED BY <1>2 DEF Leads, Ahead

(* A step that executes nothing leaves the shared run alone. *)
LEMMA IdleStepStutters ==
  ASSUME IInv, IInv', RunsAgree, Leads, Leads',
         \A r \in Role : core'[r].step = core[r].step /\ core'[r].ran = core[r].ran
  PROVE  UNCHANGED Run!vars
<1>1. \A r \in Role : core[r].step \in Nat
  BY DEF IInv, TypeOK, Core
<1>2. Ahead \in Role /\ Ahead' \in Role
  BY DEF Leads
<1>3. core[Ahead'].step = core[Ahead].step
  <2>1. core[Ahead'].step <= core[Ahead].step /\ core'[Ahead].step <= core'[Ahead'].step
    BY <1>2 DEF Leads
  <2> QED BY <1>1, <1>2, <2>1
<1>4. core[Ahead'].ran = core[Ahead].ran
  <2>1. /\ core[Ahead'].ran = {e \in core[Ahead].ran : e.at < core[Ahead'].step}
        /\ core[Ahead].ran = {e \in core[Ahead'].ran : e.at < core[Ahead].step}
    BY <1>1, <1>2, <1>3 DEF RunsAgree
  <2> QED BY <2>1
<1>5. core'[Ahead'].step = core[Ahead].step /\ core'[Ahead'].ran = core[Ahead].ran
  BY <1>2, <1>3, <1>4
<1>6. /\ [r \in Role |-> core[r].step]' = [r \in Role |-> core[r].step]
      /\ [r \in Role |-> core[r].ran]' = [r \in Role |-> core[r].ran]
  OBVIOUS
<1> QED BY <1>5, <1>6 DEF Run!vars

(* A seat that advances from tick i to tick k plays the shared run to k. *)
LEMMA AdvancePlays ==
  ASSUME IInv, IInv', Leads, Leads', EndsLast',
         NEW s \in Role, AdvanceReady(s), core'[s].step # core[s].step,
         NEW k \in Nat, k = core'[s].step
  PROVE  Run!Play(s, k) /\ k \in 1 .. MaxSteps
<1> DEFINE length == core[Ahead].step
           after == core'[Ahead'].step
<1>1. /\ core' = [core EXCEPT ![s] = Advance(s, core[s])] /\ issued' = issued
      /\ core \in [Role -> Core] /\ core' \in [Role -> Core]
      /\ TypeOK /\ Ahead \in Role /\ Ahead' \in Role
  BY DEF AdvanceReady, IInv, TypeOK, Leads
<1>2. \A r \in Role : core[r].step \in Nat /\ core'[r].step \in Nat
  BY <1>1 DEF Core
<1>3. core[s].step <= k
  BY <1>1, AdvanceFacts
<1>4. /\ \A r \in Role : core[r].ran = Script(core[r].step)
      /\ \A r \in Role : core'[r].ran = Script(core'[r].step)
  BY <1>1 DEF IInv, RunIsComplete, Script
<1>5. core[s].step < k /\ k \in Nat /\ length \in Nat /\ after \in Nat
  BY <1>1, <1>2, <1>3
<1>6. k <= MaxSteps
  BY DEF EndsLast, EndedLast
<1>7. after = IF k > length THEN k ELSE length
  <2>1. \A r \in Role : core'[r].step <= after
    BY DEF Leads
  <2>2. \A r \in Role : core[r].step <= length
    BY DEF Leads
  <2>3. \A r \in Role : r # s => core'[r].step = core[r].step
    BY <1>1
  <2>4. after = k \/ after <= length
    BY <1>1, <2>2, <2>3
  <2>5. length <= after
    <3>1. core'[Ahead].step <= after
      BY <1>1, <2>1
    <3>2. core[Ahead].step <= core'[Ahead].step
      BY <1>1, <1>2, <1>5, <2>3
    <3> QED BY <1>1, <1>2, <1>5, <3>1, <3>2
  <2>6. k <= after
    BY <2>1
  <2> HIDE DEF length, after
  <2> QED BY <1>5, <2>4, <2>5, <2>6
<1>8. core[Ahead].ran = Script(length) /\ core'[Ahead'].ran = Script(after)
  BY <1>1, <1>4
<1> HIDE DEF length, after
<1>9. /\ Script(length) = {e \in Script(after) : e.at < length}
      /\ Script(k) = {e \in Script(after) : e.at < k}
  BY <1>1, <1>5, <1>7, ScriptPrefix
<1>10. \A e \in Script(after) : e.at \in Nat /\ e.at < after
  BY <1>1 DEF Script, InSlot, Due, TypeOK, Scheduled, Role
<1>11. \A e \in Script(after) \ Script(length) : length <= e.at /\ e.at < k
  BY <1>5, <1>7, <1>9, <1>10
<1>12. \A e \in Script(after) : e.cmd \in EndCommands => after <= e.at + 1
  BY <1>1, <1>8 DEF EndsLast, EndedLast, after
<1>13. /\ [r \in Role |-> core[r].step]' = [[r \in Role |-> core[r].step] EXCEPT ![s] = k]
       /\ [r \in Role |-> core[r].ran]' =
            [[r \in Role |-> core[r].ran] EXCEPT ![s] = {e \in Script(after) : e.at < k}]
  <2>1. core'[s].ran = {e \in Script(after) : e.at < k}
    BY <1>4, <1>9
  <2> QED BY <1>1, <2>1
<1>14. [r \in Role |-> core[r].step][s] < k
  BY <1>5
<1>15. Run!Play(s, k)
  BY <1>6, <1>7, <1>8, <1>9, <1>11, <1>12, <1>13, <1>14 DEF Run!Play, length, after
<1> QED BY <1>5, <1>6, <1>15, <1>2, ConfigAssumption

(* Two seats and an ordered relay implement one shared run: a script that  *)
(* is only ever extended, at its end, by whoever is ahead, of which every  *)
(* seat has executed a prefix.                                             *)
THEOREM OneRun == Spec => OneSharedRun
<1>1. Init /\ Leads => Run!Init
  <2> SUFFICES ASSUME Init, Leads PROVE Run!Init
    OBVIOUS
  <2>1. \A r \in Role : core[r].step = 0 /\ core[r].ran = {}
    BY DEF Init, NewCore
  <2>2. Ahead \in Role
    BY DEF Leads
  <2> QED BY <2>1, <2>2 DEF Run!Init
<1>2. /\ IInv /\ IInv' /\ RunsAgree /\ Leads /\ Leads' /\ EndsLast'
      /\ [Next]_vars
      => [Run!Next]_(Run!vars)
  <2> SUFFICES ASSUME IInv, IInv', RunsAgree, Leads, Leads', EndsLast', [Next]_vars
               PROVE  [Run!Next]_(Run!vars)
    OBVIOUS
  <2>1. CASE \A r \in Role : core'[r].step = core[r].step /\ core'[r].ran = core[r].ran
    BY <2>1, IdleStepStutters
  <2>2. ASSUME NEW s \in Role, AdvanceReady(s), core'[s].step # core[s].step
        PROVE  Run!Next
    <3>1. core'[s].step \in Nat
      BY DEF IInv, TypeOK, Core
    <3>2. PICK k \in Nat : k = core'[s].step
      BY <3>1
    <3>3. Run!Play(s, k) /\ k \in 1 .. MaxSteps
      BY <2>2, <3>2, AdvancePlays
    <3> QED BY <3>3, Zenon DEF Run!Next
  <2>3. ASSUME NEW s \in Role, AdvanceReady(s), core'[s].step = core[s].step
        PROVE  \A r \in Role : core'[r].step = core[r].step /\ core'[r].ran = core[r].ran
    <3>1. /\ core' = [core EXCEPT ![s] = Advance(s, core[s])] /\ issued' = issued
          /\ core \in [Role -> Core]
      BY <2>3 DEF AdvanceReady, IInv, TypeOK
    <3>2. core[s].ran = Script(core[s].step) /\ core'[s].ran = Script(core'[s].step)
      BY <3>1 DEF IInv, RunIsComplete, Script
    <3> QED BY <2>3, <3>1, <3>2
  <2>4. TypeOK
    BY DEF IInv
  <2> QED BY <2>1, <2>2, <2>3, <2>4, CoreSteps DEF SameRun
<1>3. IInv => TypeOK
  BY DEF IInv
<1> QED
  BY <1>1, <1>2, <1>3, AheadLeads, Invariant, Determinism, EndInvariant, PTL
     DEF Spec, OneSharedRun, Run!Spec

(* Two correct seats run exactly what both feeds scheduled, agree on it, stay *)
(* within a delay of each other and reject nothing.                          *)
THEOREM LockstepSafe == Spec => []LockstepIsSafe
BY TypeCorrect, Completeness, Determinism, NeverRejected, BoundedSkew, PTL DEF LockstepIsSafe
===============================================================================
