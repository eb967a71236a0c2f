-------------------------- MODULE LockstepCoreProofs --------------------------
(***************************************************************************)
(* What the operations of LockstepCore do to a core, for every step        *)
(* budget, pair of delays and feed: the lemmas the proofs about Lockstep   *)
(* and about LiveSession share.                                            *)
(***************************************************************************)
EXTENDS LockstepCore, TLAPS, WellFoundedInduction, SequenceTheorems,
        FiniteSetTheorems, FunctionTheorems

(* The two seats are each other's peer. *)
LEMMA PeerFacts ==
  \A r \in Role : /\ Peer(r) \in Role
                  /\ Peer(r) # r
                  /\ Peer(Peer(r)) = r
                  /\ \A q \in Role : q = r \/ q = Peer(r)
BY DEF Role, Peer

(* What a pump schedules is well typed and lies in the sampled window. *)
LEMMA ScheduleFacts ==
  ASSUME NEW r \in Role, NEW c \in Core,
         NEW answers \in [SampleWindow(r, c) -> Feed]
  PROVE  /\ Schedule(answers) \subseteq Scheduled
         /\ \A m \in Schedule(answers) : m.at \in SampleWindow(r, c)
<1> USE ConfigAssumption
<1>1. SampleWindow(r, c) \subseteq Nat
  BY DEF SampleWindow, Lesser, Core, Role
<1>2. ASSUME NEW t \in SampleWindow(r, c), NEW i \in DOMAIN answers[t]
      PROVE  i \in Nat /\ answers[t][i] \in Cmd
  <2>1. answers[t] \in Feed
    BY <1>2
  <2>2. answers[t] \in Seq(Cmd)
    BY <2>1
  <2>3. answers[t][i] \in Cmd
    BY <1>2, <2>1 DEF Cmd
  <2> QED BY <2>2, <2>3
<1>3. ASSUME NEW m \in Schedule(answers)
      PROVE  m \in Scheduled /\ m.at \in SampleWindow(r, c)
  <2>1. PICK t \in SampleWindow(r, c) :
               m \in {[at |-> t, n |-> i, cmd |-> answers[t][i]] : i \in DOMAIN answers[t]}
    BY <1>3 DEF Schedule
  <2>2. PICK i \in DOMAIN answers[t] : m = [at |-> t, n |-> i, cmd |-> answers[t][i]]
    BY <2>1
  <2> QED BY <2>2, <1>1, <1>2 DEF Scheduled
<1> QED BY <1>3

(* What a pump schedules is numbered 1, 2, ... within each tick. *)
LEMMA ScheduleRanked ==
  ASSUME NEW r \in Role, NEW c \in Core,
         NEW answers \in [SampleWindow(r, c) -> Feed],
         NEW m \in Schedule(answers)
  PROVE  /\ m.n > 0
         /\ \A k \in 1 .. m.n - 1 : \E x \in Schedule(answers) : x.at = m.at /\ x.n = k
         /\ \A x \in Schedule(answers) : x.at = m.at /\ x.n = m.n => x = m
<1> USE ConfigAssumption
<1>1. \A x \in Schedule(answers) :
        \E t \in SampleWindow(r, c) : \E i \in DOMAIN answers[t] :
          x = [at |-> t, n |-> i, cmd |-> answers[t][i]]
  BY DEF Schedule
<1>0. PICK t \in SampleWindow(r, c) : \E i \in DOMAIN answers[t] :
        m = [at |-> t, n |-> i, cmd |-> answers[t][i]]
  BY <1>1
<1>2. PICK i \in DOMAIN answers[t] : m = [at |-> t, n |-> i, cmd |-> answers[t][i]]
  BY <1>0
<1>3. answers[t] \in Seq(Cmd)
  OBVIOUS
<1>4. DOMAIN answers[t] = 1 .. Len(answers[t]) /\ Len(answers[t]) \in Nat
  BY <1>3, LenProperties
<1>5. ASSUME NEW k \in 1 .. m.n - 1
      PROVE  \E x \in Schedule(answers) : x.at = m.at /\ x.n = k
  <2>1. k \in DOMAIN answers[t]
    BY <1>2, <1>4
  <2>2. [at |-> t, n |-> k, cmd |-> answers[t][k]] \in Schedule(answers)
    BY <2>1 DEF Schedule
  <2> QED BY <1>2, <2>2
<1>6. ASSUME NEW x \in Schedule(answers), x.at = m.at, x.n = m.n
      PROVE  x = m
  BY <1>1, <1>2, <1>6
<1> QED BY <1>2, <1>4, <1>5, <1>6

(* The core a pump leaves, field by field. *)
LEMMA PumpFacts ==
  ASSUME NEW r \in Role, NEW c \in Core,
         NEW answers \in [SampleWindow(r, c) -> Feed],
         \A m \in c.own : m.at < c.next_sample
  PROVE  LET d == Pump(r, c, answers) IN
         /\ d \in Core
         /\ d.step = c.step /\ d.peer_next = c.peer_next /\ d.ran = c.ran
         /\ d.peer = c.peer
         /\ d.own = c.own \cup Schedule(answers)
         /\ SampleWindow(r, c) = {} => d.next_sample = c.next_sample
         /\ SampleWindow(r, c) # {} =>
              /\ d.next_sample > c.next_sample
              /\ d.next_sample <= MaxSteps
              /\ d.next_sample <= c.step + InputDelay[r] + 1
         /\ \A m \in Schedule(answers) : c.next_sample <= m.at /\ m.at < d.next_sample
<1> USE ConfigAssumption
<1> DEFINE horizon == Lesser(c.step + InputDelay[r], MaxSteps - 1)
<1>1. c.step \in Nat /\ c.next_sample \in Nat /\ InputDelay[r] \in Nat /\ MaxSteps \in Nat
  BY DEF Core
<1>2. /\ horizon \in Int
      /\ horizon <= c.step + InputDelay[r]
      /\ horizon <= MaxSteps - 1
  BY <1>1 DEF Lesser
<1>3. /\ Schedule(answers) \subseteq Scheduled
      /\ \A m \in Schedule(answers) : m.at \in SampleWindow(r, c)
  BY ScheduleFacts
<1>4. CASE SampleWindow(r, c) = {}
  BY <1>3, <1>4 DEF Pump
<1>5. CASE SampleWindow(r, c) # {}
  <2>1. SampleWindow(r, c) = c.next_sample .. horizon
    BY <1>5 DEF SampleWindow
  <2>2. c.next_sample <= horizon
    BY <1>1, <1>2, <1>5, <2>1
  <2>3. Pump(r, c, answers) = [c EXCEPT !.own = Insert(@, answers),
                                        !.next_sample = horizon + 1]
    BY <1>5 DEF Pump
  <2>7. Insert(c.own, answers) = c.own \cup Schedule(answers)
    <3>1. \A m \in c.own : m.at \notin DOMAIN answers
      BY <1>1, <1>2, <2>1 DEF Core, Scheduled
    <3> QED BY <3>1 DEF Insert
  <2>4. horizon + 1 \in Nat
    BY <1>1, <1>2, <2>2
  <2> HIDE DEF horizon
  <2>5. /\ Pump(r, c, answers) \in Core
        /\ Pump(r, c, answers).next_sample = horizon + 1
        /\ Pump(r, c, answers).own = c.own \cup Schedule(answers)
        /\ Pump(r, c, answers).step = c.step
        /\ Pump(r, c, answers).peer_next = c.peer_next
        /\ Pump(r, c, answers).ran = c.ran
        /\ Pump(r, c, answers).peer = c.peer
    BY <2>3, <2>4, <2>7, <1>3 DEF Core
  <2>6. \A m \in Schedule(answers) : c.next_sample <= m.at /\ m.at < horizon + 1
    BY <1>1, <1>2, <1>3, <2>1
  <2> QED BY <1>1, <1>2, <1>5, <2>2, <2>5, <2>6
<1> QED BY <1>4, <1>5

(* An ending tick is the last one executed, and it is the first there is. *)
LEMMA StopAtFirst ==
  ASSUME NEW c \in Core, c.step < Ready(c), ~SimEnded(c), EndingTicks(c) # {}
  PROVE  \E t \in EndingTicks(c) : StopAt(c) = 1 + t /\ \A u \in EndingTicks(c) : t <= u
<1>1. EndingTicks(c) \subseteq Nat
  BY ConfigAssumption DEF EndingTicks, Ready, Lesser, Core
<1>2. \E t \in EndingTicks(c) : \A u \in EndingTicks(c) : t <= u
  <2>1. PICK t \in EndingTicks(c) :
               \A u \in EndingTicks(c) : ~ (<<u, t>> \in OpToRel(<, Nat))
    BY <1>1, NatLessThanWellFounded, WFMin
  <2>2. \A u \in EndingTicks(c) : ~ (u < t)
    BY <1>1, <2>1 DEF OpToRel
  <2> QED BY <1>1, <2>2
<1> DEFINE last == CHOOSE t \in EndingTicks(c) : \A u \in EndingTicks(c) : t <= u
<1>3. last \in EndingTicks(c) /\ \A u \in EndingTicks(c) : last <= u
  BY <1>2
<1>4. StopAt(c) = 1 + last
  BY DEF StopAt
<1> QED BY <1>3, <1>4

(* advance_with stops at a tick both watermarks cover. *)
LEMMA StopAtBounds ==
  ASSUME NEW c \in Core, c.step < Ready(c)
  PROVE  /\ Ready(c) \in Nat
         /\ Ready(c) <= c.peer_next /\ Ready(c) <= c.next_sample
         /\ StopAt(c) \in c.step .. Ready(c)
<1> USE ConfigAssumption
<1>1. /\ Ready(c) \in Nat
      /\ Ready(c) <= c.peer_next /\ Ready(c) <= c.next_sample
  BY DEF Ready, Lesser, Core
<1>2. c.step \in Nat
  BY DEF Core
<1>3. CASE SimEnded(c) \/ EndingTicks(c) = {}
  BY <1>1, <1>2, <1>3 DEF StopAt
<1>4. CASE ~SimEnded(c) /\ EndingTicks(c) # {}
  <2>1. EndingTicks(c) \subseteq c.step .. Ready(c) - 1
    BY DEF EndingTicks
  <2>2. PICK last \in EndingTicks(c) : StopAt(c) = 1 + last
    BY <1>4, StopAtFirst
  <2> QED BY <1>1, <1>2, <2>1, <2>2
<1> QED BY <1>1, <1>3, <1>4

(* The core advance_with leaves, field by field. *)
LEMMA AdvanceFacts ==
  ASSUME NEW r \in Role, NEW c \in Core
  PROVE  LET d == Advance(r, c) IN
         /\ d \in Core
         /\ d.next_sample = c.next_sample /\ d.peer_next = c.peer_next
         /\ c.step <= d.step
         /\ d.step = c.step \/ (d.step <= c.peer_next /\ d.step <= c.next_sample)
         /\ d.own = c.own \ Due(c.own, c.step, d.step)
         /\ d.peer = c.peer \ Due(c.peer, c.step, d.step)
         /\ d.ran = c.ran \cup InSlot(1, Due(First(r, c), c.step, d.step))
                          \cup InSlot(2, Due(Second(r, c), c.step, d.step))
<1>1. /\ c.step \in Nat /\ c.own \subseteq Scheduled /\ c.peer \subseteq Scheduled
      /\ c.ran \subseteq Executed
  BY DEF Core
<1>2. ASSUME NEW k \in {1, 2}, NEW S, S \subseteq Scheduled, NEW t
      PROVE  InSlot(k, Due(S, c.step, t)) \subseteq Executed
  BY <1>2 DEF InSlot, Due, Scheduled, Executed
<1>3. First(r, c) \subseteq Scheduled /\ Second(r, c) \subseteq Scheduled
  BY <1>1 DEF First, Second
<1>4. CASE Finished(c) \/ Ready(c) <= c.step
  <2>1. Advance(r, c) = c
    BY <1>4 DEF Advance
  <2>2. \A S \in SUBSET Scheduled : Due(S, c.step, c.step) = {}
    BY <1>1 DEF Due, Scheduled
  <2>3. \A k \in {1, 2} : InSlot(k, {}) = {}
    BY DEF InSlot
  <2>4. /\ Due(c.own, c.step, c.step) = {} /\ Due(c.peer, c.step, c.step) = {}
        /\ Due(First(r, c), c.step, c.step) = {} /\ Due(Second(r, c), c.step, c.step) = {}
    BY <1>1, <1>3, <2>2
  <2> QED BY <1>1, <2>1, <2>3, <2>4
<1>5. CASE ~(Finished(c) \/ Ready(c) <= c.step)
  <2> DEFINE stop == StopAt(c)
  <2>1. Ready(c) \in Nat
    BY ConfigAssumption DEF Ready, Lesser, Core
  <2>2. c.step < Ready(c)
    BY <1>1, <1>5, <2>1
  <2>3. /\ Ready(c) <= c.peer_next /\ Ready(c) <= c.next_sample
        /\ stop \in c.step .. Ready(c)
    BY <2>2, StopAtBounds
  <2>4. stop \in Nat /\ c.step <= stop /\ stop <= Ready(c)
    BY <1>1, <2>1, <2>3
  <2>5. Advance(r, c) =
          [c EXCEPT !.ran = @ \cup InSlot(1, Due(First(r, c), c.step, stop))
                              \cup InSlot(2, Due(Second(r, c), c.step, stop)),
                    !.step = stop,
                    !.own = @ \ Due(@, c.step, stop),
                    !.peer = @ \ Due(@, c.step, stop),
                    !.ended = stop < Ready(c)]
    BY <1>5 DEF Advance
  <2> HIDE DEF stop
  <2> DEFINE ran2 == c.ran \cup InSlot(1, Due(First(r, c), c.step, stop))
                           \cup InSlot(2, Due(Second(r, c), c.step, stop))
             own2 == c.own \ Due(c.own, c.step, stop)
             peer2 == c.peer \ Due(c.peer, c.step, stop)
             ended2 == stop < Ready(c)
  <2>6. /\ ran2 \subseteq Executed /\ own2 \subseteq Scheduled /\ peer2 \subseteq Scheduled
        /\ ended2 \in BOOLEAN
    BY <1>1, <1>2, <1>3
  <2>7. Advance(r, c) = [c EXCEPT !.ran = ran2, !.step = stop, !.own = own2,
                                  !.peer = peer2, !.ended = ended2]
    BY <2>5
  <2> HIDE DEF ran2, own2, peer2, ended2
  <2>8. /\ Advance(r, c) \in Core
        /\ Advance(r, c).ran = ran2 /\ Advance(r, c).step = stop
        /\ Advance(r, c).own = own2 /\ Advance(r, c).peer = peer2
        /\ Advance(r, c).next_sample = c.next_sample
        /\ Advance(r, c).peer_next = c.peer_next
    BY <2>4, <2>6, <2>7 DEF Core
  <2>9. stop <= c.peer_next /\ stop <= c.next_sample
    BY <2>1, <2>3, <2>4 DEF Core
  <2> QED BY <2>4, <2>8, <2>9 DEF ran2, own2, peer2
<1> QED BY <1>4, <1>5

(* A core that ended the simulation at most at its last tick.              *)
EndedLast(c) ==
  /\ c.step <= MaxSteps
  /\ \A e \in c.ran : e.cmd \in EndCommands => c.step <= e.at + 1
  /\ c.ended => SimEnded(c)

(* advance_with executes nothing behind an ending tick. *)
LEMMA AdvanceEndsLast ==
  ASSUME NEW r \in Role, NEW c \in Core, EndedLast(c)
  PROVE  EndedLast(Advance(r, c))
<1> USE ConfigAssumption
<1> DEFINE d == Advance(r, c)
<1>1. /\ c.step \in Nat /\ c.own \subseteq Scheduled /\ c.peer \subseteq Scheduled
      /\ c.ran \subseteq Executed /\ Ready(c) \in Nat /\ Ready(c) <= MaxSteps
  BY DEF Core, Ready, Lesser
<1>2. CASE Finished(c) \/ Ready(c) <= c.step
  <2>1. d = c
    BY <1>2 DEF Advance
  <2> QED BY <2>1 DEF EndedLast, SimEnded
<1>3. CASE ~(Finished(c) \/ Ready(c) <= c.step)
  <2> DEFINE stop == StopAt(c)
             fresh == {m \in c.own \cup c.peer : c.step <= m.at /\ m.at < stop}
  <2>1. c.step < Ready(c)
    BY <1>1, <1>3
  <2>2. stop \in c.step .. Ready(c) /\ stop \in Nat
    BY <1>1, <2>1, StopAtBounds
  <2>3. /\ d \in Core /\ d.step = stop /\ d.ended = (stop < Ready(c))
        /\ d.ran = c.ran \cup InSlot(1, Due(First(r, c), c.step, stop))
                         \cup InSlot(2, Due(Second(r, c), c.step, stop))
    <3> DEFINE ran2 == c.ran \cup InSlot(1, Due(First(r, c), c.step, stop))
                             \cup InSlot(2, Due(Second(r, c), c.step, stop))
               own2 == c.own \ Due(c.own, c.step, stop)
               peer2 == c.peer \ Due(c.peer, c.step, stop)
               ended2 == stop < Ready(c)
    <3>1. d \in Core
      BY AdvanceFacts
    <3>2. d = [c EXCEPT !.ran = ran2, !.step = stop, !.own = own2,
                        !.peer = peer2, !.ended = ended2]
      BY <1>3 DEF Advance
    <3> HIDE DEF d, stop, ran2, own2, peer2, ended2
    <3>3. d.ran = ran2 /\ d.step = stop /\ d.ended = ended2
      BY <3>2 DEF Core
    <3> QED BY <3>1, <3>3 DEF ran2, ended2
  <2> SUFFICES EndedLast(d)
    OBVIOUS
  <2> HIDE DEF d, stop
  <2>4. \A e \in d.ran : e \in c.ran \/ \E m \in fresh : e.at = m.at /\ e.cmd = m.cmd
    BY <2>3 DEF InSlot, Due, First, Second
  <2>5. \A m \in fresh : \E e \in d.ran : e.at = m.at /\ e.cmd = m.cmd
    <3> SUFFICES ASSUME NEW m \in fresh PROVE \E e \in d.ran : e.at = m.at /\ e.cmd = m.cmd
      OBVIOUS
    <3>1. m \in First(r, c) \/ m \in Second(r, c)
      BY DEF First, Second
    <3>2. CASE m \in First(r, c)
      <4>1. [at |-> m.at, slot |-> 1, n |-> m.n, cmd |-> m.cmd] \in InSlot(1, Due(First(r, c), c.step, stop))
        BY <3>2 DEF InSlot, Due
      <4> QED BY <2>3, <4>1
    <3>3. CASE m \in Second(r, c)
      <4>1. [at |-> m.at, slot |-> 2, n |-> m.n, cmd |-> m.cmd] \in InSlot(2, Due(Second(r, c), c.step, stop))
        BY <3>3 DEF InSlot, Due
      <4> QED BY <2>3, <4>1
    <3> QED BY <3>1, <3>2, <3>3
  <2>6. \A m \in fresh : m.at \in Nat
    BY <1>1 DEF Scheduled
  <2>7. CASE SimEnded(c)
    <3>1. stop = c.step
      BY <2>7 DEF StopAt, stop
    <3>2. fresh = {}
      BY <1>1, <2>6, <3>1
    <3>3. c.ran \subseteq d.ran /\ d.ran \subseteq c.ran
      BY <2>3, <2>4, <3>2
    <3> QED BY <2>3, <2>7, <3>1, <3>3 DEF EndedLast, SimEnded
  <2>8. CASE ~SimEnded(c) /\ EndingTicks(c) = {}
    <3>1. stop = Ready(c)
      BY <2>8 DEF StopAt, stop
    <3>2. \A m \in fresh : m.cmd \notin EndCommands
      <4> SUFFICES ASSUME NEW m \in fresh, m.cmd \in EndCommands PROVE FALSE
        OBVIOUS
      <4>1. m.at \in c.step .. Ready(c) - 1
        BY <1>1, <2>6, <3>1
      <4> QED BY <2>8, <4>1 DEF EndingTicks
    <3>3. \A e \in d.ran : e.cmd \notin EndCommands
      BY <2>4, <2>8, <3>2 DEF SimEnded
    <3>4. d.step <= MaxSteps /\ ~ (stop < Ready(c))
      BY <1>1, <2>3, <3>1
    <3>5. ~d.ended
      BY <2>3, <3>4, Zenon
    <3> QED BY <3>3, <3>4, <3>5, Zenon DEF EndedLast
  <2>9. CASE ~SimEnded(c) /\ EndingTicks(c) # {}
    <3>1. PICK t \in EndingTicks(c) : stop = 1 + t /\ \A u \in EndingTicks(c) : t <= u
      BY <2>1, <2>9, StopAtFirst DEF stop
    <3>2. t \in c.step .. Ready(c) - 1
      BY <3>1 DEF EndingTicks
    <3>3. PICK m \in c.own \cup c.peer : m.at = t /\ m.cmd \in EndCommands
      BY <3>1 DEF EndingTicks
    <3>4. m \in fresh
      BY <1>1, <3>1, <3>2, <3>3
    <3>5. SimEnded(d)
      BY <2>5, <3>3, <3>4 DEF SimEnded
    <3>6. ASSUME NEW e \in d.ran, e.cmd \in EndCommands PROVE stop <= e.at + 1
      <4>1. PICK x \in fresh : e.at = x.at /\ e.cmd = x.cmd
        BY <2>4, <2>9, <3>6 DEF SimEnded
      <4>2. x.at \in c.step .. Ready(c) - 1
        BY <1>1, <2>2, <2>6
      <4>3. x.at \in EndingTicks(c)
        BY <3>6, <4>1, <4>2 DEF EndingTicks
      <4> QED BY <1>1, <3>1, <3>2, <4>1, <4>2, <4>3
    <3> QED BY <1>1, <2>2, <2>3, <3>5, <3>6 DEF EndedLast
  <2> QED BY <2>7, <2>8, <2>9
<1> QED BY <1>2, <1>3

(* Only a frame's advance executes anything: every other step leaves the  *)
(* position, the log and the end of both simulations alone.               *)
SameRun(c, d) == d.step = c.step /\ d.ran = c.ran /\ d.ended = c.ended

(* The pump, the two handlers of what the peer says, and its loss. *)
LEMMA HandlersKeepRun ==
  /\ \A r \in Role, c \in Core : \A answers \in [SampleWindow(r, c) -> Feed] :
       SameRun(c, Pump(r, c, answers))
  /\ \A c \in Core : \A m : SameRun(c, OnPeerCommand(c, m))
  /\ \A c \in Core : \A t : SameRun(c, OnPeerCommit(c, t))
  /\ \A c \in Core : SameRun(c, OnPeerLost(c))
BY DEF SameRun, Pump, OnPeerCommand, OnPeerCommit, OnPeerLost, Core

(* And a core with the same run is over when the other is. *)
LEMMA SameRunEnds ==
  \A c, d : SameRun(c, d) => /\ EndedLast(c) => EndedLast(d)
                             /\ Finished(c) => Finished(d)
<1> SUFFICES ASSUME NEW c, NEW d, SameRun(c, d)
             PROVE  (EndedLast(c) => EndedLast(d)) /\ (Finished(c) => Finished(d))
  OBVIOUS
<1>1. d.step = c.step /\ d.ran = c.ran /\ d.ended = c.ended
  BY DEF SameRun
<1>2. EndedLast(c) => EndedLast(d)
  BY <1>1, Zenon DEF EndedLast, SimEnded
<1>3. Finished(c) => Finished(d)
  BY <1>1, Zenon DEF Finished
<1> QED BY <1>2, <1>3

(* What one broadcast of the peer changes in a core. *)
LEMMA CommandFacts ==
  ASSUME NEW c \in Core, NEW m \in Scheduled, Arrived(c, m) = m
  PROVE  LET d == OnPeerCommand(c, m) IN
         /\ d \in Core
         /\ d.step = c.step /\ d.next_sample = c.next_sample
         /\ d.own = c.own /\ d.ran = c.ran
         /\ d.peer = c.peer \cup {m}
         /\ d.peer_next = c.peer_next
BY DEF OnPeerCommand, Core

(* A commit changes the watermark alone, and never lowers it. *)
LEMMA CommitFacts ==
  ASSUME NEW c \in Core, NEW t \in Nat
  PROVE  LET d == OnPeerCommit(c, t) IN
         /\ d \in Core
         /\ d.step = c.step /\ d.next_sample = c.next_sample
         /\ d.own = c.own /\ d.ran = c.ran
         /\ d.peer = c.peer
         /\ d.peer_next = IF t + 1 > c.peer_next THEN t + 1 ELSE c.peer_next
<1> DEFINE top == IF c.peer_next >= t + 1 THEN c.peer_next ELSE t + 1
<1>1. c.peer_next \in Nat /\ top \in Nat
  BY DEF Core
<1>2. OnPeerCommit(c, t) = [c EXCEPT !.peer_next = top]
  BY DEF OnPeerCommit
<1>3. top = IF t + 1 > c.peer_next THEN t + 1 ELSE c.peer_next
  BY <1>1
<1> HIDE DEF top
<1> QED BY <1>1, <1>2, <1>3 DEF Core

(* A set ranked 1, 2, ..., k has k members. *)
LEMMA RankCount ==
  ASSUME NEW S, NEW k \in Nat,
         \A x \in S : x.n \in 1 .. k,
         \A j \in 1 .. k : \E x \in S : x.n = j,
         \A x, y \in S : x.n = y.n => x = y
  PROVE  Cardinality(S) = k
<1> DEFINE f == [j \in 1 .. k |-> CHOOSE x \in S : x.n = j]
<1>1. \A j \in 1 .. k : f[j] \in S /\ f[j].n = j
  OBVIOUS
<1>2. f \in [1 .. k -> S]
  BY <1>1
<1>3. \A a, b \in 1 .. k : f[a] = f[b] => a = b
  BY <1>1
<1>4. \A x \in S : \E j \in 1 .. k : f[j] = x
  BY <1>1
<1> HIDE DEF f
<1>5. f \in Bijection(1 .. k, S)
  BY <1>2, <1>3, <1>4, Fun_IsBij
<1>6. ExistsBijection(1 .. k, S)
  BY <1>5 DEF ExistsBijection
<1> QED BY <1>6, FS_CountingElements

(* The commands of the ticks up to stop are those up to step and those due. *)
LEMMA DueSplit ==
  ASSUME NEW S, S \subseteq Scheduled, NEW step \in Nat, NEW stop \in Nat, step <= stop,
         NEW k \in {1, 2}
  PROVE  InSlot(k, Due(S, 0, stop)) = InSlot(k, Due(S, 0, step)) \cup InSlot(k, Due(S, step, stop))
<1>1. Due(S, 0, stop) = Due(S, 0, step) \cup Due(S, step, stop)
  BY DEF Due, Scheduled
<1> QED BY <1>1 DEF InSlot

-------------------------------------------------------------------------------
(* Every operation of a core keeps it typed, with buffers that stay finite. *)

(* A core typed, and no buffer of it infinite: the ranks of what arrives are *)
(* counted. *)
Buffered(c) == IsFiniteSet(c.own) /\ IsFiniteSet(c.peer)

(* What a finite set maps onto is finite. *)
LEMMA OntoFinite ==
  ASSUME NEW S, NEW T, NEW f \in Surjection(S, T), IsFiniteSet(S)
  PROVE  IsFiniteSet(T)
BY FS_Surjection

(* One answer of a feed schedules finitely many commands. *)
LEMMA AnswerFinite ==
  ASSUME NEW s \in Seq(Cmd), NEW t
  PROVE  IsFiniteSet({[at |-> t, n |-> i, cmd |-> s[i]] : i \in DOMAIN s})
<1> DEFINE D == DOMAIN s
           T == {[at |-> t, n |-> i, cmd |-> s[i]] : i \in D}
           f == [i \in D |-> [at |-> t, n |-> i, cmd |-> s[i]]]
<1>1. D = 1 .. Len(s) /\ Len(s) \in Nat
  BY LenProperties
<1>2. IsFiniteSet(D)
  BY <1>1, FS_Interval
<1>3. f \in Surjection(D, T)
  BY DEF Surjection
<1> SUFFICES IsFiniteSet(T)
  OBVIOUS
<1> HIDE DEF f, T, D
<1> QED BY <1>2, <1>3, OntoFinite

(* A feed answers finitely many ticks with finitely many commands. *)
LEMMA ScheduleFinite ==
  ASSUME NEW r \in Role, NEW c \in Core, NEW answers \in [SampleWindow(r, c) -> Feed]
  PROVE  IsFiniteSet(Schedule(answers))
<1> USE ConfigAssumption
<1> DEFINE W == SampleWindow(r, c)
           Of(t) == {[at |-> t, n |-> i, cmd |-> answers[t][i]] : i \in DOMAIN answers[t]}
           All == {Of(t) : t \in W}
<1>1. IsFiniteSet(W)
  <2>1. c.next_sample \in Int /\ Lesser(c.step + InputDelay[r], MaxSteps - 1) \in Int
    BY DEF Core, Lesser
  <2>2. IsFiniteSet(c.next_sample .. Lesser(c.step + InputDelay[r], MaxSteps - 1))
    BY <2>1, FS_Interval
  <2> QED BY <2>2, FS_EmptySet DEF SampleWindow
<1>2. ASSUME NEW t \in W PROVE IsFiniteSet(Of(t))
  <2>1. answers[t] \in Seq(Cmd)
    OBVIOUS
  <2> QED BY <2>1, AnswerFinite
<1>3. IsFiniteSet(All)
  <2> HIDE DEF W, Of
  <2> DEFINE g == [t \in W |-> Of(t)]
  <2>1. g \in [W -> All]
    OBVIOUS
  <2>2. \A T \in All : \E t \in W : g[t] = T
    OBVIOUS
  <2> HIDE DEF g, All
  <2>3. g \in Surjection(W, All)
    BY <2>1, <2>2 DEF Surjection
  <2> QED BY <1>1, <2>3, OntoFinite
<1>4. \A T \in All : IsFiniteSet(T)
  BY <1>2
<1>5. Schedule(answers) = UNION All
  BY DEF Schedule
<1> HIDE DEF All
<1> QED BY <1>3, <1>4, <1>5, FS_UNION

(* Every operation of a core keeps it typed and its buffers finite. *)
LEMMA PumpTyped ==
  ASSUME NEW r \in Role, NEW c \in Core, Buffered(c), NEW answers \in [SampleWindow(r, c) -> Feed]
  PROVE  Pump(r, c, answers) \in Core /\ Buffered(Pump(r, c, answers))
<1> USE ConfigAssumption
<1>1. Schedule(answers) \subseteq Scheduled /\ IsFiniteSet(Schedule(answers))
  BY ScheduleFacts, ScheduleFinite
<1>2. CASE SampleWindow(r, c) = {}
  BY <1>2 DEF Pump
<1>3. CASE SampleWindow(r, c) # {}
  <2> DEFINE own2 == Insert(c.own, answers)
             next2 == Lesser(c.step + InputDelay[r], MaxSteps - 1) + 1
  <2>1. Pump(r, c, answers) = [c EXCEPT !.own = own2, !.next_sample = next2]
    BY <1>3 DEF Pump
  <2>2. next2 \in Nat
    BY <1>3 DEF SampleWindow, Lesser, Core
  <2>3. own2 \subseteq Scheduled
    BY <1>1 DEF Insert, Core
  <2>4. IsFiniteSet(own2)
    <3> DEFINE kept == {m \in c.own : m.at \in DOMAIN answers => answers[m.at] = <<>>}
    <3>1. IsFiniteSet(kept)
      BY FS_Subset DEF Buffered
    <3>2. own2 = kept \cup Schedule(answers)
      BY DEF Insert
    <3> HIDE DEF kept, own2
    <3> QED BY <1>1, <3>1, <3>2, FS_Union
  <2> HIDE DEF own2, next2
  <2> QED BY <2>1, <2>2, <2>3, <2>4 DEF Core, Buffered
<1> QED BY <1>2, <1>3

(* A core that takes a command, finite buffers included. *)
LEMMA CommandTyped ==
  ASSUME NEW c \in Core, Buffered(c), NEW m \in Scheduled
  PROVE  OnPeerCommand(c, m) \in Core /\ Buffered(OnPeerCommand(c, m))
<1> DEFINE a == Arrived(c, m)
<1>1. Cardinality({x \in c.peer : x.at = m.at}) \in Nat
  BY FS_Subset, FS_CardinalityType DEF Buffered
<1>2. a \in Scheduled
  BY <1>1 DEF Arrived, Scheduled
<1> HIDE DEF a
<1>3. OnPeerCommand(c, m) = [c EXCEPT !.peer = @ \cup {a}]
  BY DEF OnPeerCommand, a
<1> QED BY <1>2, <1>3, FS_AddElement DEF Core, Buffered

(* A core whose peer is lost keeps all but the uncommitted. *)
LEMMA LostTyped ==
  ASSUME NEW c \in Core
  PROVE  /\ OnPeerLost(c) \in Core
         /\ OnPeerLost(c).step = c.step /\ OnPeerLost(c).next_sample = c.next_sample
         /\ OnPeerLost(c).peer_next = c.peer_next
         /\ OnPeerLost(c).own = c.own /\ OnPeerLost(c).ran = c.ran
         /\ OnPeerLost(c).ended = c.ended
         /\ OnPeerLost(c).peer = {m \in c.peer : m.at < c.peer_next}
         /\ Buffered(c) => Buffered(OnPeerLost(c))
<1> DEFINE kept == {m \in c.peer : m.at < c.peer_next}
<1>1. OnPeerLost(c) = [c EXCEPT !.peer = kept]
  BY DEF OnPeerLost
<1>2. kept \subseteq Scheduled
  BY DEF Core
<1>3. IsFiniteSet(c.peer) => IsFiniteSet(kept)
  BY FS_Subset
<1> HIDE DEF kept
<1>4. /\ OnPeerLost(c) \in Core
      /\ OnPeerLost(c).step = c.step /\ OnPeerLost(c).next_sample = c.next_sample
      /\ OnPeerLost(c).peer_next = c.peer_next
      /\ OnPeerLost(c).own = c.own /\ OnPeerLost(c).ran = c.ran
      /\ OnPeerLost(c).ended = c.ended
      /\ OnPeerLost(c).peer = kept
  BY <1>1, <1>2 DEF Core
<1> QED BY <1>3, <1>4 DEF Buffered, kept

(* A core that executed its ready steps is one. *)
LEMMA AdvanceTyped ==
  ASSUME NEW r \in Role, NEW c \in Core, Buffered(c)
  PROVE  Advance(r, c) \in Core /\ Buffered(Advance(r, c))
<1> DEFINE d == Advance(r, c)
<1>1. /\ d \in Core
      /\ d.own = c.own \ Due(c.own, c.step, d.step)
      /\ d.peer = c.peer \ Due(c.peer, c.step, d.step)
  BY AdvanceFacts
<1> HIDE DEF d
<1>2. d.own \subseteq c.own /\ d.peer \subseteq c.peer
  BY <1>1
<1>3. IsFiniteSet(d.own) /\ IsFiniteSet(d.peer)
  BY <1>2, FS_Subset DEF Buffered
<1> QED BY <1>1, <1>3 DEF Buffered, d

(* The snapshot of a core, and the core made from it. *)
LEMMA ResyncTyped ==
  ASSUME NEW c \in Core
  PROVE  LET s == MakeResync(c) IN
         /\ s \in Resync
         /\ s.step = c.step /\ s.ran = c.ran
         /\ s.survivor_next = c.next_sample /\ s.survivor_pending = c.own
         /\ s.your_next = c.peer_next /\ s.your_pending = c.peer
BY DEF MakeResync, Resync, Core

(* The core rebuilt from a snapshot is one. *)
LEMMA AdoptTyped ==
  ASSUME NEW s \in Resync
  PROVE  LET c == AdoptResync(s) IN
         /\ c \in Core
         /\ c.step = s.step /\ c.ran = s.ran /\ c.ended = FALSE
         /\ c.next_sample = s.your_next /\ c.own = s.your_pending
         /\ c.peer_next = s.survivor_next /\ c.peer = s.survivor_pending
BY DEF AdoptResync, Resync, Core

-------------------------------------------------------------------------------
(* Two cores that exchange commands: what the one has sent and the other has *)
(* not yet executed, and what the one keeps of it.                           *)

(* The order in which a seat sends. *)
Sooner(a, b) == a.at < b.at \/ (a.at = b.at /\ a.n < b.n)

(* No tick lacks a rank below one it has, and no rank is there twice. *)
Numbered(A) ==
  \A m \in A :
    /\ m.n > 0
    /\ \A k \in 1 .. m.n - 1 : \E x \in A : x.at = m.at /\ x.n = k
    /\ \A x \in A : x.at = m.at /\ x.n = m.n => x = m

(* A core keeps no command of a tick it has executed, nor of one it has not  *)
(* sampled.                                                                  *)
Whole(c) ==
  /\ c.step <= c.peer_next /\ c.peer_next <= MaxSteps
  /\ c.step <= c.next_sample /\ c.next_sample <= MaxSteps
  /\ \A m \in c.own : c.step <= m.at /\ m.at < c.next_sample
  /\ \A m \in c.peer : c.step <= m.at /\ m.at < MaxSteps
  /\ Numbered(c.own) /\ Numbered(c.peer)

(* What a core c of one seat has to expect: the commands C and the commits T  *)
(* that travel to it, and the commands o the other has yet to push.           *)
Sound(c, C, T, o) ==
  /\ \A m \in C \cup o : c.peer_next <= m.at /\ m.at < MaxSteps
  /\ \A t \in T : t < MaxSteps /\ \A m \in o : t < m.at
  /\ \A x \in c.peer, m \in C \cup o : Sooner(x, m)
  /\ \A m \in C, x \in o : Sooner(m, x)
  /\ Numbered(c.peer \cup C \cup o)

(* And what it has to expect is what its sender s has, past what it executed. *)
Tied(s, o, c, C, T) ==
  /\ c.peer_next <= s.next_sample
  /\ \A t \in T : t < s.next_sample
  /\ \A m \in c.peer \cup C \cup o : m.at < s.next_sample /\ (m.at >= s.step => m \in s.own)
  /\ \A m \in s.own : m.at >= c.step => m \in c.peer \cup C \cup o

(* Ticks can be taken from a numbered set whole. *)
LEMMA NumberedTicks ==
  ASSUME NEW A, NEW B, B \subseteq A, Numbered(A),
         \A x \in A, y \in B : x.at = y.at => x \in B
  PROVE  Numbered(B)
BY DEF Numbered

(* And so can what comes last in it. *)
LEMMA NumberedFront ==
  ASSUME NEW A, NEW B, A \subseteq Scheduled, B \subseteq A, Numbered(A),
         \A x \in B, y \in A \ B : Sooner(x, y)
  PROVE  Numbered(B)
<1> SUFFICES ASSUME NEW m \in B
             PROVE  /\ m.n > 0
                    /\ \A k \in 1 .. m.n - 1 : \E x \in B : x.at = m.at /\ x.n = k
                    /\ \A x \in B : x.at = m.at /\ x.n = m.n => x = m
  BY DEF Numbered
<1>1. ASSUME NEW k \in 1 .. m.n - 1
      PROVE  \E x \in B : x.at = m.at /\ x.n = k
  <2>1. PICK x \in A : x.at = m.at /\ x.n = k
    BY DEF Numbered
  <2>2. x \in B
    BY <2>1 DEF Sooner, Scheduled
  <2> QED BY <2>1, <2>2
<1> QED BY <1>1 DEF Numbered

(* Two numbered sets without a tick in common. *)
LEMMA NumberedUnion ==
  ASSUME NEW A, NEW B, Numbered(A), Numbered(B), \A x \in A, y \in B : x.at # y.at
  PROVE  Numbered(A \cup B)
BY DEF Numbered

(* What a core has to expect depends on its peer half only, and what is tied  *)
(* to it on its step too.                                                     *)
LEMMA SameReceiver ==
  ASSUME NEW c, NEW d, NEW C, NEW T, NEW o, NEW s,
         d.peer = c.peer, d.peer_next = c.peer_next, d.step = c.step
  PROVE  /\ Sound(c, C, T, o) => Sound(d, C, T, o)
         /\ Tied(s, o, c, C, T) => Tied(s, o, d, C, T)
BY DEF Sound, Tied

(* And on the sender's side on its own half. *)
LEMMA SameSender ==
  ASSUME NEW c, NEW C, NEW T, NEW o, NEW s, NEW z,
         z.own = s.own, z.next_sample = s.next_sample, z.step = s.step, Tied(s, o, c, C, T)
  PROVE  Tied(z, o, c, C, T)
BY DEF Tied

(* The least command goes on its way. *)
LEMMA LinkPushed ==
  ASSUME NEW c \in Core, NEW C, C \subseteq Scheduled, NEW T, T \subseteq Nat, NEW o, o \subseteq Scheduled,
         Sound(c, C, T, o), NEW m \in o,
         \A x \in o : m.at < x.at \/ (m.at = x.at /\ m.n <= x.n)
  PROVE  /\ Sound(c, C \cup {m}, T, o \ {m})
         /\ \A x \in C : Sooner(x, m)
         /\ \A t \in T : t < m.at
         /\ \A s : Tied(s, o, c, C, T) => Tied(s, o \ {m}, c, C \cup {m}, T)
<1>1. c.peer \cup (C \cup {m}) \cup (o \ {m}) = c.peer \cup C \cup o /\ (C \cup {m}) \cup (o \ {m}) = C \cup o
  OBVIOUS
<1>2. ASSUME NEW x \in o, x # m PROVE Sooner(m, x)
  <2>1. ~(m.at = x.at /\ m.n = x.n)
    BY <1>2 DEF Sound, Numbered
  <2> QED BY <1>2, <2>1 DEF Sooner, Scheduled
<1>3. Sound(c, C \cup {m}, T, o \ {m})
  BY <1>1, <1>2 DEF Sound
<1>4. ASSUME NEW s, Tied(s, o, c, C, T) PROVE Tied(s, o \ {m}, c, C \cup {m}, T)
  BY <1>1, <1>4 DEF Tied
<1> QED BY <1>3, <1>4 DEF Sound

(* The commit follows the last of a pump's commands. *)
LEMMA LinkCommitted ==
  ASSUME NEW c \in Core, NEW C, NEW T, NEW s \in Core, s.next_sample > 0,
         Whole(s), Sound(c, C, T, {}), Tied(s, {}, c, C, T)
  PROVE  LET t == s.next_sample - 1 IN
         Sound(c, C, T \cup {t}, {}) /\ Tied(s, {}, c, C, T \cup {t})
<1> USE ConfigAssumption
<1>1. s.next_sample \in Nat /\ s.next_sample <= MaxSteps
  BY DEF Core, Whole
<1> DEFINE t == s.next_sample - 1
<1>2. t < MaxSteps /\ t < s.next_sample
  BY <1>1
<1> HIDE DEF t
<1>3. Sound(c, C, T \cup {t}, {})
  BY <1>2 DEF Sound
<1>4. Tied(s, {}, c, C, T \cup {t})
  BY <1>2 DEF Tied
<1> QED BY <1>3, <1>4 DEF t

(* A pump: its commands are of ticks past every other. *)
LEMMA LinkPumped ==
  ASSUME NEW r \in Role, NEW s \in Core, NEW answers \in [SampleWindow(r, s) -> Feed], Whole(s),
         NEW c \in Core, NEW C, C \subseteq Scheduled, NEW T, T \subseteq Nat,
         Sound(c, C, T, {}), Tied(s, {}, c, C, T)
  PROVE  LET d == Pump(r, s, answers)
             o == Schedule(answers)
         IN  Sound(c, C, T, o) /\ Tied(d, o, c, C, T)
<1> USE ConfigAssumption
<1> DEFINE d == Pump(r, s, answers)
           o == Schedule(answers)
<1>1. /\ d \in Core
      /\ d.step = s.step
      /\ d.own = s.own \cup o
      /\ SampleWindow(r, s) = {} => d.next_sample = s.next_sample
      /\ SampleWindow(r, s) # {} => d.next_sample > s.next_sample /\ d.next_sample <= MaxSteps
      /\ \A m \in o : s.next_sample <= m.at /\ m.at < d.next_sample
  BY PumpFacts DEF Whole
<1>2. o \subseteq Scheduled /\ Numbered(o)
  BY ScheduleFacts, ScheduleRanked DEF Numbered
<1>3. s.next_sample <= d.next_sample /\ d.next_sample <= MaxSteps /\ d.next_sample \in Nat
      /\ s.next_sample \in Nat /\ s.step \in Nat /\ c.peer_next \in Nat /\ c.step \in Nat
  BY <1>1 DEF Core, Whole
<1> HIDE DEF d, o
<1>4. c.peer \subseteq Scheduled
  BY DEF Core
<1>5. \A x \in c.peer \cup C, m \in o : x.at < m.at
  BY <1>1, <1>2, <1>3, <1>4 DEF Tied, Scheduled
<1>6. \A x \in c.peer \cup C, m \in o : Sooner(x, m)
  BY <1>5 DEF Sooner
<1>7. Numbered(c.peer \cup C \cup o)
  <2>1. Numbered(c.peer \cup C)
    <3>1. c.peer \cup C \cup {} = c.peer \cup C
      OBVIOUS
    <3> QED BY <3>1 DEF Sound
  <2>2. \A x \in c.peer \cup C, y \in o : x.at # y.at
    BY <1>2, <1>4, <1>5 DEF Scheduled
  <2> QED BY <1>2, <2>1, <2>2, NumberedUnion
<1>8. \A m \in o : c.peer_next <= m.at /\ m.at < MaxSteps
  BY <1>1, <1>2, <1>3 DEF Tied, Scheduled
<1>9. \A t \in T : t < MaxSteps /\ \A m \in o : t < m.at
  BY <1>1, <1>2, <1>3 DEF Tied, Sound, Scheduled
<1>10. Sound(c, C, T, o)
  BY <1>6, <1>7, <1>8, <1>9 DEF Sound
<1>11. \A m \in c.peer \cup C \cup o : m.at < d.next_sample /\ (m.at >= d.step => m \in d.own)
  BY <1>1, <1>2, <1>3, <1>4 DEF Tied, Scheduled
<1>12. \A m \in d.own : m.at >= c.step => m \in c.peer \cup C \cup o
  BY <1>1 DEF Tied
<1>13. \A t \in T : t < d.next_sample
  BY <1>3 DEF Tied
<1>14. c.peer_next <= d.next_sample
  BY <1>3 DEF Tied
<1>15. Tied(d, o, c, C, T)
  BY <1>11, <1>12, <1>13, <1>14 DEF Tied
<1> QED BY <1>10, <1>15 DEF d, o

(* A pump keeps its core whole. *)
LEMMA PumpWhole ==
  ASSUME NEW r \in Role, NEW s \in Core, NEW answers \in [SampleWindow(r, s) -> Feed], Whole(s)
  PROVE  Whole(Pump(r, s, answers))
<1> USE ConfigAssumption
<1> DEFINE d == Pump(r, s, answers)
           o == Schedule(answers)
<1>1. /\ d \in Core
      /\ d.step = s.step /\ d.peer_next = s.peer_next /\ d.peer = s.peer
      /\ d.own = s.own \cup o
      /\ SampleWindow(r, s) = {} => d.next_sample = s.next_sample
      /\ SampleWindow(r, s) # {} => d.next_sample > s.next_sample /\ d.next_sample <= MaxSteps
      /\ \A m \in o : s.next_sample <= m.at /\ m.at < d.next_sample
  BY PumpFacts DEF Whole
<1>2. o \subseteq Scheduled /\ Numbered(o)
  BY ScheduleFacts, ScheduleRanked DEF Numbered
<1>3. s.next_sample <= d.next_sample /\ d.next_sample <= MaxSteps /\ d.next_sample \in Nat
      /\ s.next_sample \in Nat /\ s.step \in Nat /\ s.own \subseteq Scheduled
  BY <1>1 DEF Core, Whole
<1> HIDE DEF d, o
<1>4. \A x \in s.own, y \in o : x.at # y.at
  BY <1>1, <1>2, <1>3 DEF Whole, Scheduled
<1>5. Numbered(d.own)
  BY <1>1, <1>2, <1>4, NumberedUnion DEF Whole
<1>6. \A m \in d.own : d.step <= m.at /\ m.at < d.next_sample
  BY <1>1, <1>2, <1>3 DEF Whole, Scheduled
<1>7. d.step <= d.next_sample
  BY <1>1, <1>3 DEF Whole
<1>8. Whole(d)
  BY <1>1, <1>3, <1>5, <1>6, <1>7 DEF Whole
<1> QED BY <1>8 DEF d

(* The head of what travels, a command, is accepted, and gets the rank it    *)
(* was sent with.                                                            *)
LEMMA LinkArrived ==
  ASSUME NEW c \in Core, NEW C, C \subseteq Scheduled, NEW m \in Scheduled,
         NEW o, o \subseteq Scheduled, NEW T,
         Sound(c, C \cup {m}, T, o), \A x \in C : Sooner(m, x)
  PROVE  ~CommandRefused(c, m) /\ Arrived(c, m) = m
<1> USE ConfigAssumption
<1>1. /\ m.at \in Nat /\ m.n \in Nat /\ c.peer_next \in Nat /\ c.peer \subseteq Scheduled
  BY DEF Scheduled, Core
<1>2. ~CommandRefused(c, m)
  BY <1>1 DEF Sound, CommandRefused
<1> DEFINE S == {x \in c.peer : x.at = m.at}
           A == c.peer \cup (C \cup {m}) \cup o
<1>3. Numbered(A) /\ m \in A
  BY DEF Sound
<1>4. m.n > 0 /\ \A k \in 1 .. m.n - 1 : \E x \in A : x.at = m.at /\ x.n = k
  BY <1>3 DEF Numbered
<1>5. \A x \in C \cup {m} \cup o : x.at = m.at => x.n >= m.n
  BY <1>1 DEF Sound, Sooner, Scheduled
<1>6. \A x \in S : x.n \in 1 .. m.n - 1
  <2> SUFFICES ASSUME NEW x \in c.peer, x.at = m.at PROVE x.n \in 1 .. m.n - 1
    OBVIOUS
  <2>1. x.n > 0 /\ x.n \in Nat
    BY <1>1, <1>3 DEF Numbered, Scheduled
  <2>2. Sooner(x, m)
    BY DEF Sound
  <2> QED BY <1>1, <2>1, <2>2 DEF Sooner
<1>7. \A j \in 1 .. m.n - 1 : \E x \in S : x.n = j
  <2> SUFFICES ASSUME NEW j \in 1 .. m.n - 1 PROVE \E x \in S : x.n = j
    OBVIOUS
  <2>1. PICK x \in A : x.at = m.at /\ x.n = j
    BY <1>4
  <2>2. x \notin C \cup {m} \cup o
    BY <1>1, <1>5, <2>1
  <2>3. x \in S
    BY <2>1, <2>2
  <2> QED BY <2>1, <2>3
<1>8. \A x, y \in S : x.n = y.n => x = y
  BY <1>3 DEF Numbered
<1>9. m.n - 1 \in Nat
  BY <1>1, <1>4
<1>10. Cardinality(S) = m.n - 1
  <2> HIDE DEF S, A
  <2> QED BY <1>6, <1>7, <1>8, <1>9, RankCount
<1>11. Arrived(c, m) = [m EXCEPT !.n = m.n]
  BY <1>1, <1>10 DEF Arrived
<1>12. Arrived(c, m) = m
  BY <1>11 DEF Scheduled
<1> QED BY <1>2, <1>12

(* A command that is taken moves from what travels to what is buffered. *)
LEMMA LinkTaken ==
  ASSUME NEW c \in Core, Whole(c), NEW C, C \subseteq Scheduled, NEW m \in Scheduled,
         NEW o, o \subseteq Scheduled, NEW T,
         Sound(c, C \cup {m}, T, o), \A x \in C : Sooner(m, x)
  PROVE  LET d == OnPeerCommand(c, m) IN
         /\ Whole(d) /\ Sound(d, C, T, o)
         /\ \A s : Tied(s, o, c, C \cup {m}, T) => Tied(s, o, d, C, T)
<1> USE ConfigAssumption
<1> DEFINE d == OnPeerCommand(c, m)
<1>1. /\ d \in Core
      /\ d.step = c.step /\ d.next_sample = c.next_sample
      /\ d.own = c.own /\ d.ran = c.ran
      /\ d.peer = c.peer \cup {m}
      /\ d.peer_next = c.peer_next
  <2>1. Arrived(c, m) = m
    BY LinkArrived
  <2> QED BY <2>1 DEF OnPeerCommand, Core
<1> HIDE DEF d
<1>2. /\ m.at \in Nat /\ m.n \in Nat /\ c.peer_next \in Nat /\ c.step \in Nat /\ c.peer \subseteq Scheduled
  BY DEF Scheduled, Core
<1>3. c.peer \cup {m} \cup C \cup o = c.peer \cup (C \cup {m}) \cup o
  OBVIOUS
<1>4. \A x \in C \cup o : Sooner(m, x)
  BY DEF Sound
<1>5. Sound(d, C, T, o)
  BY <1>1, <1>3, <1>4 DEF Sound
<1>6. ASSUME NEW s, Tied(s, o, c, C \cup {m}, T) PROVE Tied(s, o, d, C, T)
  BY <1>1, <1>3, <1>6 DEF Tied
<1>7. Numbered(c.peer \cup {m})
  <2> DEFINE A == c.peer \cup (C \cup {m}) \cup o
             B == c.peer \cup {m}
  <2>1. A \subseteq Scheduled /\ B \subseteq A /\ Numbered(A)
    BY <1>2 DEF Sound
  <2>2. \A x \in B, y \in A \ B : Sooner(x, y)
    BY <1>4 DEF Sound
  <2> HIDE DEF A, B
  <2>3. Numbered(B)
    BY <2>1, <2>2, NumberedFront
  <2> QED BY <2>3 DEF B
<1>8. c.step <= m.at /\ m.at < MaxSteps
  BY <1>2 DEF Sound, Whole
<1>9. Whole(d)
  BY <1>1, <1>7, <1>8 DEF Whole
<1> QED BY <1>5, <1>6, <1>9 DEF d

(* The head of what travels, a commit, moves the watermark up to what comes. *)
LEMMA LinkHeard ==
  ASSUME NEW c \in Core, Whole(c), NEW C, C \subseteq Scheduled, NEW t \in Nat, NEW T,
         NEW o, o \subseteq Scheduled, Sound(c, C, T \cup {t}, o), \A x \in C : t < x.at
  PROVE  LET d == OnPeerCommit(c, t) IN
         /\ ~CommitRefused(t) /\ Whole(d) /\ Sound(d, C, T, o)
         /\ \A s \in Core : Tied(s, o, c, C, T \cup {t}) => Tied(s, o, d, C, T)
<1> USE ConfigAssumption
<1> DEFINE d == OnPeerCommit(c, t)
<1>1. /\ d \in Core
      /\ d.step = c.step /\ d.next_sample = c.next_sample
      /\ d.own = c.own /\ d.ran = c.ran
      /\ d.peer = c.peer
      /\ d.peer_next = (IF c.peer_next >= t + 1 THEN c.peer_next ELSE t + 1)
  BY CommitFacts DEF OnPeerCommit, Core
<1> HIDE DEF d
<1>2. c.peer_next \in Nat /\ c.step \in Nat /\ t < MaxSteps
  BY DEF Core, Sound
<1>3. ~CommitRefused(t)
  BY <1>2 DEF CommitRefused
<1>4. c.peer_next <= d.peer_next /\ d.peer_next <= MaxSteps /\ d.peer_next \in Nat
  BY <1>1, <1>2 DEF Whole
<1>5. Whole(d)
  BY <1>1, <1>2, <1>4 DEF Whole
<1>6. \A m \in C \cup o : d.peer_next <= m.at /\ m.at < MaxSteps
  BY <1>1, <1>2 DEF Sound, Scheduled
<1>7. Sound(d, C, T, o)
  BY <1>1, <1>6 DEF Sound
<1>8. ASSUME NEW s \in Core, Tied(s, o, c, C, T \cup {t}) PROVE Tied(s, o, d, C, T)
  <2>1. c.peer_next <= s.next_sample /\ t < s.next_sample
    BY <1>8 DEF Tied
  <2>2. s.next_sample \in Nat
    BY DEF Core
  <2>3. d.peer_next <= s.next_sample
    BY <1>1, <1>2, <2>1, <2>2
  <2> QED BY <1>1, <1>8, <2>3 DEF Tied
<1> QED BY <1>3, <1>5, <1>7, <1>8 DEF d

(* A seat executes: what it keeps is of the ticks that are left.             *)
LEMMA AdvanceKeeps ==
  ASSUME NEW r \in Role, NEW c \in Core, Whole(c)
  PROVE  LET d == Advance(r, c) IN
         /\ d \in Core /\ Whole(d)
         /\ d.next_sample = c.next_sample /\ d.peer_next = c.peer_next /\ c.step <= d.step
         /\ d.own = {m \in c.own : d.step <= m.at}
         /\ d.peer = {m \in c.peer : d.step <= m.at}
<1> USE ConfigAssumption
<1> DEFINE d == Advance(r, c)
<1>1. /\ d \in Core
      /\ d.next_sample = c.next_sample /\ d.peer_next = c.peer_next
      /\ c.step <= d.step
      /\ d.step = c.step \/ (d.step <= c.peer_next /\ d.step <= c.next_sample)
      /\ d.own = c.own \ Due(c.own, c.step, d.step)
      /\ d.peer = c.peer \ Due(c.peer, c.step, d.step)
  BY AdvanceFacts
<1> HIDE DEF d
<1>2. /\ c.own \subseteq Scheduled /\ c.peer \subseteq Scheduled /\ c.step \in Nat /\ d.step \in Nat
      /\ c.peer_next \in Nat /\ c.next_sample \in Nat
  BY <1>1 DEF Core
<1>3. d.own = {m \in c.own : d.step <= m.at}
  BY <1>1, <1>2 DEF Due, Whole, Scheduled
<1>4. d.peer = {m \in c.peer : d.step <= m.at}
  BY <1>1, <1>2 DEF Due, Whole, Scheduled
<1>5. Numbered(d.own)
  BY <1>3, NumberedTicks DEF Whole
<1>6. Numbered(d.peer)
  BY <1>4, NumberedTicks DEF Whole
<1>7. d.step <= d.peer_next /\ d.step <= d.next_sample
  BY <1>1, <1>2 DEF Whole
<1>8. Whole(d)
  BY <1>1, <1>3, <1>4, <1>5, <1>6, <1>7 DEF Whole
<1> QED BY <1>1, <1>3, <1>4, <1>8 DEF d

(* A receiver that executes ticks needs their commands no more. *)
LEMMA LinkAdvanced ==
  ASSUME NEW r \in Role, NEW c \in Core, Whole(c), NEW C, C \subseteq Scheduled, NEW T,
         NEW o, o \subseteq Scheduled, Sound(c, C, T, o)
  PROVE  LET d == Advance(r, c) IN
         /\ Sound(d, C, T, o)
         /\ \A s \in Core : Tied(s, o, c, C, T) => Tied(s, o, d, C, T)
<1> USE ConfigAssumption
<1> DEFINE d == Advance(r, c)
<1>1. /\ d \in Core /\ Whole(d)
      /\ d.next_sample = c.next_sample /\ d.peer_next = c.peer_next /\ c.step <= d.step
      /\ d.own = {m \in c.own : d.step <= m.at}
      /\ d.peer = {m \in c.peer : d.step <= m.at}
  BY AdvanceKeeps
<1> HIDE DEF d
<1>2. /\ c.peer \subseteq Scheduled /\ c.step \in Nat /\ d.step \in Nat /\ d.peer_next \in Nat
  BY <1>1 DEF Core
<1>3. \A m \in C \cup o : d.step <= m.at
  BY <1>1, <1>2 DEF Sound, Whole, Scheduled
<1> DEFINE A == c.peer \cup C \cup o
           B == d.peer \cup C \cup o
<1>4. B = {m \in A : d.step <= m.at}
  BY <1>1, <1>3
<1>5. Numbered(A)
  BY DEF Sound
<1>6. Numbered(B)
  <2> HIDE DEF A, B
  <2> QED BY <1>4, <1>5, NumberedTicks
<1>7. Sound(d, C, T, o)
  BY <1>1, <1>6 DEF Sound
<1>8. ASSUME NEW s \in Core, Tied(s, o, c, C, T) PROVE Tied(s, o, d, C, T)
  <2>1. \A m \in A : m.at < s.next_sample /\ (m.at >= s.step => m \in s.own)
    BY <1>8 DEF Tied
  <2>2. ASSUME NEW m \in s.own, m.at >= d.step, m.at >= c.step PROVE m \in B
    BY <1>4, <1>8, <2>2 DEF Tied
  <2>3. ASSUME NEW m \in s.own, m.at >= d.step PROVE m.at >= c.step
    BY <1>1, <1>2, <2>3 DEF Core, Scheduled
  <2> QED BY <1>1, <1>4, <1>8, <2>1, <2>2, <2>3 DEF Tied
<1> QED BY <1>7, <1>8 DEF d

(* The sender executes; it forgets only what its receiver may still lack.    *)
LEMMA LinkSent ==
  ASSUME NEW r \in Role, NEW s \in Core, Whole(s), NEW c \in Core, NEW C, C \subseteq Scheduled, NEW T,
         NEW o, o \subseteq Scheduled, Tied(s, o, c, C, T)
  PROVE  Tied(Advance(r, s), o, c, C, T)
<1> DEFINE d == Advance(r, s)
<1>1. /\ d \in Core
      /\ d.next_sample = s.next_sample /\ s.step <= d.step
      /\ d.own = {m \in s.own : d.step <= m.at}
  BY AdvanceKeeps
<1> HIDE DEF d
<1>2. s.step \in Nat /\ d.step \in Nat /\ c.peer \subseteq Scheduled
  BY <1>1 DEF Core
<1>3. \A m \in c.peer \cup C \cup o : m.at \in Nat
  BY <1>2 DEF Scheduled
<1>4. \A m \in c.peer \cup C \cup o : m.at >= d.step => m \in d.own
  BY <1>1, <1>2, <1>3 DEF Tied
<1>5. Tied(d, o, c, C, T)
  BY <1>1, <1>4 DEF Tied
<1> QED BY <1>5 DEF d

(* The peer is lost: what it had not committed never happened.               *)
LEMMA LostWhole ==
  ASSUME NEW c \in Core, Whole(c)
  PROVE  Whole(OnPeerLost(c))
<1> DEFINE d == OnPeerLost(c)
<1>1. /\ d.step = c.step /\ d.next_sample = c.next_sample /\ d.peer_next = c.peer_next
      /\ d.own = c.own /\ d.peer = {m \in c.peer : m.at < c.peer_next}
  BY LostTyped
<1> HIDE DEF d
<1>2. Numbered(d.peer)
  BY <1>1, NumberedTicks DEF Whole
<1>3. Whole(d)
  BY <1>1, <1>2 DEF Whole
<1> QED BY <1>3 DEF d

(* Its sender gone, what a core has to expect is what travels. *)
LEMMA LinkOrphaned ==
  ASSUME NEW c \in Core, NEW C, C \subseteq Scheduled, NEW T,
         NEW o, o \subseteq Scheduled, Sound(c, C, T, o)
  PROVE  Sound(c, C, T, {})
<1> DEFINE A == c.peer \cup C \cup o
           B == c.peer \cup C \cup {}
<1>1. A \subseteq Scheduled /\ B \subseteq A /\ Numbered(A)
  BY DEF Sound, Core
<1>2. \A x \in B, y \in A \ B : Sooner(x, y)
  BY DEF Sound
<1>3. Numbered(B)
  <2> HIDE DEF A, B
  <2> QED BY <1>1, <1>2, NumberedFront
<1> QED BY <1>3 DEF Sound

(* The hand-off: a pruned core and the one rebuilt from its snapshot have     *)
(* each other's pending commands, and nothing is under way between them.      *)
LEMMA LinkHandedOver ==
  ASSUME NEW c \in Core, Whole(c)
  PROVE  LET d == OnPeerLost(c)
             h == AdoptResync(MakeResync(d))
         IN  /\ Whole(h)
             /\ Sound(d, {}, {}, {}) /\ Sound(h, {}, {}, {})
             /\ Tied(d, {}, h, {}, {}) /\ Tied(h, {}, d, {}, {})
<1> USE ConfigAssumption
<1> DEFINE d == OnPeerLost(c)
           h == AdoptResync(MakeResync(d))
<1>1. /\ d \in Core /\ d.step = c.step /\ d.next_sample = c.next_sample /\ d.peer_next = c.peer_next
      /\ d.own = c.own /\ d.peer = {m \in c.peer : m.at < c.peer_next}
  BY LostTyped
<1>2. Whole(d)
  BY LostWhole
<1> HIDE DEF d
<1>3. /\ h.step = d.step /\ h.next_sample = d.peer_next /\ h.own = d.peer
      /\ h.peer_next = d.next_sample /\ h.peer = d.own
  BY <1>1 DEF AdoptResync, MakeResync
<1> HIDE DEF h
<1>4. /\ d.own \subseteq Scheduled /\ d.peer \subseteq Scheduled
      /\ d.step \in Nat /\ d.next_sample \in Nat /\ d.peer_next \in Nat
  BY <1>1 DEF Core
<1>5. Whole(h)
  BY <1>1, <1>2, <1>3, <1>4 DEF Whole, Scheduled
<1>6. \A S : S \cup {} \cup {} = S
  OBVIOUS
<1>7. Sound(d, {}, {}, {}) /\ Sound(h, {}, {}, {})
  BY <1>2, <1>5, <1>6 DEF Sound, Whole
<1>8. Tied(d, {}, h, {}, {})
  BY <1>2, <1>3, <1>4, <1>6 DEF Tied, Whole
<1>9. Tied(h, {}, d, {}, {})
  BY <1>1, <1>2, <1>3, <1>4, <1>6 DEF Tied, Whole
<1> QED BY <1>5, <1>7, <1>8, <1>9 DEF d, h

(* At the start nothing is expected. *)
LEMMA LinkNew ==
  Whole(NewCore) /\ Sound(NewCore, {}, {}, {}) /\ Tied(NewCore, {}, NewCore, {}, {})
<1>1. /\ NewCore.step = 0 /\ NewCore.next_sample = 0 /\ NewCore.peer_next = 0
      /\ NewCore.own = {} /\ NewCore.peer = {}
  BY DEF NewCore
<1>2. {} \cup {} \cup {} = {} /\ Numbered({})
  BY DEF Numbered
<1> QED BY <1>1, <1>2, ConfigAssumption DEF Whole, Sound, Tied

===============================================================================
