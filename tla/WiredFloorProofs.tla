---------------------------- MODULE WiredFloorProofs ----------------------------
(***************************************************************************)
(* The signal network and the floor that hosts it, for every network, floor  *)
(* and tuning: what the players' wiring can do to a network and what a        *)
(* network can do to the bodies on the floor.                                *)
(***************************************************************************)
EXTENDS WiredFloor, FiniteSetTheorems, TLAPS

-------------------------------------------------------------------------------
(* What the checks at load say. *)

(* The ends of a wire CheckLink has nothing to say against. *)
Fits(n, ends) ==
  /\ ends.from \in DOMAIN n.devices /\ ends.to \in DOMAIN n.devices /\ ends.from # ends.to
  /\ ends.out \in Outputs(n.devices[ends.from].kind)
  /\ ends.in \in Inputs(n.devices[ends.to].kind)

(* A wire passes the checks when it joins an output to an input of another   *)
(* device.                                                                  *)
LEMMA CheckLinkMeans ==
  ASSUME NEW n, NEW ends
  PROVE  CheckLink(n, ends) = {} <=> Fits(n, ends)
<1>1. ASSUME NEW S, NEW c PROVE {c : d \in S} = {} <=> S = {}
  OBVIOUS
<1>2. CheckLink(n, ends) = {} <=>
        /\ {ends.from, ends.to} \ DOMAIN n.devices = {}
        /\ {d \in {ends.from} \cap DOMAIN n.devices : ends.out \notin Outputs(n.devices[d].kind)} = {}
        /\ {d \in {ends.to} \cap DOMAIN n.devices : ends.in \notin Inputs(n.devices[d].kind)} = {}
        /\ {ends.from} \cap {ends.to} = {}
  BY DEF CheckLink
<1> QED BY <1>2 DEF Fits

(* The wires that may be there. *)
LinksOK(n, ls) ==
  /\ IsFiniteSet(ls)
  /\ \A l \in ls : /\ l = [ends |-> l.ends, invert |-> l.invert, builtin |-> l.builtin]
                   /\ l.invert \in BOOLEAN /\ l.builtin \in BOOLEAN
                   /\ Fits(n, l.ends)
  /\ \A k, l \in ls : k.ends = l.ends => k = l
  /\ Cardinality(Laid(ls)) <= n.budget

(* The devices that may be there. *)
DevicesOK(n) ==
  \A d \in DOMAIN n.devices : /\ n.devices[d].kind = "Relay" <=> n.devices[d].gate # None
                              /\ n.devices[d].locked => n.devices[d].kind = "Door"

(* A definition with other wires, checked. *)
LEMMA PlayableMeans ==
  ASSUME NEW n \in Networks, NEW ls, IsFiniteSet(ls),
         \A l \in ls : /\ l = [ends |-> l.ends, invert |-> l.invert, builtin |-> l.builtin]
                       /\ l.invert \in BOOLEAN /\ l.builtin \in BOOLEAN
  PROVE  Playable([n EXCEPT !.links = ls]) <=> LinksOK(n, ls) /\ DevicesOK(n)
<1> DEFINE m == [n EXCEPT !.links = ls]
<1>1. m.links = ls /\ m.devices = n.devices /\ m.budget = n.budget
  BY NetworksAssumption
<1>2. \A l \in ls : CheckLink(m, l.ends) = {} <=> Fits(n, l.ends)
  BY <1>1, CheckLinkMeans DEF Fits
<1> HIDE DEF m
<1>3. n.budget \in Nat /\ Cardinality(Laid(ls)) \in Nat
  <2>1. IsFiniteSet(Laid(ls))
    BY FS_Subset DEF Laid
  <2> QED BY <2>1, FS_CardinalityType, NetworksAssumption
<1>4. Problems(m) = {} <=>
        /\ \A l \in ls : CheckLink(m, l.ends) = {}
        /\ \A d \in DOMAIN n.devices : ~(n.devices[d].kind = "Relay" /\ n.devices[d].gate = None)
        /\ \A d \in DOMAIN n.devices : ~(n.devices[d].kind # "Relay" /\ n.devices[d].gate # None)
        /\ \A d \in DOMAIN n.devices : ~(n.devices[d].locked /\ n.devices[d].kind # "Door")
        /\ \A l \in ls : ~\E k \in ls : k # l /\ SameEnds(k, l)
        /\ ~(Cardinality(Laid(ls)) > n.budget)
  <2> DEFINE A == UNION {CheckLink(m, l.ends) : l \in ls}
             B == {d \in DOMAIN n.devices : n.devices[d].kind = "Relay" /\ n.devices[d].gate = None}
             C == {d \in DOMAIN n.devices : n.devices[d].kind # "Relay" /\ n.devices[d].gate # None}
             D == {d \in DOMAIN n.devices : n.devices[d].locked /\ n.devices[d].kind # "Door"}
             E == {l \in ls : \E k \in ls : k # l /\ SameEnds(k, l)}
             F == {x \in {n.budget} : Cardinality(Laid(ls)) > x}
  <2>1. Problems(m) = A \cup {"RelayWithoutGate" : d \in B} \cup {"GateOnNonRelay" : d \in C}
                        \cup {"LockOnNonDoor" : d \in D} \cup {"DuplicateLink" : l \in E}
                        \cup {"OverBudget" : x \in F}
    BY <1>1, Zenon DEF Problems
  <2>2. A = {} <=> \A l \in ls : CheckLink(m, l.ends) = {}
    BY Zenon
  <2>3. B = {} <=> \A d \in DOMAIN n.devices : ~(n.devices[d].kind = "Relay" /\ n.devices[d].gate = None)
    OBVIOUS
  <2>4. C = {} <=> \A d \in DOMAIN n.devices : ~(n.devices[d].kind # "Relay" /\ n.devices[d].gate # None)
    OBVIOUS
  <2>5. D = {} <=> \A d \in DOMAIN n.devices : ~(n.devices[d].locked /\ n.devices[d].kind # "Door")
    OBVIOUS
  <2>6. E = {} <=> \A l \in ls : ~\E k \in ls : k # l /\ SameEnds(k, l)
    BY Zenon
  <2>7. F = {} <=> ~(Cardinality(Laid(ls)) > n.budget)
    OBVIOUS
  <2> HIDE DEF A, B, C, D, E, F
  <2>8. Problems(m) = {} <=> A = {} /\ B = {} /\ C = {} /\ D = {} /\ E = {} /\ F = {}
    BY <2>1
  <2> QED BY <2>2, <2>3, <2>4, <2>5, <2>6, <2>7, <2>8, Zenon
<1>5. \A k, l \in ls : SameEnds(k, l) <=> k.ends = l.ends
  BY DEF SameEnds
<1>6. \A d \in DOMAIN n.devices : n.devices[d].locked \in BOOLEAN
  BY NetworksAssumption
<1>7. Playable(m) <=> LinksOK(n, ls) /\ DevicesOK(n)
  BY <1>2, <1>3, <1>4, <1>5, <1>6 DEF Playable, LinksOK, DevicesOK
<1> QED BY <1>7 DEF m

-------------------------------------------------------------------------------
(* A device's tick. *)

(* A device's state with pulses of up to ticks ticks and these input ports. *)
DeviceStates(ticks, inputs) ==
  [open : BOOLEAN, locked : BOOLEAN, active : BOOLEAN, gate : Gates \cup {None},
   a : BOOLEAN, b : BOOLEAN, latched : BOOLEAN, pulse : 0..ticks,
   pre : BOOLEAN \cup {None}, prev : SUBSET inputs]

(* Only a door pulses, and remembers what it interrupted while it does. *)
DeviceOK(d, s) ==
  /\ s \in DeviceStates(net.pulseTicks, Inputs(KindOf(d)))
  /\ KindOf(d) = "Relay" <=> s.gate # None
  /\ KindOf(d) # "Door" => s.pulse = 0 /\ s.pre = None
  /\ s.pre # None <=> s.pulse > 0

(* A device with the four fields a door's ports set. *)
DoorSet(s, l, o, p, q) == [s EXCEPT !.locked = l, !.open = o, !.pulse = p, !.pre = q]

(* It is the same device otherwise. *)
LEMMA FieldsSet ==
  ASSUME NEW T, NEW I, NEW s \in DeviceStates(T, I), NEW l, NEW o, NEW p, NEW q
  PROVE  DoorSet(s, l, o, p, q)
           = [open |-> o, locked |-> l, active |-> s.active, gate |-> s.gate, a |-> s.a, b |-> s.b,
              latched |-> s.latched, pulse |-> p, pre |-> q, prev |-> s.prev]
<1> DEFINE t == [s EXCEPT !.locked = l]
           u == [t EXCEPT !.open = o]
           v == [u EXCEPT !.pulse = p]
<1>1. s = [open |-> s.open, locked |-> s.locked, active |-> s.active, gate |-> s.gate, a |-> s.a, b |-> s.b,
           latched |-> s.latched, pulse |-> s.pulse, pre |-> s.pre, prev |-> s.prev]
  BY DEF DeviceStates
<1>2. t = [open |-> s.open, locked |-> l, active |-> s.active, gate |-> s.gate, a |-> s.a, b |-> s.b,
           latched |-> s.latched, pulse |-> s.pulse, pre |-> s.pre, prev |-> s.prev]
  BY <1>1
<1> HIDE DEF t
<1>3. u = [open |-> o, locked |-> l, active |-> s.active, gate |-> s.gate, a |-> s.a, b |-> s.b,
           latched |-> s.latched, pulse |-> s.pulse, pre |-> s.pre, prev |-> s.prev]
  BY <1>2
<1> HIDE DEF u
<1>4. v = [open |-> o, locked |-> l, active |-> s.active, gate |-> s.gate, a |-> s.a, b |-> s.b,
           latched |-> s.latched, pulse |-> p, pre |-> s.pre, prev |-> s.prev]
  BY <1>3
<1> HIDE DEF v
<1>5. [v EXCEPT !.pre = q] = [open |-> o, locked |-> l, active |-> s.active, gate |-> s.gate, a |-> s.a, b |-> s.b,
           latched |-> s.latched, pulse |-> p, pre |-> q, prev |-> s.prev]
  BY <1>4
<1> QED BY <1>5 DEF t, u, v, DoorSet

(* A door whose pulse counts down and whose ports then act is a door again.  *)
LEMMA DoorKeeps ==
  ASSUME net \in Networks, NEW d, KindOf(d) = "Door", NEW s, DeviceOK(d, s), NEW fired
  PROVE  DeviceOK(d, DoorAfter([s EXCEPT !.pulse = IF @ > 0 THEN @ - 1 ELSE 0], fired))
<1> DEFINE c == IF s.pulse > 0 THEN s.pulse - 1 ELSE 0
           over == c = 0 /\ s.pre # None
           was == IF over THEN s.pre ELSE s.open
           pre == IF over THEN None ELSE s.pre
           pulsed == "Pulse" \in fired
           locked == "Unlock" \notin fired /\ ("Lock" \in fired \/ s.locked)
           open == \/ "Unlock" \in fired
                   \/ "Close" \notin fired /\ ("Open" \in fired \/ ("Toggle" \in fired) # was)
           shut == ~locked /\ (pulsed \/ open)
           left == IF pulsed THEN net.pulseTicks ELSE c
           kept == IF pulsed /\ pre = None THEN open ELSE pre
           t == [open |-> shut, locked |-> locked, active |-> s.active, gate |-> s.gate,
                 a |-> s.a, b |-> s.b, latched |-> s.latched, pulse |-> left, pre |-> kept,
                 prev |-> s.prev]
           at == [s EXCEPT !.pulse = c]
<1>1. s = [open |-> s.open, locked |-> s.locked, active |-> s.active, gate |-> s.gate, a |-> s.a,
           b |-> s.b, latched |-> s.latched, pulse |-> s.pulse, pre |-> s.pre, prev |-> s.prev]
  BY DEF DeviceOK, DeviceStates
<1>2. /\ s.open \in BOOLEAN /\ s.locked \in BOOLEAN /\ s.active \in BOOLEAN
      /\ s.gate \in Gates \cup {None} /\ s.a \in BOOLEAN /\ s.b \in BOOLEAN
      /\ s.latched \in BOOLEAN /\ s.pulse \in 0..net.pulseTicks
      /\ s.pre \in BOOLEAN \cup {None} /\ s.prev \in SUBSET Inputs(KindOf(d))
      /\ (KindOf(d) = "Relay" <=> s.gate # None) /\ (s.pre # None <=> s.pulse > 0)
  BY DEF DeviceOK, DeviceStates
<1>3. net.pulseTicks \in Nat \ {0} /\ None \notin BOOLEAN
  BY NetworksAssumption
<1>4. c \in 0..net.pulseTicks /\ (s.pre # None => s.pulse > 0) /\ (s.pre = None => c = 0)
  BY <1>2, <1>3
<1>5. at = [open |-> s.open, locked |-> s.locked, active |-> s.active, gate |-> s.gate, a |-> s.a,
            b |-> s.b, latched |-> s.latched, pulse |-> c, pre |-> s.pre, prev |-> s.prev]
  <2> HIDE DEF c
  <2> QED BY <1>1
<1>6. at.open = s.open /\ at.locked = s.locked /\ at.pulse = c /\ at.pre = s.pre
  <2> HIDE DEF c
  <2> QED BY <1>5
<1>7. shut \in BOOLEAN /\ locked \in BOOLEAN /\ open \in BOOLEAN /\ was \in BOOLEAN
  BY <1>2, Zenon
<1>8. left \in 0..net.pulseTicks
  <2> HIDE DEF c
  <2> QED BY <1>3, <1>4
<1>9. pre \in BOOLEAN \cup {None} /\ (pre # None <=> c > 0)
  BY <1>2, <1>3, <1>4
<1>10. kept \in BOOLEAN \cup {None} /\ (kept # None <=> left > 0)
  <2> HIDE DEF c, pre, open, pulsed
  <2> QED BY <1>3, <1>7, <1>9
<1>11. DoorAfter(at, fired) = t
  <2>1. DoorAfter(at, fired)
          = DoorSet(at, locked, shut, left, kept)
    <3> HIDE DEF at, c
    <3> QED BY <1>6, Zenon DEF DoorAfter, DoorSet
  <2> HIDE DEF locked, shut, left, kept, c
  <2>2. at \in DeviceStates(net.pulseTicks, Inputs(KindOf(d)))
    BY <1>2, <1>4, <1>5 DEF DeviceStates
  <2>3. /\ at.active = s.active /\ at.gate = s.gate /\ at.a = s.a /\ at.b = s.b
        /\ at.latched = s.latched /\ at.prev = s.prev
    BY <1>5
  <2> HIDE DEF at
  <2>4. DoorSet(at, locked, shut, left, kept)
          = [open |-> shut, locked |-> locked, active |-> at.active, gate |-> at.gate, a |-> at.a,
             b |-> at.b, latched |-> at.latched, pulse |-> left, pre |-> kept, prev |-> at.prev]
    BY <2>2, FieldsSet
  <2> QED BY <2>1, <2>3, <2>4
<1>12. DeviceOK(d, t)
  <2> HIDE DEF locked, shut, left, kept, c
  <2> QED BY <1>2, <1>7, <1>8, <1>10 DEF DeviceOK, DeviceStates
<1>13. at = [s EXCEPT !.pulse = IF @ > 0 THEN @ - 1 ELSE 0]
  BY DEF DeviceOK, DeviceStates
<1> QED
  <2> HIDE DEF at, t
  <2> QED BY <1>11, <1>12, <1>13

(* So is every device, whatever inputs its wires hold high. *)
LEMMA DeviceKeeps ==
  ASSUME net \in Networks, NEW d \in DOMAIN net.devices, NEW s, DeviceOK(d, s),
         NEW level \in SUBSET Inputs(KindOf(d))
  PROVE  DeviceOK(d, DeviceAfter(d, [s EXCEPT !.pulse = IF @ > 0 THEN @ - 1 ELSE 0], level))
<1> DEFINE at == [s EXCEPT !.pulse = IF @ > 0 THEN @ - 1 ELSE 0]
           fired == Fired(at, level)
<1> SUFFICES DeviceOK(d, DeviceAfter(d, at, level))
  OBVIOUS
<1>1. KindOf(d) \in Kinds
  BY NetworksAssumption DEF KindOf
<1>2. KindOf(d) # "Door" => at = s
  BY DEF DeviceOK, DeviceStates
<1>3. ASSUME NEW t, DeviceOK(d, t) PROVE DeviceOK(d, [t EXCEPT !.prev = level])
  BY <1>3 DEF DeviceOK, DeviceStates
<1>4. CASE KindOf(d) = "Door"
  <2>1. DeviceAfter(d, at, level) = [DoorAfter(at, fired) EXCEPT !.prev = level]
    BY <1>4 DEF DeviceAfter
  <2>2. DeviceOK(d, DoorAfter(at, fired))
    BY <1>4, DoorKeeps
  <2> HIDE DEF at, fired
  <2> QED BY <1>3, <2>1, <2>2
<1>5. CASE KindOf(d) \in {"Camera", "Sensor", "Light"}
  <2> DEFINE x == ActiveAfter(s, fired)
             t == [s EXCEPT !.active = x]
  <2>1. DeviceAfter(d, at, level) = [t EXCEPT !.prev = level]
    BY <1>2, <1>5 DEF DeviceAfter
  <2>2. x \in BOOLEAN
    BY Zenon DEF ActiveAfter
  <2>3. DeviceOK(d, t)
    <3> HIDE DEF x
    <3> QED BY <2>2 DEF DeviceOK, DeviceStates
  <2> HIDE DEF t
  <2> QED BY <1>3, <2>1, <2>3
<1>6. CASE KindOf(d) = "Relay"
  <2> DEFINE l == (s.gate = "Latch" /\ "A" \in level /\ ~s.a) # s.latched
             a == "A" \in level
             b == "B" \in level
             t == [s EXCEPT !.latched = l, !.a = a, !.b = b]
  <2>1. DeviceAfter(d, at, level) = [t EXCEPT !.prev = level]
    BY <1>2, <1>6 DEF DeviceAfter, RelayAfter
  <2>2. l \in BOOLEAN /\ a \in BOOLEAN /\ b \in BOOLEAN
    <3> HIDE DEF at, fired
    <3> QED OBVIOUS
  <2>3. DeviceOK(d, t)
    <3> HIDE DEF l, a, b
    <3> QED BY <2>2 DEF DeviceOK, DeviceStates
  <2> HIDE DEF t
  <2> QED BY <1>3, <2>1, <2>3
<1>7. CASE KindOf(d) \in {"Vacuum", "Guard", "Terminal"}
  <2>1. DeviceAfter(d, at, level) = [s EXCEPT !.prev = level]
    BY <1>2, <1>7 DEF DeviceAfter
  <2> QED BY <1>3, <2>1
<1> QED BY <1>1, <1>4, <1>5, <1>6, <1>7 DEF Kinds

-------------------------------------------------------------------------------
(* The network keeps the checks it was loaded by. *)

NetInv ==
  /\ net \in Networks /\ DevicesOK(net)
  /\ DOMAIN devs = DOMAIN net.devices
  /\ \A d \in DOMAIN devs : DeviceOK(d, devs[d])
  /\ LinksOK(net, links)
  /\ {l \in links : l.builtin} = {l \in net.links : l.builtin}

(* The invariant says all that is checked of the network. *)
LEMMA NetInvGivesSound == NetInv => NetIsSound
<1> SUFFICES ASSUME NetInv PROVE NetIsSound
  OBVIOUS
<1>1. NetTypeOK
  BY DEF NetInv, NetTypeOK, DeviceOK, DeviceStates, LinksOK
<1>2. Playable([net EXCEPT !.links = links])
  BY PlayableMeans DEF NetInv, LinksOK
<1>3. WiringIsSound
  BY <1>2 DEF NetInv, WiringIsSound
<1>4. PulseHasAnEnd
  BY DEF NetInv, DeviceOK, PulseHasAnEnd
<1> QED BY <1>1, <1>3, <1>4 DEF NetIsSound

(* A network that loads has devices and wires that may be there, and no pulse *)
(* runs yet.                                                                *)
LEMMA NetInitGivesInv == NetInit => NetInv
<1> SUFFICES ASSUME NetInit PROVE NetInv
  OBVIOUS
<1>1. net \in Networks /\ Playable(net) /\ links = net.links
      /\ devs = [d \in DOMAIN net.devices |-> Fresh(net.devices[d])]
  BY DEF NetInit
<1>2. net = [net EXCEPT !.links = net.links]
  BY <1>1, NetworksAssumption
<1>3. LinksOK(net, net.links) /\ DevicesOK(net)
  <2>1. /\ IsFiniteSet(net.links)
        /\ \A l \in net.links : /\ l = [ends |-> l.ends, invert |-> l.invert, builtin |-> l.builtin]
                                /\ l.invert \in BOOLEAN /\ l.builtin \in BOOLEAN
    BY <1>1, NetworksAssumption
  <2> QED BY <1>1, <1>2, <2>1, PlayableMeans
<1>4. ASSUME NEW d \in DOMAIN net.devices PROVE DeviceOK(d, Fresh(net.devices[d]))
  <2>1. /\ net.devices[d].gate \in Gates \cup {None} /\ net.devices[d].locked \in BOOLEAN
        /\ net.pulseTicks \in Nat
    BY <1>1, NetworksAssumption
  <2>2. KindOf(d) = "Relay" <=> net.devices[d].gate # None
    BY <1>3 DEF DevicesOK, KindOf
  <2> DEFINE on == net.devices[d].kind \in {"Camera", "Sensor", "Light"}
  <2>3. on \in BOOLEAN
    OBVIOUS
  <2>4. Fresh(net.devices[d])
          = [open |-> FALSE, locked |-> net.devices[d].locked, active |-> on,
             gate |-> net.devices[d].gate, a |-> FALSE, b |-> FALSE, latched |-> FALSE,
             pulse |-> 0, pre |-> None, prev |-> {}]
    BY Zenon DEF Fresh
  <2> HIDE DEF on
  <2> QED BY <2>1, <2>2, <2>3, <2>4 DEF DeviceOK, DeviceStates
<1> QED BY <1>1, <1>3, <1>4 DEF NetInv

(* The wires change alone. *)
LEMMA LinksKeepInv ==
  ASSUME NetInv, UNCHANGED <<net, devs>>, LinksOK(net, links'),
         {l \in links' : l.builtin} = {l \in links : l.builtin}
  PROVE  NetInv'
<1>1. \A d : KindOf(d)' = KindOf(d)
  BY DEF KindOf
<1>2. \A d \in DOMAIN devs' : DeviceOK(d, devs[d])'
  BY <1>1 DEF NetInv, DeviceOK
<1> QED BY <1>2 DEF NetInv

(* A new wire leaves the others, takes one of the budget and is the only one  *)
(* between its ends.                                                        *)
LEMMA WireKeepsInv ==
  ASSUME NetInv, NEW by, NEW ends, NEW access, Wire(by, ends, access)
  PROVE  NetInv'
<1> DEFINE k == [ends |-> ends, invert |-> FALSE, builtin |-> FALSE]
<1>1. /\ CheckLink(net, ends) = {} /\ \A l \in links : l.ends # ends
      /\ Cardinality(Laid(links)) < net.budget
      /\ links' = links \cup {k} /\ UNCHANGED <<net, devs>>
  BY DEF Wire, MayWireInto
<1>2. Fits(net, ends)
  BY <1>1, CheckLinkMeans
<1>3. k.ends = ends /\ k.invert = FALSE /\ k.builtin = FALSE
      /\ k = [ends |-> k.ends, invert |-> k.invert, builtin |-> k.builtin]
  OBVIOUS
<1> HIDE DEF k
<1>4. k \notin links
  BY <1>1, <1>3
<1>5. Laid(links') = Laid(links) \cup {k} /\ k \notin Laid(links)
  BY <1>1, <1>3, <1>4 DEF Laid
<1>6. IsFiniteSet(links) /\ IsFiniteSet(Laid(links)) /\ IsFiniteSet(links')
  <2>1. IsFiniteSet(links)
    BY DEF NetInv, LinksOK
  <2> QED BY <1>1, <2>1, FS_Subset, FS_AddElement DEF Laid
<1>7. Cardinality(Laid(links')) = Cardinality(Laid(links)) + 1
  BY <1>5, <1>6, FS_AddElement
<1>8. Cardinality(Laid(links')) <= net.budget
  BY <1>1, <1>6, <1>7, FS_CardinalityType, NetworksAssumption DEF NetInv
<1>9. LinksOK(net, links')
  BY <1>1, <1>2, <1>3, <1>6, <1>8 DEF NetInv, LinksOK
<1>10. {l \in links' : l.builtin} = {l \in links : l.builtin}
  BY <1>1, <1>3
<1> QED BY <1>1, <1>9, <1>10, LinksKeepInv

(* Fewer wires are fine when the installer's stay. *)
LEMMA CutKeepsInv ==
  ASSUME NetInv, NEW by, NEW ends, NEW access, CutWire(by, ends, access)
  PROVE  NetInv'
<1>1. links' = links \ Loose(ends) /\ UNCHANGED <<net, devs>>
  BY DEF CutWire
<1>2. Laid(links') \subseteq Laid(links) /\ links' \subseteq links
  BY <1>1 DEF Laid
<1>3. IsFiniteSet(links) /\ IsFiniteSet(Laid(links)) /\ IsFiniteSet(links')
  <2>1. IsFiniteSet(links)
    BY DEF NetInv, LinksOK
  <2> QED BY <1>2, <2>1, FS_Subset DEF Laid
<1>4. Cardinality(Laid(links')) <= net.budget
  <2>1. Cardinality(Laid(links')) <= Cardinality(Laid(links))
        /\ Cardinality(Laid(links)) \in Nat /\ Cardinality(Laid(links')) \in Nat
    BY <1>2, <1>3, FS_Subset, FS_CardinalityType
  <2>2. Cardinality(Laid(links)) <= net.budget /\ net.budget \in Nat
    BY NetworksAssumption DEF NetInv, LinksOK
  <2> QED BY <2>1, <2>2
<1>5. LinksOK(net, links')
  BY <1>2, <1>3, <1>4 DEF NetInv, LinksOK
<1>6. {l \in links' : l.builtin} = {l \in links : l.builtin}
  BY <1>1 DEF Loose, NetInv, LinksOK
<1> QED BY <1>1, <1>5, <1>6, LinksKeepInv

(* Inverting replaces one of the players' wires by one between the same ends. *)
LEMMA InvertKeepsInv ==
  ASSUME NetInv, NEW by, NEW ends, NEW access, Invert(by, ends, access)
  PROVE  NetInv'
<1>1. /\ Loose(ends) # {} /\ UNCHANGED <<net, devs>>
      /\ links' = (links \ Loose(ends)) \cup {[l EXCEPT !.invert = ~@] : l \in Loose(ends)}
  BY DEF Invert
<1>2. PICK m \in links : m.ends = ends /\ ~m.builtin /\ Loose(ends) = {m}
  BY <1>1 DEF Loose, NetInv, LinksOK
<1> DEFINE k == [m EXCEPT !.invert = ~@]
<1>3. links' = (links \ {m}) \cup {k}
  BY <1>1, <1>2
<1>4. m = [ends |-> m.ends, invert |-> m.invert, builtin |-> m.builtin]
      /\ m.invert \in BOOLEAN /\ m.builtin \in BOOLEAN /\ Fits(net, m.ends)
  BY <1>2 DEF NetInv, LinksOK
<1>5. k.ends = m.ends /\ k.builtin = m.builtin /\ k.invert \in BOOLEAN
      /\ k = [ends |-> k.ends, invert |-> k.invert, builtin |-> k.builtin]
  BY <1>4
<1> HIDE DEF k
<1>6. \A l \in links \ {m} : l.ends # k.ends /\ l # k
  BY <1>2, <1>5 DEF NetInv, LinksOK
<1>7. Laid(links') = (Laid(links) \ {m}) \cup {k} /\ m \in Laid(links) /\ k \notin Laid(links) \ {m}
  BY <1>2, <1>3, <1>5, <1>6 DEF Laid
<1>8. IsFiniteSet(links) /\ IsFiniteSet(Laid(links)) /\ IsFiniteSet(links')
  <2>1. IsFiniteSet(links)
    BY DEF NetInv, LinksOK
  <2> QED BY <1>3, <2>1, FS_Subset, FS_AddElement, FS_RemoveElement DEF Laid
<1>9. Cardinality(Laid(links')) = Cardinality(Laid(links))
  <2>1. /\ IsFiniteSet(Laid(links) \ {m})
        /\ Cardinality(Laid(links) \ {m}) = Cardinality(Laid(links)) - 1
    BY <1>7, <1>8, FS_RemoveElement
  <2>2. Cardinality(Laid(links')) = Cardinality(Laid(links) \ {m}) + 1
    BY <1>7, <2>1, FS_AddElement
  <2> QED BY <1>8, <2>1, <2>2, FS_CardinalityType
<1>10. LinksOK(net, links')
  BY <1>3, <1>4, <1>5, <1>6, <1>8, <1>9 DEF NetInv, LinksOK
<1>11. {l \in links' : l.builtin} = {l \in links : l.builtin}
  BY <1>2, <1>3, <1>5
<1> QED BY <1>1, <1>10, <1>11, LinksKeepInv

(* A relay with another gate is a relay. *)
LEMMA ReprogramKeepsInv ==
  ASSUME NetInv, NEW by, NEW relay, NEW gate \in Gates, NEW access,
         Reprogram(by, relay, gate, access)
  PROVE  NetInv'
<1>1. /\ relay \in DOMAIN net.devices /\ KindOf(relay) = "Relay" /\ UNCHANGED <<net, links>>
      /\ devs' = [devs EXCEPT ![relay] = [devs[relay] EXCEPT !.gate = gate, !.latched = FALSE]]
  BY DEF Reprogram
<1>2. DOMAIN devs' = DOMAIN devs
      /\ devs'[relay] = [devs[relay] EXCEPT !.gate = gate, !.latched = FALSE]
      /\ \A d \in DOMAIN devs \ {relay} : devs'[d] = devs[d]
  BY <1>1 DEF NetInv
<1>3. DeviceOK(relay, devs'[relay])
  <2>1. DeviceOK(relay, devs[relay])
    BY <1>1 DEF NetInv
  <2>2. gate # None
    BY NetworksAssumption
  <2> DEFINE no == FALSE
             s == devs[relay]
             t == [s EXCEPT !.gate = gate]
  <2>3. no \in BOOLEAN
    OBVIOUS
  <2>4. devs'[relay] = [t EXCEPT !.latched = no]
    BY <1>2
  <2> HIDE DEF no, s
  <2>5. DeviceOK(relay, t)
    BY <1>1, <2>1, <2>2 DEF DeviceOK, DeviceStates, s
  <2> HIDE DEF t
  <2> QED BY <2>3, <2>4, <2>5 DEF DeviceOK, DeviceStates
<1>4. \A d \in DOMAIN devs' : DeviceOK(d, devs'[d])
  BY <1>2, <1>3 DEF NetInv
<1>5. \A d, s : DeviceOK(d, s)' = DeviceOK(d, s)
  BY <1>1 DEF DeviceOK, KindOf
<1> QED BY <1>1, <1>2, <1>4, <1>5 DEF NetInv

(* Every command. *)
LEMMA CommandKeepsInv ==
  ASSUME NetInv, NEW by, NEW access, NetCommand(by, access)
  PROVE  NetInv' /\ net' = net
<1>1. ASSUME NEW e, Wire(by, e, access) PROVE NetInv' /\ net' = net
  BY <1>1, WireKeepsInv DEF Wire
<1>2. ASSUME NEW e, CutWire(by, e, access) PROVE NetInv' /\ net' = net
  BY <1>2, CutKeepsInv DEF CutWire
<1>3. ASSUME NEW e, Invert(by, e, access) PROVE NetInv' /\ net' = net
  BY <1>3, InvertKeepsInv DEF Invert
<1>4. ASSUME NEW r, NEW g \in Gates, Reprogram(by, r, g, access) PROVE NetInv' /\ net' = net
  BY <1>4, ReprogramKeepsInv DEF Reprogram
<1> QED BY <1>1, <1>2, <1>3, <1>4 DEF NetCommand

(* A tick: the wires lead into ports the devices have. *)
LEMMA StepKeepsInv ==
  ASSUME NetInv, NEW readout, Step(readout)
  PROVE  NetInv' /\ net' = net
<1> DEFINE at == [d \in DOMAIN devs |-> [devs[d] EXCEPT !.pulse = IF @ > 0 THEN @ - 1 ELSE 0]]
<1>1. /\ devs' = [d \in DOMAIN devs |-> DeviceAfter(d, at[d], Level(at, d, readout))]
      /\ UNCHANGED <<net, links>>
  BY DEF Step
<1>2. ASSUME NEW d \in DOMAIN devs PROVE Level(at, d, readout) \in SUBSET Inputs(KindOf(d))
  <2>1. \A l \in links : l.ends.in \in Inputs(KindOf(l.ends.to))
    BY DEF NetInv, LinksOK, Fits, KindOf
  <2> HIDE DEF at
  <2> QED BY <2>1 DEF Level
<1>3. ASSUME NEW d \in DOMAIN devs PROVE DeviceOK(d, devs'[d])
  <2>1. devs'[d] = DeviceAfter(d, [devs[d] EXCEPT !.pulse = IF @ > 0 THEN @ - 1 ELSE 0],
                               Level(at, d, readout))
    BY <1>1
  <2>2. DeviceOK(d, devs[d]) /\ net \in Networks /\ d \in DOMAIN net.devices
    BY DEF NetInv
  <2> HIDE DEF at
  <2> QED BY <1>2, <2>1, <2>2, DeviceKeeps
<1>4. \A d, s : DeviceOK(d, s)' = DeviceOK(d, s)
  BY <1>1 DEF DeviceOK, KindOf
<1> HIDE DEF at
<1> QED BY <1>1, <1>3, <1>4 DEF NetInv

(* Whatever the seats wire, and whatever the world holds high: the installer's *)
(* wiring stays, the network would load again, and every pulse ends once.    *)
THEOREM NetSound == NetSpec => []NetIsSound
<1>1. NetInit => NetInv
  BY NetInitGivesInv
<1>2. NetInv /\ [NetNext]_netVars => NetInv'
  <2> SUFFICES ASSUME NetInv, [NetNext]_netVars PROVE NetInv'
    OBVIOUS
  <2>1. CASE NetNext
    BY <2>1, CommandKeepsInv, StepKeepsInv DEF NetNext
  <2>2. CASE UNCHANGED netVars
    <3>1. {l \in links' : l.builtin} = {l \in links : l.builtin} /\ UNCHANGED <<net, devs>>
          /\ links' = links
      BY <2>2 DEF netVars
    <3> QED BY <3>1, LinksKeepInv DEF NetInv
  <2> QED BY <2>1, <2>2
<1> QED BY <1>1, <1>2, NetInvGivesSound, PTL DEF NetSpec

-------------------------------------------------------------------------------
(* The floor. *)

BodyOK ==
  /\ body = [x |-> body.x, vantage |-> body.vantage, seated |-> body.seated, busy |-> body.busy,
             rescued |-> body.rescued]
  /\ body.x \in Cells /\ body.seated \in BOOLEAN /\ body.rescued \in BOOLEAN
  /\ body.busy \in Nat /\ body.busy <= net.profile["Infiltrator"].busy
BillyOK == billy \in [x : Cells, wait : 0..(BadgeDelay - 1)]
DoorTimers == [open : Nat, pending : 0..RouteDelay]
UplinkOK == uplink \in [bandwidth : 0..Full, cooldown : 0..DoorCooldown]

FloorInv ==
  /\ NetInv /\ BodyOK /\ BillyOK /\ UplinkOK
  /\ doors \in [Doors -> DoorTimers]
  /\ ended \in BOOLEAN

(* The invariant says what is checked of every state of the floor. *)
LEMMA FloorInvGivesSound == FloorInv => FloorTypeOK /\ OneJobAtATime
<1> SUFFICES ASSUME FloorInv PROVE FloorTypeOK /\ OneJobAtATime
  OBVIOUS
<1>1. NetTypeOK
  BY NetInvGivesSound DEF FloorInv, NetIsSound
<1> QED BY <1>1 DEF FloorInv, BodyOK, BillyOK, DoorTimers, UplinkOK, FloorTypeOK, OneJobAtATime

(* Nobody has walked, and no door is held. *)
LEMMA FloorInitGivesInv == FloorInit => FloorInv
<1> SUFFICES ASSUME FloorInit PROVE FloorInv
  OBVIOUS
<1> USE FloorAssumption
<1>1. NetInv
  BY NetInitGivesInv DEF FloorInit
<1>2. BodyOK
  <2> DEFINE no == FALSE
  <2>1. body = [x |-> Min(Cells), vantage |-> RoomOf[Min(Cells)], seated |-> no, busy |-> 0,
                rescued |-> no] /\ no \in BOOLEAN
    BY DEF FloorInit
  <2>2. net.profile["Infiltrator"].busy \in Nat
    BY <1>1 DEF NetInv, Seats
  <2> HIDE DEF no
  <2> QED BY <2>1, <2>2 DEF BodyOK
<1>3. BillyOK /\ UplinkOK /\ doors \in [Doors -> DoorTimers] /\ ended \in BOOLEAN
  <2>1. BillyOK
    BY DEF FloorInit, BillyOK
  <2>2. UplinkOK
    <3>1. Full \in 0..Full /\ 0 \in 0..DoorCooldown
      OBVIOUS
    <3> QED BY <3>1 DEF FloorInit, UplinkOK
  <2>3. doors \in [Doors -> DoorTimers]
    <3>1. 0 \in 0..RouteDelay
      OBVIOUS
    <3> QED BY <3>1 DEF FloorInit, DoorTimers
  <2>4. ended \in BOOLEAN
    BY DEF FloorInit
  <2> QED BY <2>1, <2>2, <2>3, <2>4
<1> QED BY <1>1, <1>2, <1>3 DEF FloorInv

(* Work is charged to who does it, and the infiltrator starts with free hands. *)
LEMMA WorkKeepsInv ==
  ASSUME FloorInv, NEW by \in Seats, Work(by)
  PROVE  FloorInv' /\ body'.x = body.x /\ billy' = billy
<1> USE FloorAssumption
<1>1. NetInv' /\ net' = net
  BY CommandKeepsInv DEF FloorInv, Work
<1>2. /\ by = "Infiltrator" => body.busy = 0
      /\ uplink' = [uplink EXCEPT !.bandwidth = AtLeast(@ - net.profile[by].bandwidth, 0)]
      /\ body' = [body EXCEPT !.busy = @ + net.profile[by].busy]
      /\ UNCHANGED <<billy, doors, ended>>
  BY DEF Work, Free
<1> DEFINE p == net.profile[by].busy
           w == net.profile[by].bandwidth
           full == net.profile["Infiltrator"].busy
<1>3. p \in Nat /\ w \in Nat /\ full \in Nat /\ (by = "Hacker" => p = 0) /\ (by = "Infiltrator" => p = full)
  BY DEF FloorInv, NetInv, Seats
<1>4. BodyOK'
  <2>1. /\ body'.x = body.x /\ body'.busy = body.busy + p /\ body'.seated = body.seated
        /\ body'.rescued = body.rescued /\ body'.vantage = body.vantage
        /\ body' = [x |-> body.x, vantage |-> body.vantage, seated |-> body.seated,
                    busy |-> body.busy + p, rescued |-> body.rescued]
    <3> HIDE DEF p
    <3> QED BY <1>2 DEF FloorInv, BodyOK, p
  <2>2. body.busy + p \in Nat /\ body.busy + p <= full
    <3>1. body.busy \in Nat /\ body.busy <= full
      BY DEF FloorInv, BodyOK
    <3> HIDE DEF p, full
    <3> QED BY <1>2, <1>3, <3>1 DEF Seats
  <2> HIDE DEF p
  <2> QED BY <1>1, <2>1, <2>2 DEF FloorInv, BodyOK
<1>5. UplinkOK'
  <2> HIDE DEF w
  <2> QED BY <1>2, <1>3 DEF FloorInv, UplinkOK, AtLeast, w
<1>6. body'.x = body.x
  BY <1>2 DEF FloorInv, BodyOK
<1> QED BY <1>1, <1>2, <1>4, <1>5, <1>6 DEF FloorInv, BillyOK, DoorTimers

(* A route is paid for. *)
LEMMA RouteKeepsInv ==
  ASSUME FloorInv, NEW d \in Doors, RouteDoor(d)
  PROVE  FloorInv' /\ body' = body /\ billy' = billy
<1> USE FloorAssumption
<1>1. /\ uplink.bandwidth >= DoorCost
      /\ uplink' = [bandwidth |-> uplink.bandwidth - DoorCost, cooldown |-> DoorCooldown]
      /\ doors' = [doors EXCEPT ![d].pending = RouteDelay]
      /\ UNCHANGED <<net, devs, links, body, billy, ended>>
  BY DEF RouteDoor, Routable
<1>2. NetInv'
  <2>1. {l \in links' : l.builtin} = {l \in links : l.builtin} /\ UNCHANGED <<net, devs>>
        /\ links' = links
    BY <1>1
  <2> QED BY <2>1, LinksKeepInv DEF NetInv, FloorInv
<1>3. UplinkOK' /\ doors' \in [Doors -> DoorTimers]
  BY <1>1 DEF FloorInv, UplinkOK, DoorTimers
<1> QED BY <1>1, <1>2, <1>3 DEF FloorInv, BodyOK, BillyOK

(* A hold after the timers and the network: it is a hold, and none is left    *)
(* where the network has locked.                                            *)
LEMMA HoldsAreHolds ==
  ASSUME FloorInv
  PROVE  /\ Hold(Timers) \in [Doors -> DoorTimers]
         /\ \A d \in Doors : devs'[d].locked => Hold(Timers)[d].open = 0
<1> USE FloorAssumption
<1>1. Timers \in [Doors -> DoorTimers]
  BY DEF FloorInv, DoorTimers, Timers, Dec
<1> DEFINE ds == Timers
<1> HIDE DEF ds
<1>2. ds \in [Doors -> DoorTimers]
  BY <1>1 DEF ds
<1>3. ASSUME NEW d \in Doors
      PROVE  Hold(ds)[d] \in DoorTimers /\ (devs'[d].locked => Hold(ds)[d].open = 0)
  <2>1. CASE devs'[d].locked
    BY <2>1 DEF Hold, DoorTimers
  <2>2. CASE ~devs'[d].locked /\ devs'[d].open
    BY <1>2, <2>2 DEF Hold, DoorTimers, AtLeast
  <2>3. CASE ~devs'[d].locked /\ ~devs'[d].open
    BY <1>2, <2>3 DEF Hold, DoorTimers
  <2> QED BY <2>1, <2>2, <2>3
<1>4. Hold(ds) \in [Doors -> DoorTimers]
  BY <1>3 DEF Hold
<1> QED BY <1>3, <1>4 DEF ds

(* No cell's side of a door is passed by staying. *)
LEMMA StayingPassesNothing == \A x : Between(x, x) = {}
BY DEF Between

(* A guard is on the floor, and behind every door that is shut. *)
LEMMA GuardKeeps ==
  ASSUME BillyOK, NEW ds \in [Doors -> DoorTimers], NEW dir \in Ways(billy.x),
         billy' = BillyAfter(dir, ds), doors' = DoorsAfter(dir, ds)
  PROVE  /\ BillyOK' /\ doors' \in [Doors -> DoorTimers]
         /\ \A d \in Doors : ds[d].open = 0 => d \notin Between(billy.x, billy'.x)
<1> USE FloorAssumption
<1>1. dir \in Int /\ billy.x + dir \in Cells /\ billy.x \in Cells /\ billy.wait \in 0..(BadgeDelay - 1)
  BY DEF Ways, BillyOK
<1>5. billy.x \in Int
  BY <1>1
<1>2. doors' \in [Doors -> DoorTimers]
  BY DEF DoorsAfter, DoorTimers, AtLeast
<1>3. CASE Pressed(dir, ds)
  <2>1. billy' \in {[billy EXCEPT !.wait = 0], [billy EXCEPT !.wait = @ + 1]}
        /\ (billy.wait + 1 >= BadgeDelay => billy' = [billy EXCEPT !.wait = 0])
    BY <1>3 DEF BillyAfter, Badges
  <2>2. billy'.x = billy.x /\ BillyOK'
    BY <1>1, <2>1 DEF BillyOK
  <2> QED BY <1>2, <2>2, StayingPassesNothing
<1>4. CASE ~Pressed(dir, ds)
  <2>1. billy' = [x |-> billy.x + dir, wait |-> 0]
    BY <1>4 DEF BillyAfter, Badges
  <2>2. billy'.x = billy.x + dir /\ BillyOK'
    <3>1. 0 \in 0..(BadgeDelay - 1)
      OBVIOUS
    <3> HIDE FloorAssumption
    <3> QED BY <1>1, <2>1, <3>1 DEF BillyOK
  <2>3. dir = 0 => billy.x + dir = billy.x
    BY <1>5
  <2>4. dir # 0 => \A d \in Between(billy.x, billy.x + dir) : ds[d].open # 0
    BY <1>4 DEF Pressed, Blocked
  <2>5. \A d \in Doors : ds[d].open = 0 => d \notin Between(billy.x, billy'.x)
    <3>1. CASE dir = 0
      BY <2>2, <2>3, <3>1, StayingPassesNothing
    <3>2. CASE dir # 0
      BY <2>2, <2>4, <3>2
    <3> QED BY <3>1, <3>2
  <2> QED BY <1>2, <2>2, <2>5
<1> QED BY <1>3, <1>4

(* So is the infiltrator, unless the guard throws him. *)
LEMMA BodyKeeps ==
  ASSUME BodyOK, UplinkOK, BillyOK', net' = net, net \in Networks,
         NEW ds \in [Doors -> DoorTimers], NEW dir \in Steps, NEW press \in Presses,
         NEW bandwidth \in 0..Full,
         Collide(Walk(dir, ds), Seated(press, Walk(dir, ds)), bandwidth)
  PROVE  /\ BodyOK' /\ UplinkOK' /\ ended' \in BOOLEAN
         /\ body'.rescued = body.rescued =>
              \A d \in Doors : ds[d].open = 0 => d \notin Between(body.x, body'.x)
<1> USE FloorAssumption
<1> DEFINE x == Walk(dir, ds)
           seated == Seated(press, x)
           busy == Dec(body.busy)
           cooldown == Dec(uplink.cooldown)
           full == net.profile["Infiltrator"].busy
           b == [x |-> x, vantage |-> RoomOf[x], seated |-> seated, busy |-> busy,
                 rescued |-> body.rescued]
           u == [bandwidth |-> bandwidth, cooldown |-> cooldown]
<1>1. /\ body.x \in Cells /\ body.seated \in BOOLEAN /\ body.rescued \in BOOLEAN
      /\ body.busy \in Nat /\ body.busy <= full /\ full \in Nat
  BY DEF BodyOK, Seats
<1>2. dir \in Int /\ body.x + dir \in Cells /\ body.x \in Int
  BY <1>1 DEF Steps, Ways
<1>3. x \in Cells
  BY <1>1, <1>2 DEF Walk
<1>4. \A d \in Doors : ds[d].open = 0 => d \notin Between(body.x, x)
  <2>1. CASE Blocked(ds, body.x, body.x + dir)
    BY <2>1, StayingPassesNothing DEF Walk
  <2>2. CASE ~Blocked(ds, body.x, body.x + dir)
    <3>1. x = body.x + dir
      BY <2>2 DEF Walk
    <3> QED BY <2>2, <3>1 DEF Blocked
  <2> QED BY <2>1, <2>2
<1>5. seated \in BOOLEAN
  BY DEF Seated
<1>6. busy \in Nat /\ busy <= full /\ cooldown \in 0..DoorCooldown
  BY <1>1 DEF Dec, UplinkOK
<1>7. \/ body' = b /\ uplink' = u /\ ended' = FALSE
      \/ /\ ~body.rescued /\ bandwidth >= RescueCost
         /\ body' = [b EXCEPT !.x = Thrown(x), !.rescued = TRUE]
         /\ uplink' = [u EXCEPT !.bandwidth = @ - RescueCost] /\ ended' = FALSE
      \/ body' = b /\ uplink' = u /\ ended' = TRUE
  BY Zenon DEF Collide
<1>8. Thrown(x) \in Cells
  BY <1>3 DEF Thrown
<1> HIDE DEF x, seated, busy, cooldown, full
<1>9. CASE body' = b /\ uplink' = u /\ ended' \in BOOLEAN
  <2>1. body'.x = x
    BY <1>9
  <2>2. BodyOK'
    BY <1>1, <1>3, <1>5, <1>6, <1>9 DEF BodyOK, full
  <2>3. UplinkOK'
    BY <1>6, <1>9 DEF UplinkOK
  <2> QED BY <1>4, <1>9, <2>1, <2>2, <2>3
<1>10. CASE /\ ~body.rescued /\ bandwidth >= RescueCost
            /\ body' = [b EXCEPT !.x = Thrown(x), !.rescued = TRUE]
            /\ uplink' = [u EXCEPT !.bandwidth = @ - RescueCost] /\ ended' = FALSE
  <2> DEFINE y == Thrown(x)
             yes == TRUE
  <2>1. y \in Cells /\ yes \in BOOLEAN /\ yes
    BY <1>8
  <2>2. body' = [b EXCEPT !.x = y, !.rescued = yes]
    BY <1>10
  <2> HIDE DEF y, yes
  <2>3. body' = [x |-> y, vantage |-> RoomOf[x], seated |-> seated, busy |-> busy, rescued |-> yes]
    BY <2>2
  <2>4. BodyOK'
    BY <1>1, <1>5, <1>6, <2>1, <2>3 DEF BodyOK, full
  <2>5. body'.rescued # body.rescued
    BY <1>1, <1>10, <2>1, <2>3
  <2>6. UplinkOK'
    BY <1>6, <1>10 DEF UplinkOK
  <2> QED BY <1>10, <2>4, <2>5, <2>6
<1>11. \A e \in {TRUE, FALSE} : e \in BOOLEAN
  OBVIOUS
<1> QED
  <2> HIDE DEF b, u
  <2> QED BY <1>7, <1>9, <1>10, <1>11

(* A tick: the timers, the network, the holds, the guard, the infiltrator.   *)
LEMMA TickKeepsInv ==
  ASSUME FloorInv, FloorTick
  PROVE  /\ FloorInv'
         /\ \A d \in Doors : devs'[d].locked =>
              /\ d \notin Between(billy.x, billy'.x)
              /\ body'.rescued = body.rescued => d \notin Between(body.x, body'.x)
<1> DEFINE ds == Hold(Timers)
           up == uplink.bandwidth + Regen
           bandwidth == IF up > Full THEN Full ELSE up
<1>1. PICK readout \in Readouts(Timers) : Step(readout)
  BY DEF FloorTick
<1>2. NetInv' /\ net' = net /\ net \in Networks
  BY <1>1, StepKeepsInv DEF FloorInv, NetInv
<1>3. ds \in [Doors -> DoorTimers] /\ \A d \in Doors : devs'[d].locked => ds[d].open = 0
  BY HoldsAreHolds
<1>4. PICK chase \in Ways(billy.x) : billy' = BillyAfter(chase, ds) /\ doors' = DoorsAfter(chase, ds)
  BY DEF FloorTick
<1>5. PICK dir \in Steps, press \in Presses :
        Collide(Walk(dir, ds), Seated(press, Walk(dir, ds)), bandwidth)
  BY DEF FloorTick
<1>6. bandwidth \in 0..Full
  BY FloorAssumption DEF FloorInv, UplinkOK
<1> HIDE DEF ds, bandwidth
<1>7. /\ BillyOK' /\ doors' \in [Doors -> DoorTimers]
      /\ \A d \in Doors : ds[d].open = 0 => d \notin Between(billy.x, billy'.x)
  BY <1>3, <1>4, GuardKeeps DEF FloorInv
<1>8. /\ BodyOK' /\ UplinkOK' /\ ended' \in BOOLEAN
      /\ body'.rescued = body.rescued =>
           \A d \in Doors : ds[d].open = 0 => d \notin Between(body.x, body'.x)
  BY <1>2, <1>3, <1>5, <1>6, <1>7, BodyKeeps DEF FloorInv
<1> QED BY <1>2, <1>3, <1>7, <1>8 DEF FloorInv

(* A step that changes nothing. *)
LEMMA FloorStutters ==
  ASSUME FloorInv, UNCHANGED floorVars
  PROVE  FloorInv'
<1>1. {l \in links' : l.builtin} = {l \in links : l.builtin} /\ UNCHANGED <<net, devs>> /\ links' = links
      /\ UNCHANGED <<body, billy, doors, uplink, ended>>
  BY DEF floorVars
<1>2. NetInv'
  BY <1>1, LinksKeepInv DEF FloorInv, NetInv
<1> QED BY <1>1, <1>2 DEF FloorInv, BodyOK, BillyOK, UplinkOK

(* Any step of the floor. *)
LEMMA FloorStep ==
  ASSUME FloorInv, [FloorNext]_floorVars
  PROVE  /\ FloorInv'
         /\ \A d \in Doors : devs'[d].locked =>
              /\ d \notin Between(billy.x, billy'.x)
              /\ body'.rescued = body.rescued => d \notin Between(body.x, body'.x)
<1>1. ASSUME NEW by \in Seats, Work(by)
      PROVE  FloorInv' /\ body'.x = body.x /\ billy'.x = billy.x
  BY <1>1, WorkKeepsInv
<1>2. ASSUME NEW d \in Doors, RouteDoor(d)
      PROVE  FloorInv' /\ body'.x = body.x /\ billy'.x = billy.x
  BY <1>2, RouteKeepsInv
<1>3. ASSUME UNCHANGED floorVars
      PROVE  FloorInv' /\ body'.x = body.x /\ billy'.x = billy.x
  BY <1>3, FloorStutters DEF floorVars
<1>4. CASE FloorTick
  BY <1>4, TickKeepsInv
<1>5. CASE FloorInv' /\ body'.x = body.x /\ billy'.x = billy.x
  BY <1>5, StayingPassesNothing
<1> QED BY <1>1, <1>2, <1>3, <1>4, <1>5 DEF FloorNext, EndedTick

(* However wires, routes, badges and hands interleave: a lock lands before     *)
(* anybody moves, and the infiltrator works on one panel at a time.          *)
THEOREM FloorSound == FloorSpec => FloorIsSound
<1>1. FloorInit => FloorInv
  BY FloorInitGivesInv
<1>2. FloorInv /\ [FloorNext]_floorVars => FloorInv'
  BY FloorStep
<1>3. FloorInv => FloorTypeOK /\ OneJobAtATime
  BY FloorInvGivesSound
<1>4. FloorInv /\ [FloorNext]_floorVars =>
        [\A d \in Doors : devs'[d].locked =>
           /\ d \notin Between(billy.x, billy'.x)
           /\ body'.rescued = body.rescued => d \notin Between(body.x, body'.x)]_floorVars
  BY FloorStep
<1> QED BY <1>1, <1>2, <1>3, <1>4, PTL DEF FloorSpec, FloorIsSound, NobodyPassesALock
===============================================================================
