------------------------------- MODULE SignalNet -------------------------------
(***************************************************************************)
(* The signal network of a floor (crates/idaptik-core/src/scenario/signal): *)
(* devices with typed ports, the installer's wires and the players', and a  *)
(* tick that reads every output, then lets every input act.                 *)
(*                                                                         *)
(* The host (the floor run) says which devices a seat can touch and which   *)
(* of the outputs it owns are high; here both are left open, so a command   *)
(* may come from any access and a step from any readout.  WiredFloor gives  *)
(* them their meaning.                                                      *)
(***************************************************************************)
EXTENDS Option, Integers, FiniteSets, Functions

CONSTANTS
  Networks,   \* the definitions offered to SignalSim::new
  Gates      \* the gates a re-programming may ask for

Seats == {"Infiltrator", "Hacker"}
Kinds == {"Door", "Camera", "Light", "Sensor", "Vacuum", "Guard", "Terminal", "Relay"}

(* The definitions the deserialiser builds: finitely many wires, counts that  *)
(* are unsigned.  That a pulse lasts a tick at least is the tuning's, the     *)
(* checks at load do not ask for it.                                         *)
ASSUME NetworksAssumption ==
  /\ None \notin Gates /\ None \notin BOOLEAN
  /\ \A n \in Networks :
       /\ n = [devices |-> n.devices, links |-> n.links, ends |-> n.ends, budget |-> n.budget,
               pulseTicks |-> n.pulseTicks, profile |-> n.profile]
       /\ \A d \in DOMAIN n.devices :
            /\ n.devices[d].kind \in Kinds
            /\ n.devices[d].gate \in Gates \cup {None}
            /\ n.devices[d].locked \in BOOLEAN
       /\ IsFiniteSet(n.links)
       /\ \A l \in n.links : /\ l = [ends |-> l.ends, invert |-> l.invert, builtin |-> l.builtin]
                             /\ l.invert \in BOOLEAN /\ l.builtin \in BOOLEAN
       /\ n.budget \in Nat /\ n.pulseTicks \in Nat \ {0}

Outputs(kind) ==
  CASE kind = "Door" -> {"Open", "Closed"}
    [] kind \in {"Light", "Vacuum"} -> {"Active"}
    [] kind \in {"Camera", "Sensor", "Guard"} -> {"Tripped"}
    [] kind = "Terminal" -> {"Compromised"}
    [] kind = "Relay" -> {"Q"}

Inputs(kind) ==
  CASE kind = "Door" -> {"Open", "Close", "Toggle", "Lock", "Unlock", "Pulse"}
    [] kind \in {"Camera", "Sensor"} -> {"Enable", "Disable"}
    [] kind = "Light" -> {"Enable", "Disable", "Toggle"}
    [] kind = "Vacuum" -> {"Pulse"}
    [] kind \in {"Guard", "Terminal"} -> {}
    [] kind = "Relay" -> {"A", "B"}

HostOutputs(kind) ==
  CASE kind = "Door" -> {"Open"}
    [] kind \in {"Camera", "Sensor", "Guard"} -> {"Tripped"}
    [] kind = "Terminal" -> {"Compromised"}
    [] kind = "Vacuum" -> {"Active"}
    [] kind \in {"Light", "Relay"} -> {}

Eval(gate, a, b, latched) ==
  CASE gate = "And" -> a /\ b
    [] gate = "Or" -> a \/ b
    [] gate = "Xor" -> a # b
    [] gate = "Nand" -> ~(a /\ b)
    [] gate = "Nor" -> ~(a \/ b)
    [] gate = "Latch" -> latched

-------------------------------------------------------------------------------
(* Definitions: ends are the four fields that name a wire. *)

SameEnds(k, l) == k.ends = l.ends

CheckLink(n, ends) ==
  {"UnknownDevice" : d \in {ends.from, ends.to} \ DOMAIN n.devices}
  \cup {"NoSuchOutput" : d \in {d \in {ends.from} \cap DOMAIN n.devices :
                                  ends.out \notin Outputs(n.devices[d].kind)}}
  \cup {"NoSuchInput" : d \in {d \in {ends.to} \cap DOMAIN n.devices :
                                 ends.in \notin Inputs(n.devices[d].kind)}}
  \cup {"SelfLink" : d \in {ends.from} \cap {ends.to}}

Laid(links) == {l \in links : ~l.builtin}

(* Devices are a function here and links a set, so the duplicate checks of   *)
(* the code have nothing to find but two wires with the same ends.           *)
Problems(n) ==
  (UNION {CheckLink(n, l.ends) : l \in n.links})
  \cup {"RelayWithoutGate" : d \in {d \in DOMAIN n.devices :
          n.devices[d].kind = "Relay" /\ n.devices[d].gate = None}}
  \cup {"GateOnNonRelay" : d \in {d \in DOMAIN n.devices :
          n.devices[d].kind # "Relay" /\ n.devices[d].gate # None}}
  \cup {"LockOnNonDoor" : d \in {d \in DOMAIN n.devices :
          n.devices[d].locked /\ n.devices[d].kind # "Door"}}
  \cup {"DuplicateLink" : l \in {l \in n.links :
          \E k \in n.links : k # l /\ SameEnds(k, l)}}
  \cup {"OverBudget" : x \in {x \in {n.budget} : Cardinality(Laid(n.links)) > x}}

Playable(n) == Problems(n) = {}

VARIABLES
  net,    \* the definition being played
  devs,   \* SignalState.devices, by id
  links   \* SignalState.links

netVars == <<net, devs, links>>

Fresh(d) ==
  [open |-> FALSE, locked |-> d.locked, active |-> d.kind \in {"Camera", "Sensor", "Light"},
   gate |-> d.gate, a |-> FALSE, b |-> FALSE, latched |-> FALSE,
   pulse |-> 0, pre |-> None, prev |-> {}]

(* SignalSim::new: an unplayable definition is refused. *)
NetInit ==
  /\ net \in {n \in Networks : Playable(n)}
  /\ devs = [d \in DOMAIN net.devices |-> Fresh(net.devices[d])]
  /\ links = net.links

KindOf(d) == net.devices[d].kind

-------------------------------------------------------------------------------
(* Commands.  access is the set of devices the seat can touch. *)

MayWireInto(by, ends, access) ==
  /\ CheckLink(net, ends) = {}
  /\ ends.to \in access
  /\ net.devices[ends.to].hackerOnly => net.profile[by].hackerOnly

(* Mutant of Wire: a second wire between the same ends is laid. *)
WireTwice(by, ends, access) ==
  /\ MayWireInto(by, ends, access)
  /\ Cardinality(Laid(links)) < net.budget
  /\ links' = links \cup {[ends |-> ends, invert |-> FALSE, builtin |-> FALSE]}
  /\ UNCHANGED <<net, devs>>

Wire(by, ends, access) ==
  /\ MayWireInto(by, ends, access)
  /\ \A l \in links : l.ends # ends
  /\ Cardinality(Laid(links)) < net.budget
  /\ links' = links \cup {[ends |-> ends, invert |-> FALSE, builtin |-> FALSE]}
  /\ UNCHANGED <<net, devs>>

(* Mutant of Loose: the installer's wires can be worked on as well. *)
LooseAny(ends) == {l \in links : l.ends = ends}

(* The player-laid wire with these ends, if there is one. *)
Loose(ends) == {l \in links : l.ends = ends /\ ~l.builtin}

CutWire(by, ends, access) ==
  /\ MayWireInto(by, ends, access)
  /\ Loose(ends) # {}
  /\ links' = links \ Loose(ends)
  /\ UNCHANGED <<net, devs>>

Invert(by, ends, access) ==
  /\ MayWireInto(by, ends, access)
  /\ Loose(ends) # {}
  /\ links' = (links \ Loose(ends)) \cup {[l EXCEPT !.invert = ~@] : l \in Loose(ends)}
  /\ UNCHANGED <<net, devs>>

Reprogram(by, relay, gate, access) ==
  /\ relay \in DOMAIN net.devices /\ KindOf(relay) = "Relay"
  /\ relay \in access
  /\ net.profile[by].reprogram
  /\ devs' = [devs EXCEPT ![relay].gate = gate, ![relay].latched = FALSE]
  /\ UNCHANGED <<net, links>>

-------------------------------------------------------------------------------
(* The tick. *)

(* outputs_of: whether port p of device d is high; at is the devices' state  *)
(* and readout the set of <<device, port>> the host holds high.              *)
High(at, d, p, readout) ==
  LET s == at[d]
      host == p \in HostOutputs(KindOf(d)) /\ <<d, p>> \in readout IN
  CASE KindOf(d) = "Door" -> (p = "Open") = (s.open \/ <<d, "Open">> \in readout)
    [] KindOf(d) = "Light" -> s.active
    [] KindOf(d) \in {"Camera", "Sensor"} -> s.active /\ host
    [] KindOf(d) \in {"Guard", "Vacuum", "Terminal"} -> host
    [] KindOf(d) = "Relay" -> Eval(s.gate, s.a, s.b, s.latched)

(* The input ports of d some wire holds high. *)
Level(at, d, readout) ==
  {l.ends.in : l \in {l \in links : /\ l.ends.to = d
                                    /\ High(at, l.ends.from, l.ends.out, readout) # l.invert}}

(* Mutant of DoorAfter: a pulse during a pulse saves the held-open state. *)
DoorRepulsed(s, fired) ==
  LET over == s.pulse = 0 /\ s.pre # None
      was == IF over THEN s.pre ELSE s.open
      pre == IF over THEN None ELSE s.pre
      pulsed == "Pulse" \in fired
      locked == "Unlock" \notin fired /\ ("Lock" \in fired \/ s.locked)
      open == \/ "Unlock" \in fired
              \/ "Close" \notin fired /\ ("Open" \in fired \/ ("Toggle" \in fired) # was)
  IN [s EXCEPT !.locked = locked, !.open = ~locked /\ (pulsed \/ open),
        !.pre = IF pulsed THEN open ELSE pre]

(* The ports act in the order toggle, open, close, lock, unlock, pulse.  A    *)
(* pulse that ran out first restores what it interrupted, and a lock last     *)
(* shuts the door.                                                            *)
DoorAfter(s, fired) ==
  LET over == s.pulse = 0 /\ s.pre # None
      was == IF over THEN s.pre ELSE s.open
      pre == IF over THEN None ELSE s.pre
      pulsed == "Pulse" \in fired
      locked == "Unlock" \notin fired /\ ("Lock" \in fired \/ s.locked)
      open == \/ "Unlock" \in fired
              \/ "Close" \notin fired /\ ("Open" \in fired \/ ("Toggle" \in fired) # was)
  IN [s EXCEPT !.locked = locked, !.open = ~locked /\ (pulsed \/ open),
        !.pulse = IF pulsed THEN net.pulseTicks ELSE @,
        !.pre = IF pulsed /\ pre = None THEN open ELSE pre]

ActiveAfter(s, fired) ==
  "Disable" \notin fired /\ ("Enable" \in fired \/ ("Toggle" \in fired) # s.active)

RelayAfter(s, level) ==
  [s EXCEPT !.latched = (s.gate = "Latch" /\ "A" \in level /\ ~s.a) # @,
            !.a = "A" \in level, !.b = "B" \in level]

(* An edge input fires in the tick its wire rises (relays take the level). *)
Fired(s, level) == level \ s.prev

DeviceAfter(d, s, level) ==
  LET fired == Fired(s, level)
      after == CASE KindOf(d) = "Door" -> DoorAfter(s, fired)
                 [] KindOf(d) \in {"Camera", "Sensor", "Light"} ->
                      [s EXCEPT !.active = ActiveAfter(s, fired)]
                 [] KindOf(d) = "Relay" -> RelayAfter(s, level)
                 [] OTHER -> s
  IN [after EXCEPT !.prev = level]

(* step_body: every pulse runs down, every output is read, every input acts. *)
Step(readout) ==
  LET at == [d \in DOMAIN devs |-> [devs[d] EXCEPT !.pulse = IF @ > 0 THEN @ - 1 ELSE 0]] IN
  /\ devs' = [d \in DOMAIN devs |-> DeviceAfter(d, at[d], Level(at, d, readout))]
  /\ UNCHANGED <<net, links>>

(* The vacuums a step routes. *)
VacuumsRouted(readout) ==
  {d \in DOMAIN devs : /\ KindOf(d) = "Vacuum"
                       /\ "Pulse" \in Fired(devs[d], Level(devs, d, readout))}

HostPorts == UNION {{d} \X HostOutputs(KindOf(d)) : d \in DOMAIN net.devices}

(* SignalSim::apply of each command, with the ends net offers to name. *)
NetCommand(by, access) ==
  \/ \E e \in net.ends : Wire(by, e, access)
  \/ \E e \in net.ends : CutWire(by, e, access)
  \/ \E e \in net.ends : Invert(by, e, access)
  \/ \E r \in DOMAIN net.devices, g \in Gates : Reprogram(by, r, g, access)

NetNext ==
  \/ \E by \in Seats : NetCommand(by, DOMAIN net.devices)
  \/ \E readout \in SUBSET HostPorts : Step(readout)

NetSpec == NetInit /\ [][NetNext]_netVars

-------------------------------------------------------------------------------
(* Properties. *)

NetTypeOK ==
  /\ net \in Networks
  /\ \A d \in DOMAIN devs :
       /\ devs[d] \in [open : BOOLEAN, locked : BOOLEAN, active : BOOLEAN,
                       gate : Gates \cup {None}, a : BOOLEAN, b : BOOLEAN,
                       latched : BOOLEAN, pulse : 0..net.pulseTicks,
                       pre : BOOLEAN \cup {None}, prev : SUBSET Inputs(KindOf(d))]
       /\ (KindOf(d) = "Relay") = (devs[d].gate # None)
  /\ \A l \in links : l.invert \in BOOLEAN /\ l.builtin \in BOOLEAN

(* No sequence of laying, cutting and inverting by either seat touches the  *)
(* wiring the installer laid, leaves more of the players' wires than the    *)
(* budget, joins two ports twice, or leaves a wire the definition's own     *)
(* checks would refuse.                                                     *)
WiringIsSound ==
  /\ {l \in links : l.builtin} = {l \in net.links : l.builtin}
  /\ Playable([net EXCEPT !.links = links])

(* A door remembers what its pulse interrupted exactly as long as the pulse *)
(* has ticks to run, whatever closes, locks or pulses it again meanwhile,   *)
(* so a pulse always ends and never ends twice.                             *)
PulseHasAnEnd ==
  \A d \in DOMAIN devs : devs[d].pre # None <=> devs[d].pulse > 0

(* All of it: the network stays one its own checks would load, and its       *)
(* pulses end.                                                              *)
NetIsSound == NetTypeOK /\ WiringIsSound /\ PulseHasAnEnd
================================================================================
