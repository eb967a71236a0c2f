# IDApTIK in TLA+

Formal models of IDApTIK, a two-seat co-operative game written in Rust: an
*infiltrator* walks a building while a *hacker* works its network, and both
play one deterministic simulation, each on a machine of their own.  This
directory holds TLA+ modules translated from the source, TLC configurations
that check them on small instances, and TLAPS proofs of the results that hold
for every instance.  Paths below are relative to the repository root.

Run everything from this directory:

    tlc -workers 2 -config MCLockstep.cfg MCLockstep
    tlapm LockstepProofs.tla

`PROJECT.json` is the index: components, runs, the source lines each definition
translates (`map`), a mutant per checked property, hazards, findings, theorems.

## 1. The system

| Component | State it keeps | Operations | Module |
|---|---|---|---|
| Lockstep core (`crates/idaptik-net/src/lockstep.rs`) | executed steps, own sample head, peer watermark, own and peer pending commands, log, `ended` | pump, hear a command or a commit, lose the peer, advance, make and adopt a resync | `LockstepCore`, `Lockstep` |
| Live seat (`live.rs`) | a core, the relay connection, the peer's digest, deadlines | join, barrier, frame loop, hold, resync, digest, exit | `LiveSession` |
| Batch seat (`seat.rs`, `session.rs`) | a schedule, what it has collected | split, merge, barrier, stream, collect, run, digest | `BatchSeat` |
| Terminal seat (`idaptik-tui`, `interactive.rs`) | held buttons, queued commands, the last sent sample | key, decay, sample, rejoin | `TerminalFeed` |
| Bevy netplay (`idaptik-bevy/src/netplay`) | a feed, a core, a connection thread and two channels | the protocol cut over an engine's frames | `Netplay` |
| Relay (another repository) | joined connections | broadcast in order, no history, best-effort notices | in each of the above, external |
| Simulation (`idaptik-core/src/scenario/sim`) | phase, clock, bodies, note, USB, Billy, alert, doors, consoles, wires | one tick: immediates, systems in order, endings | `GhostLobby`, `WiredFloor`, `Rooftop`, `Debrief`, `SimTick` |
| Signal network (`scenario/signal`) | devices, wires, pulses, budget | wire, unwire, cut, re-program, step | `SignalNet` |
| Building runtime (`scenario/building`) | position, unlocked and cut, lists for the debrief | traverse, unlock, cut power, route | `Building`, `Routes`, `ExchangeHouse` |
| Viable-system model (`scenario/vsm.rs`) | evidence masses, attention, difficulty, hypotheses | observe, allocate, propose, apply | `Supervision`, `Director` |
| Definitions (`scenario/definition.rs`, `floor_graph.rs`, `actor`) | none: payloads in, verdict and derived graph out | validate, derive, compose | `FloorPlan`, `ActorRegistry` |
| Companion (`companion`) | state, position, depth, load, equipment, hunger | orders, equipment, what the world does to it, the tick | `Companion`, `MoleDefinition` |
| Network session (`netsim`) | pivot stack, vantage, trace, shelled devices, power | ssh, hack, scrub, exit | `NetSession`, `PowerCascade` |
| Packages (`package.rs`) | a run, a snapshot, a replay | load, run, restore, compare | `PackageRun` |
| FFI (`crates/idaptik-ffi`) | an opaque handle | create, tick, snapshot, free | `Handle` |
| Bevy client (`idaptik-bevy`) | key state, drawn interval, screens, drags, layout | frame by frame | `BevyDriver`, `BevyScreens`, `SeatLayout` |

The seats feed commands to the simulation, one tick at a time; the simulation
hosts the signal network, the session and the supervisor and calls them from its
tick; frontends read it and write only its command queue.

What is hard here, and how each is made correct:

* **Lockstep.**  Two processes must execute the same inputs at the same tick
  although each learns half of them from a relay and the stream is sparse.
  Correct when a tick runs only on complete input, the two logs are prefixes of
  one another, and neither wait can face the other for ever.
* **Loss and return.**  A process dies between any two steps; the relay says so
  late or never; the survivor guesses from silence; a fresh process adopts a
  snapshot while traffic is still flowing.  Correct when no two processes, living or
  dead, ever executed different inputs for a tick, when hand-offs leave both buffers
  alike, when somebody who returns in time finishes the run.
* **End of the run.**  It is noticed one tick late, the digest exchange overlaps the
  other seat's last ticks, and a seat that leaves looks like a seat that is lost.
* **The tick.**  A dozen systems in a fixed order, each reading what
  the ones before it just wrote, and an end in five places of it.  Correct when every
  object has one holder, Billy is never left guarding what he lost, nobody passes
  a locked door, and an ended run changes no more.
* **Input.**  A held button lives in four places (finger, feed, wire, run) that a rejoin,
  a restart, a hand-over or a missing release event can part.  Correct when the run's
  button follows the finger.
* **Long sequences of legal commands.**  Wires laid and cut while doors pulse, a mole
  ordered, fed and stripped, a building cut off circuit by circuit, evidence
  combined for hours.  Correct when each stays what its own guards would have accepted.
* **Replay.**  A snapshot is not all of a run's state.  Correct when what is restored and
  replayed says the same as what was played.

Each property is in section 4, each hazard at its line in `PROJECT.json`.

## 2. The plan

1. `LockstepCore`, `Lockstep`, `SharedRun` and the proofs.  *Done.*
2. `LiveSession`: the live seat with deaths, rejoins, timeouts.  *Done, proved for at most one death.*
3. `NetSession`, `PowerGraph`, `PowerCascade` and their proofs.  *Done.*
4. The tick: `GhostLobby` and its proofs; `WiredFloor` (doors, wires, routes, consoles),
   `Rooftop` (the way in, the arrival clock), `Supervision` (the patrol), `Debrief` (the
   ending).  *Done*, as modules that each leave the others' part to chance.
5. `BatchSeat`, `TerminalFeed`, `Netplay`.  *Done*; the batch seats and the terminal's button are proved as well.
6. `SignalNet`, `Building`, `Companion`, `Director`, `FloorPlan`, `ActorRegistry`.  *Done.*
7. `PackageRun`, `Handle`, `BevyDriver`, `BevyScreens`, `SeatLayout`.  *Done and proved*, but for the layout's
   liveness; so are the debrief and the companion's kit.

To prove next: `LiveSession` with a second death, whose invariant must also describe
a hello that outlives the process that said it.

To model next: the traces of `NetSession` inside `GhostLobby`'s tick (there a trace is a
choice), and `Netplay` over the relay of `LiveSession` with deaths.

## 3. The modules

### Two seats

**`LockstepCore`.**  The struct is a record: `step` and `next_sample` (ticks), `peer_next` (the
watermark: the first tick the peer has not committed), `own` and `peer`
(scheduled commands), `ran` (the log of executed inputs, each with its tick,
slot and position) and `ended`.  `Pump`, `OnPeerCommand`, `OnPeerCommit`,
`OnPeerLost`, `Advance`, `MakeResync` and `AdoptResync` are the methods of the same
names, as functions of a record.  `Advance` executes every ready step in one go as
the `while` of `advance_with` does.  What a feed answers is a choice from `Feed`; a command in
`EndCommands` ends the simulation of the tick that executes it, and as in the code the core
notices at the next step.  The simulation itself is the log: it is deterministic in it,
which is what the repository's own replay tests pin.

**`Lockstep`** has two seats that never fail: a core each, the place in the frame loop (`phase`),
the commands pumped and not yet pushed (`outbox`), the ordered `wire` of each direction,
the history `issued`.  Its actions are the steps between which `run_live_seat` awaits the
relay.  `SharedRun` is what the pair promises: one growing list of executed ticks and two
readers somewhere along it; `Lockstep` implements it with `script` the log of the seat that
is ahead.

**`LiveSession`** is the whole live seat around the same core: join and hello, the
barrier, the resync a returning process waits for, loss by notice and by silence, the
hold, the hand-off from a hold or in mid-play, quitting, the digest exchange, every exit.
A process may die between any two steps (`Die`) and a fresh one take its seat.  Real time
appears as four kinds of timeout.  A kind in `Hasty` may expire at any moment; the
others only when the wait is hopeless.  `LateNotice` lets a departure be
reported after the departed seat is back.

**`BatchSeat`** plays one script by two scripted seats: `SeatSchedule` is the split,
`MergedByTick` the merge, `Expand` what the headless printer plays; a seat greets, streams, collects,
runs and exchanges digests, lingers for a rejoiner, or dies after `FailAfter`
commands.  **`Envelope`** says whose each command is.

**`TerminalFeed`** follows a key from a finger to the run: intents, held buttons with the
fallback count for terminals without release events, queued immediates, the difference
each sample sends, and a rejoin that starts from nothing.

**`Netplay`** is the windowed seat: the feed with its own tick, the fixed step that pumps, hears and
advances, and the thread that carries what the core emits and drops what it held when it
fails.

### The simulation

**`SimTick`** is the shell of a tick: a command stream folded into an input, `tick`, pause,
restart, the drained events, snapshot and restore.  The batch, package, handle and driver
modules share it.

**`GhostLobby`** is the tick.  `at` is where it stands: `"idle"` between ticks, then the
immediates, then one value per system of `update` in the code's order, so one action is one
system.  Where a system ends the run (`Finish`) the rest of the tick is skipped.
Positions, sight, reach and timers are choices, limited by the guards that do not depend on them.

**`SignalNet`** is the signal network alone: the checks of a definition, the four commands with
their refusals, and a step that reads all outputs and then lets inputs act.
**`WiredFloor`** hosts it: two bodies in a row of cells, doors with routes, badges and
wires, a console to sit at, jobs that take time, the rescue.  A tick is one action, in the code's order.

**`Rooftop`** is the way in: street, rope, roof, hatch, the lock of the front door, the
arrival clock and the intel log.  **`Supervision`** is the supervised patrol: masses in ten-thousandths,
combined with truncation as in the code, attention, coverage, and the band of the sweep.
**`Debrief`** is every term of the score, the bands, theory and paragraph, in tenths of a point.

**`NetSession`, `PowerGraph`, `PowerCascade`.**  `entry`, `stack`, `progress`, `logs` are the
fields of `AgentSession` (the trace with its saturating sum at width `MaxWord`); `dead` is
the floor's `dead_nodes`.  A refused operation changes nothing, so it is no action.
`PowerGraph!Downstream` is the least set closed under "draws from" that holds a
node; `PowerCascade` the worklist that finds it.  Assumed of the data: each node's segment is that of
its address, and addresses are distinct, as `FloorIsWired` says of the shipped floor.

### The building and its inhabitants

**`Building`** has the checks of a definition, the derived controllers, traversal, unlocking, cuts
and the lists the debrief shows; **`Routes`** the shortest-path loop, an iteration a step, over a building
that loads; **`ExchangeHouse`** the shipped one.  **`FloorPlan`** and **`ActorRegistry`** are the validators and what they
derive or compose; their state is a payload and the verdict.  A derived node says which fixture it is
for, so that two fixtures with one name or one address stay two nodes; `Lowered` is `to_lowercase` on the door ids offered,
and `AuthoredNodes` the seven nodes of the shipped backbone.  **`Director`** applies
proposals however late they are accepted, and moves the rival hypotheses.
**`Companion`** is Moletaire's state machine and hunger over small grids;
**`MoleDefinition`** its ladders, their checks, and the pull of food.

### Around a run

**`PackageRun`** plays a schedule, snapshots on the way, restores, replays and compares.
**`Handle`** is a host's view of a run over the C surface.  **`BevyDriver`** is a frame:
decode the keys, run the ticks that are due, record, draw between the last two, hand the keyboard over.
**`BevyScreens`** is what the keys and the mouse belong to, in the order `lib.rs` runs the systems.
**`SeatLayout`** is the split of the window; what is on screen eases towards what is laid out.

### The `MC` modules

`MCLockstep`, `MCLiveSession`, `MCNetplay` and `MCNetSession` give constants finite values.
`MCParts` and `MCFrontends` put modules that need a handful of values each side by side: a
behaviour picks one of `Parts` (or `Fronts`) at the start and runs it alone, the
variables of the others resting at a fixed start.  So each is explored whole on its own
instance, the state space is the sum and not the product, and a module's invariants
also hold, idly, where it rests.  `FrontView` hides resting fronts from TLC's
fingerprints; it is only used with invariants.

Where a definition exists twice, the one whose comment says "Mutant of ..." is a
plausible mistake in the code; nothing refers to it.  `PROJECT.json` names, for
each property of a run, the mutant that breaks it.

## 4. The runs

| Run | Bounds | Shows |
|---|---|---|
| `lockstep` | 3 ticks, delays 0 and 2, feeds answering nothing, one command, or a burst of two whose second ends the simulation | `LockstepIsSafe`: a tick executes exactly what both feeds scheduled for it, the runs agree, errors of the core are unreachable, the skew is bounded by the peer's delay plus one; both stop at the same tick (`FinishTogether`), nothing is rolled back (`NoRollback`), both reach the end (`BothFinish`), the pair implements one shared run (`OneSharedRun`) |
| `session_deaths` | 2 ticks, delays 0 and 1, two deaths anywhere, one seat may quit, a tick may end the simulation, join, rejoin and digest timeouts at will | `OneHistory`: no two processes, dead ones included, ever executed different inputs for a tick; `SessionIsSafe`: no protocol error, a hand-off leaves both buffers alike; two completed seats hold the same log (`CompletedAlike`) |
| `session_hasty` | one death, every timeout at will, departures reported at any time | Not even then a protocol error, or a digest that disagrees (`DigestsMatch`) |
| `session_live` | one death, timeouts that expire when the wait is hopeless, departures reported before the return | `NeverHangs` (ADR-0006 section 3) and `HoldRecovers`: who returns to a run held open completes it |
| `lobby` | no bound on ticks or restarts; a preset with a rescue | `LobbyIsSafe`: an object has one holder, Billy guards and calls only over what he carries, is away until the crisis and in the building from then on, and a tick leaves no alert or trace at its limit with the run on; he never forgets the decoy (`DecoySticks`), and an end is the end (`EndIsFinal`) |
| `ends` | every dependency relation over three nodes; six open hosts in a row, threshold 20, word 22; a two-cell floor; a window of four steps | `CascadeIsExact` (a walk finds exactly what is downstream, outages add up whole) and `WalkEnds`; `PathIsPaid` (pivots are a path of distinct reachable hosts, and paid for) and `NoStall` (who keeps touching is traced); `RouteArrives` (a route asked for again still opens its door); `LayoutIsSeamless` (the axis of the split turns only unseen, and the layout settles) |
| `parts` | per part, below | `NetIsSound`: whatever is wired, cut and re-programmed, the network stays one `new` would accept, and a pulse ends exactly once.  `FloorIsSound`: nobody steps through a locked door, one job a body.  `DarknessIsWhole`: outages are whole, and the dark floor costs its 73 of trace.  `MoleIsSound`: capacity, depth, appetite, permadeath.  `BuildingIsSound`: the debrief is a walk and counts every cut.  `RouteIsShortest`, `SupervisionIsSound` (masses never pass the whole, coverage follows evidence, a sweep can arrive), `DifficultyIsGradual` (one level per acceptance and only on a repeated tactic), `FloorIsWired` (on an accepted plan every networked door and camera has a node; all nodes have distinct addresses just when no room's doors come up to its lights, and distinct names just when no door ids differ only in case; both hold of the shipped floor), `ShippedFormsAreTrusted`, `RoofIsSound` (two ways in, the clock waits outside) |
| `frontends` | per front, below | `BatchIsSound` (seats that complete agree with the merged script, nothing streamed is missed), `FeedIsFaithful` (the run's button follows the hand, a hold without releases ends), `DriverIsFaithful` (the same for the window, and no frame is drawn between two runs), `ReplayIsExact`, `HandleIsItsStreams` (a text that goes wrong leaves no trace), `KitIsSound` (upgrades help, hunger's pull is monotone and bounded), `ScreensAgree`, `DebriefIsFair` (a better run never scores or grades lower) |
| `session_finishing`, `netplay`, `ties`, `drag` | as above | The findings of section 5 |

**Bounds, and why they are enough.**  Three ticks with delays 0 and 2 are the least at which a seat
is fully ahead of the other, has a window of several ticks to sample, and a commit
covers a tick with nothing in it; a burst of two is the least in which order within
a tick can go wrong.  In `LiveSession` two ticks leave one that has been
executed and one that has not when a process dies, and two deaths cover both seats
dying, or one seat dying again while it resumes.  Three nodes give every
chain, fork, cycle and self-loop a worklist's order depends on.  The chain is
six deep because a cost of 5 divided by a depth of 6 is 0, where the floor of 1
matters; the word is two above the threshold so that the sum would wrap.
`GhostLobby` and `Rooftop` are finite as they stand.

In `parts`: four networks (a lock that can be undone, a pulse with a close and room for one more wire,
a relay of either gate behind a terminal, and one refused at load), so that every kind of input and the
budget's limit are met; a floor of two cells with one door, delays of two ticks and a purse of three
against a price of two, so that a lock lands before, between and after a route's two steps;
a mole that digs one and dives two with a rucksack of one extra place; a building of
three rooms in a ring with two circuits, under a lift and under a locked vent, one refused and one of a
single room, and routes over the shipped house;
difficulty up to 2 with a tactic repeated twice; four observed events, since the masses are combined
pairwise and truncated from the second on; plans of every combination of three room lists, door lists of
0 to 4 with ids that are apart, differ in case or repeat, the lights at the host of a room's second door and the vacuum
at that of its third, and camera and wiring lists at, below and over their limits; packs with each
bounded number in range, out of range and not finite.  In `frontends`: scripts of three lines over three ticks
with a crash after two commands; two keyboards of either kind with a key that is let go before,
at or after its fallback; a frame of up to two ticks and two keys; packages of every schedule of up to
two commands with a snapshot at any tick; three calls of a handle; every kit and scene of a family
on both sides of each threshold; the mouse on four spots; every ending of a family
on both sides of each band.  The remaining names of bounds (`MaxFed`, `MaxRepeats`, `MaxEvidence`, `MaxObserved`, `MaxForms`,
`MaxQueued`, `MaxPending`, `MaxChord`, `MaxTicks`, `MaxCalls`, `Far`) are declared where they cut, with a comment.

**Fairness.**  `Lockstep` and `LiveSession` ask weak fairness of the steps of each
process and strong fairness of `Drain` and of `LostBySilence`.  A drain may be cut by
its deadline in every frame, so each frame disables it; but a seat that is blocked
has nothing left to sample or push, so its later frames consist of the wait for
a broadcast (the next deadline is `max(now)`, `live.rs`), and a broadcast that is
queued is then read.  Likewise the silence timer is not reset by a new frame.  The
relay delivers what it accepts.  A first process joins; a player is not owed to return
after a death.  In `ends`: weak fairness of the floor's tick (the fixed-step loop runs it whatever the players
do), of the walk (one function call), and of frames in which the layout is left alone
(a window that is dragged for ever need not settle).  `NoStall` needs none, since its
hypothesis is that the agent keeps acting.

**Deadlock** is checked in the runs of `Lockstep`, `LiveSession` and `GhostLobby`, where
`Stopped` and `Over` are explicit steps.  In the others parts rightly stop: a definition
that was refused has no operations, a refused command is no step, a package ends with its
verdict, a debrief is final.

## 5. Disagreements found

Each is a run of its own:

* **A rejoin near the end finds nobody** (`session_finishing`).  Once its run is over
  the survivor drops a rejoin hello, although `live.rs` says a hello that arrives in
  mid-play is handled like one that arrives in a hold.
* **A windowed seat loses presses** (`netplay`).  `BevyInputFeed` queues a frame's commands
  under its own tick and gives out only what waits under the tick the core asks for.
  With an input delay, or while the core waits for its peer, the two part, and a press
  stays under a tick that was already sampled.  `netplay/input.rs` promises that multiplayer
  cannot silently lose them.
* **Ties go to the last hypothesis** (`ties`).  `most_likely` uses `max_by_key`, which returns the
  last maximum; its comment says declaration order.
* **A dropped wire is laid by a later click** (`drag`).  `wiring_mouse` returns before it looks at
  the buttons when the cursor is on no screen, so a drag let go of there is still in hand.

Met while modelling, stated by a definition where one is named, and in no run:

* A windowed seat hears no commit: `send_outgoing` pushes it as an `event` whose payload names it, as the
  other seats do, and `process_broadcast` looks for `net:commit` in the broadcast's own event name, where
  the relay puts `event` (`Encoded`, `ProcessBroadcast`).  Its core then waits for its peer once
  its window is full, which is one of the ways the ticks of `netplay` part.
* A late `peer_left` stalls a resumed session: any `peer_left` is taken for the loss of the current
  peer, so the notice of a dead connection that arrives after the resync makes the survivor hold and
  drop live traffic (`HoldRecovers` fails with `LateNotice` true).
* A false alarm of silence loses committed inputs: the hold drops the commits of a peer that was only
  slow; if it then dies, the resync rewinds ticks it had executed (`OneHistory` fails with a hasty grace).
* A resync is addressed to a seat and not to a process (`live.rs:313`).  A replacement says its hello
  and dies; the next adopts the answer to that hello, plays a tick and dies; the survivor then answers
  the second hello, which was queued all along, and prunes before it has drained the commit
  of that tick; the third resamples it.  So with three deaths of one seat `OneHistory` fails although
  every timeout and notice is honest, while `lockstep.rs:24` says of a hand-off that
  both sides then agree on which inputs exist.  Two deaths do not suffice (`session_deaths`).
* A survivor that received the dead process's digest before the death leaves as soon as it
  finishes, which can cost the resynced peer its own ending: `HoldRecovers` excludes it.
* An extraction is never announced as done (`ExtractionIsDone`): `system_objectives` has a branch
  for it, but no tick that ends a run reaches the system.
* `seat.rs` says that only a press list can mix seats, but a test hook on a line that ends with a
  hacker's token, or a second line of the same tick that begins with a hold, is reordered by the
  merge as well (`SplitReproducesExpand`).
* A key pressed and released in one frame leaves its button down (`ReleasedKeysStop`).
* A route or badge of the tick in which a lock lands leaves the door ajar until the next
  (`LockedStaysShut`); nobody moves in between, which is what `NobodyPassesALock` says.
* A lock whose rooms are in no zone is accepted and gets no controller
  (`EveryLockHasItsController`).
* Modifiers can take a stat out of the range its base form was checked for
  (`ComposedFormsAreTrusted`); the shipped ones, each applied once, do not.
* The intel log tells of a way in that was not taken (`LogsOnlyPassages`).
* Accepted floors can have two nodes of one address or one name (`FixturesAreApart`): the checks
  allow 244 doors a room, but a room's tenth door is at host 20, where its lights are
  (`floor_graph.rs:42,52,171`), and the hall's thirtieth at 40, where the vacuum is; and door ids that
  differ only in case pass `doors.unique_ids` and share a node id, since `door_node_id` lower-cases them
  (`floor_graph.rs:133`).  Look-ups by address and by name find the first.  The comment at
  `floor_graph.rs:157` claims only that two *doors* of a room cannot collide, which holds.
  `FloorIsWired` says on exactly which floors nodes are apart; the shipped one is among them.

## 6. The proofs

All are safety: TLAPS has no rule for the fairness the liveness properties need.

**`LockstepProofs`**, for every step budget, pair of delays, feed and set of ending
commands (`ConfigAssumption`): `LockstepIsSafe`, part by part and whole, `NoRollback`,
`FinishTogether` and `OneSharedRun`.  What the methods do to a core is in **`LockstepCoreProofs`**.
`RunIsComplete` is not inductive: that a tick ran on
complete input depends on where every other input was.  `IInv` adds that each
watermark is at most what the sender has sampled, and a seat at most one delay
ahead of its own step (`WatermarksOrdered`); that all a feed issued is in the sender's core
until executed (`OwnInv`) and, until the receiver executes it, in its buffer, on
the wire or in the outbox (`NothingLost`); that nothing else is there, and
nothing below the watermark is still under way (`NothingForged`), for no commit overtakes
a command it covers (`CommitsInOrder`).  The arrival order gives a command its place
within its tick: `Ranked` and `InSendOrder` say that the receiver's count of what it has
is the sender's number.  One lemma per action shows that it keeps `IInv`.
Determinism (`RunsAgree`) then follows without another induction: both logs
are `Script` cut at their steps.  `EndsLast`, that no core holds anything behind a command
that ends the simulation, is an induction of its own; with `RunsAgree` it gives
`FinishTogether`.  For the refinement, one lemma per action shows what it does to the shared run: `Advance`
of the seat that is ahead extends the script and moves that reader, `Advance` of the other moves a reader
only, every other action is a stutter.

**`LiveSessionProofs`**, for every step budget, pair of delays, feed and ending commands.
`TypeCorrect` holds for any number of deaths and any timeouts.  `SessionSafe` (`SessionIsSafe`: no protocol
error, hand-offs that leave both buffers alike) is proved for at most one death, whatever
timeouts are hasty and notices late; `OneHistoryEver`, `DigestsAgree` and
`CompletedTogether` for at most one death when silence is no false alarm (a grace period runs out only on
a peer that will say nothing more).  Neither bound is for comfort: with a hasty grace, and with three deaths, `OneHistory` is
false (section 5).  With two it is model-checked.  The argument goes up in five stages.

1. *Moves.*  One lemma per action of the model says which of a few forms of step it is (`Pumps`,
   `TakesCommand`, `HandsOver`, ...), so that the later stages argue about forms and not about the thirty actions.
2. *`Control`* says which status of a seat goes with which status of the other and what may still be queued:
   a seat that has not joined has an empty inbox (`Deaf`), a replacement says hello once and is
   answered once (`RejoinOnce`, `ResyncOnce`), nothing of the play is queued before the greeting
   (`Greeted`).  The survivor of one death never dies, which is what one death buys.
3. *`Links`.*  A seat that awaits a snapshot has not got its core yet, so the invariant is about its `Heir`: the core
   it will have once the queued snapshot is adopted, and the stream behind it.  What the heir lacks of the peer's
   inputs is what is queued and what the peer has yet to push, in order, each number once
   (`Sound`, `Tied`).  A hand-off makes the two sides of this equation alike, which is `SessionIsSafe`.
   A seat that holds listens to nothing and owes nothing here, so that false alarms do no harm.
4. *`Duty`, `Pledge`, `Closing`.*  Who holds the run open does so for a peer that has died or left, never for
   one that is still playing (this is where the grace must not be hasty), and no traffic reaches
   it while it waits; what a seat sampled is committed once it is pushed; behind the frame loop the
   run is over.
5. *`History`.*  There is a tick `h` (`Story`) below which everything lies that any process, living or dead, ever
   played, and each heir's log is that history cut at its step (`Remembers`).  A seat that is behind `h`, because it
   is slow or has just been handed a snapshot, holds or will receive exactly what was played there
   (`Knows`): it has sampled those ticks, the peer's commits cover them, and the merge of both buffers is what
   was played.  A seat that holds for a returning one must know it too, since it is the only one that can tell.
   Every digest that was told or queued is final for that history (`Final`).  `OneHistory` is
   then immediate, and two final logs of one history are equal, which gives the other two.

**`NetSessionProofs`** has three parts.  Of the walk over the power graph, for every graph: `CascadeIsExact`, its
parts, and `VisitedOnce`.  The invariant `WalkInv` says that what was seen contains the cut node, lies
within `Downstream`, and that a dependent of a node that was seen and left the
worklist was seen; with an empty worklist what was seen is closed, hence all of
`Downstream` by `DownstreamLeast`.

Of the session, for every graph, vantages, threshold and word (`GraphAssumption`): `TypeOK`, `PathIsPaid`, `OutageIsWhole`; together they are inductive.  The
heart is `AdvanceFacts`: an advance moves an open trace by at least one and never
beyond the threshold, so each push on the stack and each new foreign log is paid
for in the step that makes it; `LogCount` bounds the count of logs after a hack.

Of the shipped floor (`ShippedFloor` equates the constants with its graph, but for the supplies and the clock):
`DarkFloor`, that is `DarknessIsWhole`.  `FloorReach` reads who answers from where off the segment matrix, so there are four
paths of pivots, and `WayInv` adds what each hop of the one that ends at the substation has cost: 40, then half of 40, then
a third.

**`GhostLobbyProofs`**, with and without a rescue and for any number of ticks and restarts
(`LobbyAssumption`: the value for "nothing" is none of the objects and endings): everything the
`lobby` run checks.  `TypeOK` is inductive by itself; the rest needs two facts that
no run checks on its own account.  `DecoyPinned`, a thrown drive keeps its meter at the top: `DecoySticks`
says less, for `Misled` also holds by what Billy carries or told, and that may be lost.
`EndedAtRest`, an ended run is between ticks: every ending skips the rest of its tick,
which is why `EndIsFinal` leaves only `Begin` and `Restart` to look at.
`GuardCarries` and `OffsiteIsQuiet` lean on `Custody`, which turns "the drive is with the
player" into "not with Billy"; `StoryKept` settles in one place the many steps
that move Billy without touching what he holds.

**`ScenarioProofs`** holds eight parts.  `DifficultyIsGradual`, for any set of tactics and maximum
(`DirectorAssumption`): `DirectorInv` says that every proposal ever made goes up by one at most, so that
its acceptance, which compares it with the present difficulty, can raise that by one at most.
`RoofIsSound`, for any street that ends where the rooms begin, under a roof higher than their ceiling
(`RoofAssumption`): `RoofInv` adds how high a body can be in each place (`StandsRight`), without which a rope
could end above the roof; `TicksInside` goes through the places a tick can begin in and finds two that lead in.
`MoleIsSound`, for any ground, load and appetite (`MoleAssumption`).
`BuildingIsSound`, for every definition that passes `Loads` (the checks of the code, whatever rooms,
portals, locks and circuits it has): `BuildingInv` adds `Listed`, that the definition loaded and
the two lists name its rooms and portals.  `DebriefIsAWalk` is then inductive because `push_unique` never moves an
entry: a room that is new is put at the end, next to the room one came from, which was listed before.
`NamedPortal` rests on the check that ids are distinct.
`RouteIsShortest`, for every building that loads, with whole times (`RoutesAssumption`): `RouteInv` says that no settled
room is further than one that is not and that every portal out of a settled room has been tried (`RoomsSettled`), that
each distance is that of a way back through settled rooms (`Unwinds`), and that nothing was given a distance
that every closed set of rooms does not contain.  `ReachesAll` shows that `reachable_rooms` computes the least of those:
the model says it by a recursive function of the steps taken, which the prover cannot unfold by itself, so `Iterates`
first shows that such a function exists, and `ChainStops` that it has stopped growing after as many steps as there are rooms.
`FloorIsWired`, for every definition that validates, whatever its doors, cameras and address bases
(`FloorPlanAssumption`: lights above a room's first door, the vacuum above the lights, both and the shipped cameras in
range; the offset less than a shipped room is wide, the code's being 14; the shipped door ids differing in more than
case).  The rank of a door in its room rises with its index (`RankRises`) and the capacity check bounds it
(`RankIsBounded`), so each door has a node in range and two doors of a segment two addresses.  `NodesAre` lists the kinds
of node.  `BelowTheLightsIsEnough` compares them two by two; `BelowTheLightsIsNeeded` is its converse: ranks are an
injection of a room's doors into as many numbers, so every number up to how many they are is taken (`EveryRankIsTaken`), also
the one at the lights' host.
`SupervisionSound`, for any batches and positions (`SupervisionAssumption`: positions are whole, and "nothing" is no
evidence and no hypothesis).  Masses are summed over finite sets, in no order: `SumExists` and `SumUnique` show that
the sum is one whatever is taken first, `SumByClass` that terms may be summed class by class.  A combination is then one
set of truncated products, summed once by what it came from, where it fits the mass it splits (`ProductsFit`), and once by where
the two meet, which is the new ledger and its conflict (`MeetingsFit`).  `Sound`, that masses and conflict are at most the
whole, is kept, and with it belief, plausibility and the attention's range.  `SupervisionInv` adds that what is
announced is what is allocated and that the sweep lies within the clamp, which bending by at most its whole keeps (`BentStays`).
`ShippedFormsTrusted`, for any packs that load: `RegistryInv` records what the shipped actor is after each set of
shipped modifiers (`ShippedForm`); only the belief threshold, which both change, depends on their order.

**`WiredFloorProofs`**, for every network that loads, floor and tuning: `NetIsSound`, and
`FloorIsSound` of the floor that hosts it.  `NetInv` says that the checks of `new` hold of the wires as
they are now, that authored wires stay, and that each device remembers an interrupted state
exactly while it pulses; `FloorInv` adds the ranges of the timers and that a body is busy for one job at most.

**`FrontendProofs`** holds nine parts.  `DebriefFair`, for every combination of facts and every set of endings
(`EndingsAssumption`): each term of the score pays for what counts as better (`BetterIsNoWorse`,
`NoWorseScoresMore`), and the floor, the ceiling and the bands keep that order (`ScoresKeepOrder`, `WonRanks`,
`LostRanks`).  `KitSound`, for every definition that loads and every scene (`KitsAssumption`: ladders of
four whole rungs): a check of neighbours orders the first rung with every other (`LadderKeepsOrder`), the pull of
food stays on its side, below the cap, and grows with hunger over the seams of the bands (`PullTowards`), and a
mole with food left has a nearest one (`SomeFoodIsNearest`).
`ScreensInAgreement`, for any spots of the mouse: `ScreensInv` adds that a drag never outlives
the wiring screen, in any mode, and that the press a frame remembers began in the mode the frame ends in; one
lemma per system of the frame, in the order the schedule runs them, says what it leaves of that.
`AxisUnseen`, for any window and any distances: with both seats in view the divider's axis turns only while
nothing of the van is on screen (the safety half of `LayoutIsSeamless`).
`HandleExact`, for any streams of commands and any number of calls (`HandleAssumption`), and `ReplayExact`, for every
package that loads (`PackageAssumption` types its ticks and commands and says that "nothing" is no verdict and no
point): `PackageInv` says that the playings are on one *way*, a function from ticks to points (simulation, held
buttons, events told) in which each point is made from the one before; the snapshot is of its point, and the replay,
which has the same simulation and buttons at each tick and has told what came since, goes to the same next point
(`SamePoint`).  A restored simulation is the one that was saved because every tick drains its events (`PointIs`).
Both need what a *fold* over a stream goes through.  `FoldLeft` is defined by a recursive function of the sets of
indices folded: `FoldExists` shows that there is one, a least counterexample at a time, `FoldUnique` that any such
function goes through the same values, and one lemma per folded operator (`CommandsThrough`, `SessionThrough`,
`WorkThrough`, `ScheduleThrough`, `CallsThrough`, `MineThrough`) opens that operator with them.
`FeedFaithful`, for any keys of both seats, rejoins and length of the fallback (`TerminalAssumption`: it is not 0):
`FeedInv` adds `Holding`, that without release events what is left of a hold and the samples since the last press make
up the fallback, and with them the hold is the finger's.  The run's button is that of the last sample because a
sample sends only what changed (`SampleIs`), and the seat's choice of the stream keeps every press and
release (`MineHolds`).
`DriverFaithful`, for any keys and any number of ticks a frame (`DriverAssumption`): `DriverInv` says how the drawn interval
follows the last two ticks (`Drawn`) and that with the keyboard at the hacker's no hold key that is down still counts;
`DecodedIs` says what a frame's keys make of the button, and the ticks of the frame, as many as there are, leave that as
it is (a fold again).

`BatchSound`, for any scripts sorted by tick, joins and deaths (`BatchAssumption`: what `press_command` and the test hooks
yield is never a button, as `script.rs` reads them, and a digest is no "mismatch" by name).  Two arguments meet in it.  The
protocol: `BatchInv` has one clause per fact a seat relies on (`Stands`), among them that what a seat in hearing has collected
and what is on its way are together what its peer has streamed, so that a seat that collected as many as the hello promised
has the peer's whole schedule (`WholeCame`).  The script: `SplitIsExpand` says that the two halves merged are the
schedule again, tick by tick, if no hacker's command stands before an infiltrator's (`SharesMerge`), and `DueIsFired`
that differences of the hold, applied in turn, leave the hold of the tick; both go through a fold's values line by line.

**What the proofs ask of the data.**  Two assumptions are the shipped tuning's, and no check at load asks for them;
each was found by a proof that failed without it: a pulse lasts
at least one tick (`NetworksAssumption`; with `door_pulse_ticks` 0 a door that is told to pulse stays held); the hacker's
`wire_busy_ticks` are 0 (`FloorAssumption`; wiring by the hacker is charged to the infiltrator's hands).
A third, that a rucksack carries no less than bare paws (`MoleAssumption`), is what the companion's own checks ask
(`companion/definition.rs:334`).

**Only model-checked.**  Liveness (`BothFinish`, `NeverHangs`, `HoldRecovers`, `WalkEnds`,
`NoStall`, `RouteArrives`, the second half of `LayoutIsSeamless`) and enabledness are out of the prover's
reach.  So is induction over data by a rule that takes an operator; one recursive *function* at a time, and so one fold
at a time, can be argued by a least counterexample, as `ReachesAll` does for the rooms a route can reach and
`FoldThrough` for a stream's commands.  The live session with two deaths, with which `session_deaths`
also checks it, and `DigestsMatch` with a hasty grace (`session_hasty`), are model-checked.
Planned and not yet proved: section 2.

## 7. What is not modelled

* Drawing, HUD, menus, sound, the street music synthesiser: output nothing reads back.
* The Phoenix client's socket, JSON and base64 coding, the envelope's byte layout:
  messages are records.  A malformed or foreign message is outside the model; `Handle` and
  `PackageRun` keep the verdict on a payload, not its parsing.
* Real time: only which of two things came first.  Geometry within a cell: sight cones,
  throwing arcs and camera sweeps are choices.
* A door that was picked stays unlocked (`sim/mod.rs:607`): that is the street door, which is `Rooftop`'s; the floor of
  `WiredFloor` has none.
* Tuning numbers' ranges in scenario files; wording of events, reports and names.
* Kernel random numbers: every roll is a choice, so no property depends on the generator.
* Memory ownership across the C surface; the Idris ABI and the Zig adapter, which restate and
  wrap it; launcher, scripts, CI, vendored `bevy_winit`, fixtures.
* The relay's own implementation, which is another repository: it is modelled from what
  the seats and their comments rely on, and marked external in `map`.
