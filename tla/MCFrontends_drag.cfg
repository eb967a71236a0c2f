\* The windowed client's screens alone.
SPECIFICATION FrontsSpec
CONSTANTS
  None = None
  Fronts = {"screens"}
  \* batch
  Scripts <- FrontScripts
  FailAfter = {2}
  \* terminal
  FallbackHold = 2
  MaxQueued = 1
  \* driver
  TapKeys = {"R", "B"}
  TicksPerFrame = 2
  MaxTicks = 1
  MaxChord = 2
  MaxPending = 1
  \* package, handle
  Packages <- AllPackages
  Streams <- CallStreams
  MaxCalls = 3
  \* kit
  Kits <- AllKits
  Meals <- AllMeals
  \* screens
  Spots <- MouseSpots
  \* debrief
  Endings <- AllEndings
INVARIANT WiresAreDrawn
CHECK_DEADLOCK FALSE
