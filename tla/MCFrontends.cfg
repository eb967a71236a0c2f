\* Each front on a small instance of its own.
SPECIFICATION FrontsSpec
CONSTANTS
  None = None
  Fronts = {"batch", "terminal", "driver", "package", "handle", "kit", "screens", "debrief"}
  \* batch
  Scripts <- FrontScripts
  FailAfter = {2}
  \* terminal
  FallbackHold = 2
  MaxQueued = 1
  \* driver
  TapKeys = {"R", "B"}
  TicksPerFrame = 2
  MaxTicks = 1
  MaxChord = 2
  MaxPending = 1
  \* package, handle
  Packages <- AllPackages
  Streams <- CallStreams
  MaxCalls = 3
  \* kit
  Kits <- AllKits
  Meals <- AllMeals
  \* screens
  Spots <- MouseSpots
  \* debrief
  Endings <- AllEndings
VIEW FrontView
INVARIANTS BatchIsSound FeedIsFaithful DriverIsFaithful ReplayIsExact HandleIsItsStreams KitIsSound ScreensAgree DebriefIsFair
CHECK_DEADLOCK FALSE
