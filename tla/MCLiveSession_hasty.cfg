\* One death; every timeout may expire on a live peer; departures reported late.
SPECIFICATION Spec
CONSTANTS
  Move = Move
  End = End
  MaxSteps = 2
  InputDelay <- DelayUneven
  Feed <- FeedMove
  EndCommands <- EndOnEnd
  MaxDeaths = 1
  MayQuit = {}
  Hasty = {"join", "grace", "window", "digest"}
  LateNotice = TRUE
INVARIANTS
  SessionIsSafe
  DigestsMatch
