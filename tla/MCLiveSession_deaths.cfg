\* Two deaths, either seat, anywhere; one seat may quit; any tick may end the simulation; no false alarm of silence.
SPECIFICATION Spec
CONSTANTS
  Move = Move
  End = End
  MaxSteps = 2
  InputDelay <- DelayUneven
  Feed <- FeedEnd
  EndCommands <- EndOnEnd
  MaxDeaths = 2
  MayQuit = {"infiltrator"}
  Hasty = {"join", "window", "digest"}
  LateNotice = FALSE
INVARIANTS
  SessionIsSafe
  OneHistory
  CompletedAlike
