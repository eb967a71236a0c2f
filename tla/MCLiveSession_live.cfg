\* One death, prompt players and network: liveness.
SPECIFICATION FairSpec
CONSTANTS
  Move = Move
  End = End
  MaxSteps = 2
  InputDelay <- DelayUneven
  Feed <- FeedMove
  EndCommands <- EndOnEnd
  MaxDeaths = 1
  MayQuit = {}
  Hasty = {}
  LateNotice = FALSE
PROPERTIES
  NeverHangs
  HoldRecovers
