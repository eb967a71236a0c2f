\* As live: a rejoin while the survivor still plays.
SPECIFICATION FairSpec
CONSTANTS
  Move = Move
  End = End
  MaxSteps = 2
  InputDelay <- DelayUneven
  Feed <- FeedMove
  EndCommands <- EndOnEnd
  MaxDeaths = 1
  MayQuit = {}
  Hasty = {}
  LateNotice = FALSE
PROPERTIES
  RejoinRecovers
