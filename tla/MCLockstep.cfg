\* Three ticks, delays 0 and 2, every tick of either seat silent, one command or a burst of two.
SPECIFICATION FairSpec
CONSTANTS
  Move = Move
  Quit = Quit
  MaxSteps = 3
  InputDelay <- DelayUneven
  Feed <- FeedSmall
  EndCommands <- EndOnQuit
INVARIANTS
  LockstepIsSafe
  FinishTogether
PROPERTIES
  NoRollback
  BothFinish
  OneSharedRun
