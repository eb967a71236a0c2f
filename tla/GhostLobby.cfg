SPECIFICATION Spec
CONSTANTS
  None = None
  Rescue = TRUE
INVARIANTS LobbyIsSafe DecoySticks
PROPERTY EndIsFinal
CHECK_DEADLOCK TRUE
