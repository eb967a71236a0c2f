\* The rival hypotheses of the director alone.
SPECIFICATION PartsSpec
CONSTANTS
  None = None
  CascadeNodes = {}
  Parts = {"director"}
  \* signal, floor
  Networks <- AllNetworks
  Gates <- AllGates
  Cells = {0, 1}
  RoomOf <- RoomOfCell
  DoorAt <- DoorCell
  ConsoleAt = 1
  HackerReach = {"door"}
  RoomReach <- SessionReach
  DoorReach <- DoorArm
  RouteDelay = 2
  RouteDuration = 2
  BadgeDelay = 2
  BadgeOpen = 1
  DoorCost = 2
  DoorCooldown = 1
  Full = 3
  Regen = 1
  RescueCost = 2
  \* net
  Node <- GridNodes
  Address <- GridAddresses
  Vantage <- GridVantages
  Segment <- GridSegments
  Ip <- GridIp
  SegmentOf <- GridSegmentOf
  CanAccess <- GridAccess
  Category <- GridCategory
  Kind <- GridKind
  Security <- GridSecurity
  CutsPower <- GridCuts
  Deps <- GridDeps
  Threshold = 160
  MaxWord = 170
  \* layout
  Whole = 4
  Far = 2
  FrameHolds = 1
  Hysteresis = 1
  \* mole
  Items = {"gem"}
  BaseCapacity = 1
  RucksackCapacity = 2
  Ground = {0, 1}
  DigDepth = 1
  DiveTrigger = 2
  DiveDepth = 2
  WorkTicks = 1
  DistractTicks = 1
  GlideTicks = 1
  Hungry = 1
  Starved = 2
  FightInterval = 1
  FightDuration = 1
  \* building
  Buildings <- AllBuildings
  Mapped <- House
  \* supervision
  Positions <- SpawnPositions
  MaxObserved = 4
  \* director
  Tactics = {"vent"}
  Maximum = 2
  MaxRepeats = 2
  Hypotheses = 2
  Amounts = {180, 600}
  MaxEvidence = 2
  \* plan
  Definitions <- AllDefinitions
  Segmented = {"kitchen", "hall", "office", "laundry", "exit"}
  Lowered <- LowerCase
  Offset = 0
  DoorHostBase = 3
  CameraHostBase = 4
  LightHost = 5
  VacuumHost = 6
  MaxHost = 6
  \* registry
  Packs <- AllPacks
  MaxForms = 4
  \* roof
  Street <- StreetCells
  Indoors <- IndoorCells
  RoomAt <- RoomOver
  RopeTop = 0
  RopeFoot <- MinusTwo
  Hatch = 3
  RoofHeight = 3
  Ceiling = 2
  PickTime = 2
  HoldTime = 2
  ArrivalRoll = 3
INVARIANT TiesKeepDeclarationOrder
CHECK_DEADLOCK FALSE
