SPECIFICATION FairSpec
CONSTANTS
  a = a  b = b
  NoSocket = NoSocket  NoTimer = NoTimer
  Horizon = 4
  Window = 1
  Ceiling = 2
  Capacity = 1
  Wanted <- AllEvents
  Traffic <- Alone
  Hooks <- TwoHooks
  DedupeOf <- Dedupes
  ThrottleOf <- Throttling
  InFlightOf <- Slots
  RetriesOf <- Attempts
  LowToo <- First
  AnomaliesToo <- TwoHooks
  GlobalMax = 2
  Minute = 2
  MinSummary = 2
  HookCapacity = 1
  Sockets <- ThreeSockets
  MaxFaults = 2
  Deployments <- EachAlone
  MaxEvents = 3
  LastPublish = 2
INVARIANTS RepeatsCollapse CapsHold HeldBackIsCounted SummaryIsComing AlwaysAWayBack
PROPERTIES AlertsSettle Reconnects
CHECK_DEADLOCK FALSE
