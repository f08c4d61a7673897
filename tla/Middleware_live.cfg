SPECIFICATION FairSpec
CONSTANTS
  Requests = {r1}
  Ips = {a}
  IpOf <- MCIpOf
  Detectors = {"guess", "payload", "trap"}
  BodyDetectors = {"payload"}
  TrapDetectors = {"trap"}
  WindowedDetectors = {}
  CertainDetectors = {"trap"}
  Score <- ScoreOf
  Family <- FamilyOf
  Ask <- AskOf
  ActionIds <- AllActions
  Configs <- FormReloads
  BlockRequiresProof = TRUE
  UnprovenBlockFallback = "tarpit"
  Faults = {"blocklist", "detector", "score", "policy", "store", "body", "action", "host"}
  Shapes <- AllShapes
  FailOpen = TRUE
  GuardMounted = TRUE
PROPERTIES
  EveryRequestSettles
