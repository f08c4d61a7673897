SPECIFICATION ServerFairSpec
CONSTANTS
  r1 = r1
  r2 = r2
  a = a
  Requests = {r1, r2}
  Ips <- MCIps
  IpOf <- MCIpOf
  Detectors = {"guess", "payload"}
  BodyDetectors = {"payload"}
  TrapDetectors = {}
  WindowedDetectors = {}
  CertainDetectors = {}
  Score <- MCScore
  Family <- MCFamily
  Ask <- MCAsk
  ActionIds <- AllActions
  Configs <- MCConfigs
  BlockRequiresProof = FALSE
  UnprovenBlockFallback = "tarpit"
  Faults = {"blocklist", "policy", "action"}
  Shapes <- MCShapes
INVARIANTS
  BlockOnRecord
  ChargedOnce
PROPERTIES
  EveryRequestAnswered
