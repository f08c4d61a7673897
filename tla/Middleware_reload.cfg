SPECIFICATION Spec
CONSTANTS
  Requests = {r1, r2}
  Ips = {a}
  IpOf <- MCIpOf
  Detectors = {"guess", "payload", "replay"}
  BodyDetectors = {"payload"}
  TrapDetectors = {}
  WindowedDetectors = {"guess"}
  CertainDetectors = {"replay"}
  Score <- ScoreOf
  Family <- FamilyOf
  Ask <- AskOf
  ActionIds <- AllActions
  Configs <- Reloads
  BlockRequiresProof = TRUE
  UnprovenBlockFallback = "tarpit"
  Faults = {}
  Shapes <- FewShapes
  FailOpen = TRUE
  GuardMounted = FALSE
INVARIANTS
  CountedOnce
  BlockedOnlyOnProof
  CommittedOnce
  AnsweredWhenRecorded
PROPERTIES
  ImplementsFrontDoor
