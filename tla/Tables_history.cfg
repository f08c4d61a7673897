SPECIFICATION Spec
CONSTANTS
  Parts = {"requests", "ports", "audit", "blocks", "claims", "labels"}
  Horizon = 6
  Window = 3
  MaxTrackedIps = 1
  MaxEvents = 3
  FingerprintWindow = 4
  MaxFingerprints = 4
  MaxIpsPerFingerprint = 2
  SiteTtl = 2
  MaxPaths = 2
  MaxWalkers = 2
  MinObservations = 1
  MinServedPaths = 1
  Span = 3
  Threshold = 2
  MinMs = 1
  MaxBuckets = 3
  WindowOption = 2
  BaselineOption = 2
  MinSamples = 2
  Cooldown = 2
  CampaignMinIps = 2
  MaxCampaignPaths = 2
  MaxIpsPerPath = 2
  Minute = 1
  MinRate = 1
  MinBlocks = 1
  MinFailures = 1
  Retain = 2
  MaxMinutes = 3
  MaxBlocked = 2
  PerWindow = 1
  RateWindow = 2
  Ips = {a, b}
  NotIps = {"unknown"}
  Actors = {"x"}
  Paths = {"p", "q"}
  Ports = {1, 2}
  Baits = {"q"}
  Logins = {"p"}
  Crawlers = {}
  Retention = 2
  Outcomes = {"served", "missed"}
  Patience = 1
  Spans = {0, 1, 3}
  MaxVisits = 3
  MaxAsks = 3
  MaxClaims = 2
  DnsTtl = 2
  ErrorTtl = 1
  InFlightTtl = 1
  MaxCached = 2
  MissingPtrIsForgery = TRUE
  LabelTtl = 2
  MaxNamed = 1
  Soon = 4
  Interval = 2
PROPERTIES VerdictsFollowHistory TimelinesFollowHistory BlocksHold
SYMMETRY Symmetry
CHECK_DEADLOCK FALSE
