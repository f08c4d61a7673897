SPECIFICATION Spec
CONSTANTS
  Horizon = 5
  Soon = 2
  Parts = {"feed"}
  MaxConcurrent = 1
  Pieces = 2
  Throttled = TRUE
  Ceiling = 1
  Stall = 1
  Buffer = 2
  LagLimit = 1
  LagDrops = 1
  PerSecond = 1
  Lists = {"all"}
  Corpus = 3
  Rows = 2
  Matching = {1, 3}
  MaxSaved = 2
  Hosts = {"node", "fetch", "koa"}
  MaxAsks = 2
  MaxIncidents = 3
  Muted = {}
  MaxClients = 1
  MaxStreams = 2
  MaxClicks = 1
  MaxWatches = 3
  MaxEdits = 3
  MaxBreaks = 1
  Peers = {p, q}
  MaxTries = 4
  MaxAttempts = 2
  Lockout = 1
  MaxLockout = 2
  MaxThrottled = 1
  AuthWindow = 2
  AuthFailures = 2
  MaxGuessers = 1
  Browsers = {b, c}
  Names = {x, y}
INVARIANT NoQuietHole
CHECK_DEADLOCK FALSE
