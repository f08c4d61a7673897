SPECIFICATION FairSpec
CONSTANTS
  Unset = Unset  Garbled = Garbled  Missing = Missing  Refused = Refused
  BadPatterns = {"["}
  BadAddresses = {"nowhere"}
  BuiltinDecoys = {"env-file"}
  Unmatchable = {"10.0.0.0/8x"}
  MaxEvents = 1000
  MaxIpsPerFingerprint = 1000
  Files <- FileNames
  Text <- StartFiles
  Envs <- EnvNames
  EnvOf <- EnvTable
  Starts <- EveryStart
  Argvs <- CommandLines
  Edits <- EditNames
  UrlOf <- Urls
  Scripts <- Peers
  Addresses = {"10.0.0.1", "10.0.0.2", "10.0.0.9"}
  Attackers = {"10.0.0.1"}
  LoopbackHosts = {"localhost"}
  MaxRedirects = 1
  MaxLines = 4
  Typos = {"--nonsense"}
  Readable = {}
  MaxChains = 2
  MaxEdits = 2
INVARIANTS ReloadIsHonest ServiceSurvivesReload FlushedUnlessUnbound
PROPERTIES FeedSparesAllowlisted StoppedAsksNothing SignalEnds
CHECK_DEADLOCK FALSE
