SPECIFICATION Spec
CONSTANTS
  Ips = {a, b}
  MaxTraffic = 3
  TarpitAt = 15
  BlockAt = 30
  MaxHits = 2
  MaxList = 3
  PageCap = 2
  MaxTracked = 1
  BucketSizes = {10, 50}
  Columns = 2
  MaxBuckets = 3
INVARIANT OneStory
SYMMETRY Symmetry
CHECK_DEADLOCK FALSE
