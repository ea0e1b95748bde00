SPECIFICATION MCSpec
CONSTANTS
  Addresses <- MCAddresses
  MaxLimit = 2
  MaxConns = 2
  MaxUpdates = 3
  None = None
  Ids = {i1, i2}
  Uuids = {u1, u2}
  BadUuids = {bad}
  Configs = {vless, vless2, socks}
  Unmanaged = {socks}
  TrackedAddresses = {1, 2}
  MaxTracked = 3
  MaxTrackedLimit = 1
  MaxGens = 2
  MaxTrackedUpdates = 2
  MaxFlows = 2
  MaxSpeed = 2
  MaxLists = 2
  MaxBytes = 2
  MaxReloads = 3
  MaxFailures = 2
  Domains = {"a", "b"}
  MaxIssued = 2
  MaxPolls = 3
  MaxCrashes = 1
CHECK_DEADLOCK FALSE
INVARIANTS
  RefCountsExact 
  CountsExact OnlineNotRejected
  SharedLimiter BytesCounted
  ReloadLeavesOne RefusedForCause
  MaterialUsable QuietServed
