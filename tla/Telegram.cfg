SPECIFICATION Spec
CONSTANTS
  Uploads = {u1, u2}
  Registered = {u1}
  MaxAttempts = 2
  MaxFloodWait = 2
  StallThreshold = 2
  ReconnectCooldown = 1
  FloodWaits = {1, 2, 3}
  MaxFaults = 2
  Whole = {w}
  Ranged = {r}
  Size = 9
  Alignment = 2
  PartSize = 4
  Offsets = {0, 1, 3, 4, 7, 10}
  Lengths = {1, 4, 6}
  MaxRotations = 2
  StartCap = 120
  MinCap = 30
  MaxCap = 180
  StepCap = 30
  QuietTicks = 2
  RingCap = 1
  Pins = {0, 50}
  MaxRPCs = 2
  MaxMounts = 1
INVARIANT PostsExact DownloadExact ExpiredOnlyIfRotated RateObeysOperator
PROPERTY QuietDuringFlood UploadsSettle CutIffFlooded RaiseOnlyWhenQuiet
CHECK_DEADLOCK FALSE
