SPECIFICATION SideSpec
CONSTANTS
  Tracks = {1, 2}
  Names = {"game", "chat"}
  Pids = {1, 2}
  NameOf <- MCNameOf
  PidOf <- MCPidOf
  Reattach = TRUE
  MaxStarts = 3
  MaxFailures = 1
  PollMayHang = TRUE
  ReusedAtOnce = FALSE
  Slots = 3
  Staging = 2
  MaxPictures = 4
  MaxRings = 2
  RecoveryHold = 3
  QueueHighHold = 2
  Window = 2
  MinimumFrames = 2
  FreeSpaceEvery = 2
  MaxChanges = 4
  Current = 2
  Versions = {1, 2, 3}
  Values = {"v1"}
  Default = "v1"
  MaxSaves = 2
  MaxFaults = 2
  ReadMayFail = FALSE
  Nano = 12
  VideoDen = 6
  Rate = 4
  MuxDen = 10
  VideoStep = 2
  AudioStep = 2
  Origins = {0, 8}
  MaxPackets <- MCMaxPackets
  AudioLimit = 2
  KeyEvery = 2
  TailProbe = 9
  LengthTolerance = 3
  Drift = 1
  MuxFaults = 2
  GrabCapacity = 2
  MaxTextures = 6
  MaxGrabs = 5
  GrabFaults = 2
  MaxGrabStarts = 2
  ClosesEarly = FALSE
  LateArrival = FALSE
  MaxArrivals = 3
  MaxOpenings = 2
  SourceFaults = 2
  PoolSize = 2
  MaxSubmissions = 5
  MaxRequests = 2
  EncoderFaults = 1
  FrameSize = 2
  MaxStalls = 2
  MaxChunk = 5
  MaxFed = 7
  CodecFaults = 1
  Ignore = 2
  HardLimit = 8
  Spread = 3
  SkewPeriod = 2
  LossSize = 2
  MaxLosses = 2
  MaxRefusals = 1
  MaxRebuilds = 1
INVARIANTS
  CapturesWhatItWatches
  PaintsWholePictures
  EveryPacketKeepsItsMoment
  NothingIsGivenUpForAPartialCopy
  EveryTextureIsAccountedFor
  EveryPacketIsAnnounced
  EverySampleIsCodedOnce
  PacketsShowTheirPictures
PROPERTIES
  AReturningTargetIsPickedUp
  DriftComesBack
  RecoversWhenClean
  UnknownKeysSurvive
CHECK_DEADLOCK FALSE
