SPECIFICATION Spec
CONSTANTS
  Paths = {"cached", "buffered", "moonshine", "voxtral"}
  Feeds <- MCFeeds
  MaxAudio <- MCMaxAudio
  Hop = 5
  Pad = 8
  Subsampling = 8
  SamplingFirst = 1
  PreEncodeCache = 9
  Drop = 2
  CachedMenu <- MCCachedMenu
  BufferedMenu <- MCBufferedMenu
  FrameLen = 3
  FrontPad = 4
  LeftContext = 3
  RightContext = 2
  Throttles = {1, 4}
  Win = 12
  Down = 4
  MelPerTok = 8
  LeftTokens = 2
  RightTokens = 3
  EncWindow = 10
  RingSlots = 20
  MaxBatch = 8
  MaxPosition = 12
  Delays = {1, 2}
  Intervals = {0, 60}
INVARIANTS TypeOK FramesClean ChunksTile RingHoldsWindow FramesKeepTime TailDecoded BacklogBounded
