SPECIFICATION MCSpec
CONSTANTS
  Procs = {p, q}
  Routes <- MCRoutes
  Codes = {1, 3, 258}
  Dicts <- MCDicts
  Trim <- MCTrim
  Messages <- MCMessages
  Deflate <- MCDeflate
  Inflate <- MCInflate
  MaxDicts = 3
  MaxEncodes = 2
  ByteSize = 5
  PacketTypes = {0, 1, 4, 5}
  Payloads <- MCPayloads
  MaxPackets = 3
INVARIANTS DictionariesInvert RoundTrip FramesSurvive
CHECK_DEADLOCK FALSE
