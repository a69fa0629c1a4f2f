\* Both codecs, readers of both, four hops, the default gates, looser ones and none.
SPECIFICATION Spec
CONSTANTS
  Morphemes <- MCMorphemes
  Eps = 0
  Inner <- MCInner
  MaxMantissa = 99999
  ScaleWidth = 256
  MaxU64 = 99999
  MaxU32 = 99
  UnitSecs <- MCUnitSecs
  NsPerSec = 1
  Certain = 1000
  Charset <- MCCharset
  ArgFloats = 2
  MaxMorphemes = 300
  Unknown <- MCUnknown
  Uppercase = {"A", "B", "U"}
  Days = {"today", "far"}
  NGramSize = 256
  Unit = 144
  Batches <- MCBatches
  Bytes <- MCBytes
  Length <- MCLength
  GateConfigs <- MCGateConfigs
  MaxUsize = 65535
  Threshold = 50
  MaxHops = 4
  MaxNoise = 2
INVARIANTS
  TypeOK
  ScoresMeaning
  PackedCarries
  NothingInvented
  BaselineKeeps
  BenchHonest
PROPERTIES
  RelaysSettle
