SPECIFICATION FormatsSpec
CONSTANTS
  Base = 2
  StringType = 1
  HeaderMaps <- MCHeaderMaps
  Buffers <- MCBuffers
  prof = prof
  x = x
  sso = sso
  key = key
  v = v
  w = w
  ProfileWord = prof
  NoKey = NoKey
  Files <- MCFiles
  MaxChars = 6
CHECK_DEADLOCK FALSE
INVARIANTS
  TypesOK
  IndexInRange
  ReadExactly
  NoHeaderRefused
  RoundTrip
  LoadedAsWritten
  WordsAsQuoted
