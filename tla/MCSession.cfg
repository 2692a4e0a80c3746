SPECIFICATION SessionSpec
CONSTANTS
  Bytes <- MCBytes
  Atoms <- MCBytes
  Streams <- MCStreams
  Numeral <- MCNumeral
  REDIS_IOBUF_LEN = 12
  REDIS_INLINE_MAX_SIZE = 9
  REDIS_MBULK_BIG_ARG = 3
  SDS_MAX_PREALLOC = 16
  client_max_querybuf_len = 20
  MaxMultibulk = 8
  MaxBulk = 6
  LONG_MIN <- MCLongMin
  LONG_MAX = 9
  Undecodable <- MCUndecodable
  SharedText <- MCSharedText
  StoredText <- MCStoredText
  StoredEncoding <- MCStoredEncoding
  Header <- MCHeader
  Fresh = {"n1", "n2", "n3", "n4", "n5", "n6", "n7", "n8", "n9",
           "n10", "n11", "n12", "n13", "n14", "n15"}
  REDIS_REPLY_CHUNK_BYTES = 3
  REDIS_ENCODING_EMBSTR_SIZE_LIMIT = 1
  REDIS_SHARED_BULKHDR_LEN = 2
  REDIS_MAX_WRITE_PER_EVENT = 4
  IntBytes = 2
  MaxShortWrite = 0
  MaxReplies = 5
CONSTRAINT AnsweredOrUnsent
INVARIANTS
  TypeOK
  AssertionsHold
  ArrivedAreExecuted
  AnswersInOrder
PROPERTIES
  TurnsConsume
CHECK_DEADLOCK FALSE
