SPECIFICATION ReplyFairSpec
CONSTANTS
  Atoms <- MCBytes
  SharedText <- MCSharedText
  StoredText <- MCStoredText
  StoredEncoding <- MCStoredEncoding
  Header <- MCHeader
  Fresh = {"n1", "n2", "n3", "n4", "n5", "n6", "n7", "n8", "n9", "n10", "n11", "n12"}
  REDIS_REPLY_CHUNK_BYTES = 3
  REDIS_ENCODING_EMBSTR_SIZE_LIMIT = 1
  REDIS_SHARED_BULKHDR_LEN = 2
  REDIS_MAX_WRITE_PER_EVENT = 4
  IntBytes = 2
  MaxShortWrite = 1
  MaxReplies = 3
INVARIANTS
  ReferencesCounted
  PendingIsWatched
  RepliesIntact
PROPERTIES
  OutputDrains
CHECK_DEADLOCK FALSE
