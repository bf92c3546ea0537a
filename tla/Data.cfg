SPECIFICATION DataSpec
CONSTANTS
  k1 = k1 k2 = k2 k3 = k3
  Keys = {k1, k2, k3}
  EmptyKey = EmptyKey
  NULL = NULL
  Length = 2
  HashKey <- MCHashKey
  HashAddInserts = FALSE
  e1 = e1 e2 = e2
  Elements = {e1, e2}
  v1 = v1 v2 = v2
  Values = {v1, v2}
  EmptyString = EmptyString
  ByteTexts <- MCByteTexts
  CodedTexts <- MCCodedTexts
  BeforeTable <- MCBeforeTable
  Names <- MCNames
  Challenges <- MCChallenges
  Separators <- MCSeparators
  Jids <- MCJids
  Stanzas <- MCStanzas
  Units <- MCUnits
  Service <- MCService
  Proto <- MCProto
  Domains <- MCDomains
  Records <- MCRecords
  MaxServers = 2
  Polls = 2
  BlockSize = 8
  WordSize = 1
  Pieces <- MCPieces
  MaxPieces = 4
INVARIANTS AttributesListed Base64Exact ResponseRight RenderExact LookupRight BlocksRight
PROPERTY AttributesKept
CHECK_DEADLOCK FALSE
