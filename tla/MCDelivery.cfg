SPECIFICATION DeliverySpec
CONSTANTS
    MaxText = 5
    MaxContent = 7
    MaxFiles = 2
    MaxName = 2
    MaxMime = 1
    MaxHeader = 2
    MaxPacket = 74
    Padding = 8
    Files <- MCFiles
    Headers = {1, 2}
    ForeignFiles <- MCForeign
    ForeignTexts = {0, 3, 6}
    ForeignSizes = {13, 14, 24, 25, 32, 48}
    Chunk = 2
    Drafts <- MCDrafts
    First = 16
    Pieces = {5, 40}
    Errors <- MCErrors
CHECK_DEADLOCK FALSE
INVARIANTS
    PackedArrives
    AcceptsOnlyPacked
    ShownIsTheDraft
    BufferBounded
    ReadOrForCause
