\* Every message and reply of a few pieces, with limits near their lengths; every document of two paragraphs.
SPECIFICATION MCSpec
CONSTANTS
    Message <- MCMessage
    Reply <- MCReply
    Document <- MCDocument
    MaxMessage = 12
    MaxReply = 12
    ChunkSize = 5
INVARIANTS
    ShortIsTaken
    SentIsFit
    ChunksAreFaithful
CHECK_DEADLOCK FALSE
