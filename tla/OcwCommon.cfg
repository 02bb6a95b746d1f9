SPECIFICATION FairSpec
CONSTANTS
    Base = 2
    Messages <- MCMessages
    TrailerTexts <- MCTrailerTexts
    Codes = {200, 503}
    ContentTypes <- MCContentTypes
    None = None
    DEADLINE = 10
    MaxElapsed = 12
INVARIANTS
    TypeOK
    RequestIsReadBack
    DecodedIsReply
    GoodReplyDecodes
PROPERTY HeadersAwaitedFinitely
